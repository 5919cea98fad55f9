----------------------- MODULE ImageDescriptor_proofs -----------------------
(***************************************************************************)
(* Proofs about the search for an image descriptor, for any images and any *)
(* number of failing calls.                                                *)
(***************************************************************************)
EXTENDS ImageDescriptor, TLAPS

-----------------------------------------------------------------------------
(* The structures. *)

\* The numbers of a file are naturals.
LEMMA NumberNat ==
  ASSUME NEW f, IsFile(f), NEW p
  PROVE  Number(f, p) \in Nat
  BY DEF IsFile, Number

\* So are those of a base structure.
LEMMA DescriptorNat ==
  ASSUME NEW f, IsFile(f), NEW o
  PROVE  /\ Descriptor(f, o).RegionCount \in Nat
         /\ Descriptor(f, o).BlobSize \in Nat
         /\ Descriptor(f, o).DescriptorOffset \in Nat
  BY NumberNat DEF Descriptor

\* The two hash structures.
LEMMA HashShape ==
  ASSUME NEW ht, Implemented(ht)
  PROVE  /\ (ht = 2 /\ NewDescriptorHash(ht) = 36) \/ (ht = 4 /\ NewDescriptorHash(ht) = 68)
         /\ NewDescriptorHash(ht) \in Nat
<1>1. ht = 2 \/ ht = 4
  BY DEF Implemented, HashTypeSHA2_256, HashTypeSHA2_512
<1>2. CASE ht = 2
  BY <1>2 DEF NewDescriptorHash, HashTypeSHA2_256, HashTypeSHA2_512, HashSHA256
<1>3. CASE ht = 4
  BY <1>3 DEF NewDescriptorHash, HashTypeSHA2_256, HashTypeSHA2_512, HashSHA512
<1> QED BY <1>1, <1>2, <1>3

\* What the signature structures have in common: the signature value comes
\* last, has the size SignatureValueSize says, and what is before it ends a
\* field or is read with it.
Shaped(sig, scheme) ==
  /\ sig.size \in Nat
  /\ sig.value \in Nat
  /\ sig.value = SignatureValueSize(scheme)
  /\ sig.value < sig.size
  /\ sig.ends \subseteq 1 .. sig.size
  /\ sig.size \in sig.ends

\* The structure NewSignature makes for a scheme has the ends of that scheme.
LEMMA SignatureShape ==
  ASSUME NEW scheme \in VerificationSchemeName
  PROVE  Shaped(NewSignature(scheme), scheme)
<1>1. scheme \in {1, 2, 3, 4, 5}
  BY DEF VerificationSchemeName
<1>2. CASE scheme = 1
  <2>1. NewSignature(scheme) = RSA(256) /\ SignatureValueSize(scheme) = 256
    BY <1>2 DEF NewSignature, NewSignatureRSA, VerificationSchemeSHA256,
                SignatureRSA2048PKCS1_5, SignatureValueSize
  <2> QED BY <2>1 DEF Shaped, RSA
<1>3. CASE scheme = 2
  <2>1. NewSignature(scheme) = RSA(384) /\ SignatureValueSize(scheme) = 384
    BY <1>3 DEF NewSignature, NewSignatureRSA, VerificationSchemeSHA256,
                SignatureRSA3072PKCS1_5, SignatureValueSize
  <2> QED BY <2>1 DEF Shaped, RSA
<1>4. CASE scheme = 3
  <2>1. NewSignature(scheme) = RSA(512) /\ SignatureValueSize(scheme) = 512
    BY <1>4 DEF NewSignature, NewSignatureRSA, VerificationSchemeSHA256,
                SignatureRSA4096PKCS1_5, SignatureValueSize
  <2> QED BY <2>1 DEF Shaped, RSA
<1>5. CASE scheme = 4
  <2>1. NewSignature(scheme) = RSA(512) /\ SignatureValueSize(scheme) = 512
    BY <1>5 DEF NewSignature, NewSignatureRSA, VerificationSchemeSHA256,
                SignatureRSA4096PKCS15SHA512, SignatureValueSize
  <2> QED BY <2>1 DEF Shaped, RSA
<1>6. CASE scheme = 5
  <2>1. NewSignature(scheme) = SHA256Digest /\ SignatureValueSize(scheme) = 32
    BY <1>6 DEF NewSignature, VerificationSchemeSHA256, SignatureValueSize
  <2> QED BY <2>1 DEF Shaped, SHA256Digest
<1> QED BY <1>1, <1>2, <1>3, <1>4, <1>5, <1>6

-----------------------------------------------------------------------------
(* The inductive invariant. *)

sigOf == NewSignature(Descriptor(image, offset).VerificationScheme)

\* What has been read of the candidate at offset once its base structure, its
\* regions, its hash, its blob, its signature have been.
HasDescriptor ==
  /\ parts.descriptor = Span(offset, DescriptorSize)
  /\ ValidDescriptor(Descriptor(image, offset))

HasRegions ==
  /\ HasDescriptor
  /\ parts.regions = Span(offset + DescriptorSize,
                          Descriptor(image, offset).RegionCount * RegionSize)
  /\ HashAt(image, offset) <= image.size

HasHash ==
  /\ HasRegions
  /\ Implemented(Descriptor(image, offset).HashType)
  /\ Fits(image, HashAt(image, offset), NewDescriptorHash(Descriptor(image, offset).HashType))
  /\ parts.hash = Span(HashAt(image, offset), BlobAt(image, offset) - HashAt(image, offset))

HasBlob ==
  /\ HasHash
  /\ Descriptor(image, offset).BlobSize > 0 => Text(image, BlobAt(image, offset)) = BlobMagic
  /\ SignatureAt(image, offset) <= image.size
  /\ parts.blob = Span(BlobAt(image, offset), SignatureAt(image, offset) - BlobAt(image, offset))

HasSignature ==
  /\ HasBlob
  /\ \E n \in Filled(sigOf, image.size - SignatureAt(image, offset)) :
        /\ parts.signature = Span(SignatureAt(image, offset), n)
        /\ failures = 0 => StopsAtEnd(sigOf, image.size - SignatureAt(image, offset), n)

Found == HasSignature /\ Descriptor(image, offset).DescriptorOffset = offset

\* Where the reader is while a candidate is read.
Reading ==
  /\ pc \in Structures \cup {"signature", "offset", "serialize"} =>
       offset \in Nat /\ offset + 8 <= image.size
  /\ pc = "descriptor" => position = offset
  /\ pc = "regions"    => HasDescriptor /\ position = offset + DescriptorSize
  /\ pc = "hash"       => HasRegions /\ position = HashAt(image, offset)
  /\ pc = "blob"       => HasHash /\ position = BlobAt(image, offset)
  /\ pc = "signature"  => HasBlob /\ position = SignatureAt(image, offset)
  /\ pc = "offset"     => HasSignature
  /\ pc = "serialize"  => Found

\* What a search that has ended has returned, and from where.
Returned ==
  /\ result.kind \in {"panic", "hash"} => pc = "done"
  /\ pc = "done" /\ offset >= 0 /\ failures = 0 => IsDescriptor(image, offset)
  /\ result.kind \in {"panic", "hash"} =>
       /\ offset \in Nat
       /\ offset + 8 <= image.size
       /\ Found
  /\ result.kind = "hash" =>
       Present(parts.hash) /\ result.of = Measured

\* Every boundary the scan has passed holds no descriptor.
Passed ==
  failures = 0 /\ pc /= "size" =>
     \A o \in Boundary(image) : o > offset => ~IsDescriptor(image, o)

IInv == IsFile(image) /\ TypeOK /\ Reading /\ Returned /\ Passed

\* The next structure of a candidate is within the image's numbers.
LEMMA Layout ==
  ASSUME NEW f, IsFile(f), NEW o \in Nat
  PROVE  /\ HashAt(f, o) \in Nat
         /\ HashAt(f, o) = o + 96 + Descriptor(f, o).RegionCount * 44
         /\ Implemented(Descriptor(f, o).HashType) =>
              /\ BlobAt(f, o) \in Nat
              /\ SignatureAt(f, o) \in Nat
              /\ HashAt(f, o) <= BlobAt(f, o)
              /\ BlobAt(f, o) <= HashAt(f, o) + NewDescriptorHash(Descriptor(f, o).HashType)
              /\ BlobAt(f, o) <= SignatureAt(f, o)
<1>1. /\ Descriptor(f, o).RegionCount \in Nat
      /\ Descriptor(f, o).BlobSize \in Nat
  BY DescriptorNat
<1>2. /\ HashAt(f, o) \in Nat
      /\ HashAt(f, o) = o + 96 + Descriptor(f, o).RegionCount * 44
  BY <1>1 DEF HashAt, DescriptorSize, RegionSize
<1>3. ASSUME Implemented(Descriptor(f, o).HashType)
      PROVE  /\ BlobAt(f, o) \in Nat
             /\ HashAt(f, o) <= BlobAt(f, o)
             /\ BlobAt(f, o) <= HashAt(f, o) + NewDescriptorHash(Descriptor(f, o).HashType)
  BY <1>2, <1>3, HashShape DEF BlobAt
<1>4. ASSUME Implemented(Descriptor(f, o).HashType)
      PROVE  SignatureAt(f, o) \in Nat /\ BlobAt(f, o) <= SignatureAt(f, o)
  BY <1>1, <1>3, <1>4 DEF SignatureAt
<1> QED BY <1>2, <1>3, <1>4

\* A candidate with all its structures and its offset right is a descriptor.
LEMMA FoundOne ==
  ASSUME IsFile(image), offset \in Nat, Found
  PROVE  IsDescriptor(image, offset)
<1>1. image.size \in Nat
  BY DEF IsFile
<1>2. /\ ValidDescriptor(Descriptor(image, offset))
      /\ Descriptor(image, offset).DescriptorOffset = offset
      /\ Implemented(Descriptor(image, offset).HashType)
      /\ Fits(image, HashAt(image, offset), NewDescriptorHash(Descriptor(image, offset).HashType))
      /\ SignatureAt(image, offset) <= image.size
      /\ Descriptor(image, offset).BlobSize > 0 => Text(image, BlobAt(image, offset)) = BlobMagic
  BY DEF Found, HasSignature, HasBlob, HasHash, HasRegions, HasDescriptor
<1>3. SignatureAt(image, offset) \in Nat
  BY <1>2, Layout
<1> QED BY <1>1, <1>2, <1>3 DEF IsDescriptor, Fits

-----------------------------------------------------------------------------
(* One lemma per kind of step. *)

\* Two boundaries less than a page apart are the same.
LEMMA NextBoundary ==
  ASSUME NEW a \in Int, NEW b \in Int, a % Alignment = 0, b % Alignment = 0,
         a > b - Alignment
  PROVE  a >= b
  BY DEF Alignment

\* The boundaries of an image are the multiples of Alignment in it.
LEMMA BoundaryIs ==
  ASSUME NEW f, f.size \in Nat, NEW o
  PROVE  o \in Boundary(f) <=> o \in Nat /\ o <= f.size /\ o % Alignment = 0
<1>1. ASSUME o \in Boundary(f)
      PROVE  o \in Nat /\ o <= f.size /\ o % Alignment = 0
  <2>1. PICK i \in 0 .. f.size \div Alignment : o = i * Alignment
    BY <1>1 DEF Boundary
  <2> QED BY <2>1 DEF Alignment
<1>2. ASSUME o \in Nat, o <= f.size, o % Alignment = 0
      PROVE  o \in Boundary(f)
  <2>1. /\ o = (o \div Alignment) * Alignment
        /\ o \div Alignment \in 0 .. f.size \div Alignment
    BY <1>2 DEF Alignment
  <2> QED BY <2>1 DEF Boundary
<1> QED BY <1>1, <1>2

Calls == image' = image /\ (failures' = failures \/ (CallFails /\ failures' > 0))

\* A call on the file counts its failure and leaves the image alone.
LEMMA CallsKept ==
  ASSUME TypeOK, CallFails \/ CallsSucceed
  PROVE  Calls /\ failures' \in 0 .. MaxFailures /\ (failures' = 0 => failures = 0)
  BY FailuresAssumption DEF TypeOK, Calls, CallFails, CallsSucceed

\* The scan may go on below a boundary that holds no descriptor, or once a
\* call has failed.
LEMMA GoOn ==
  ASSUME IInv, NextPage, CallFails \/ CallsSucceed, pc /= "done", pc /= "size",
         failures' = 0 => ~IsDescriptor(image, offset)
  PROVE  IInv'
<1>1. /\ pc' = "page"
      /\ offset' = offset - Alignment
      /\ parts' = NoParts
      /\ position' = position
      /\ result' = result
      /\ image' = image
      /\ failures' \in 0 .. MaxFailures
      /\ failures' = 0 => failures = 0
  BY CallsKept DEF IInv, NextPage, Calls
<1>2. TypeOK'
  <2>1. offset' \in Int /\ offset' % Alignment = 0
    BY <1>1 DEF IInv, TypeOK, Alignment
  <2>2. NoParts \in [{"descriptor", "regions", "hash", "blob", "signature"} -> Spans]
    BY DEF NoParts, Absent, Span, Spans
  <2> QED BY <1>1, <2>1, <2>2 DEF IInv, TypeOK, Stages
<1>3. Reading'
  BY <1>1 DEF Reading, Structures
<1>4. Returned'
  BY <1>1 DEF IInv, Returned
<1>5. Passed'
  <2> SUFFICES ASSUME failures' = 0, NEW o \in Boundary(image), o > offset - Alignment
               PROVE  ~IsDescriptor(image, o)
    BY <1>1 DEF Passed
  <2>1. o >= offset /\ o \in Int
    BY BoundaryIs, NextBoundary DEF IInv, TypeOK, IsFile
  <2>2. CASE o = offset
    BY <2>2
  <2>3. CASE o > offset
    BY <1>1, <2>3 DEF IInv, Passed
  <2> QED BY <2>1, <2>2, <2>3 DEF IInv, TypeOK
<1> QED BY <1>1, <1>2, <1>3, <1>4, <1>5 DEF IInv

\* The scan may end with an error.
LEMMA EndsInError ==
  ASSUME IInv, Error, CallFails \/ CallsSucceed,
         pc = "size" => failures' > 0,
         offset >= 0 /\ failures' = 0 => IsDescriptor(image, offset)
  PROVE  IInv'
<1>1. /\ pc' = "done"
      /\ result' = [kind |-> "error"]
      /\ offset' = offset
      /\ parts' = parts
      /\ position' = position
      /\ image' = image
      /\ failures' \in 0 .. MaxFailures
      /\ failures' = 0 => failures = 0
  BY CallsKept DEF IInv, Error, Return, Calls
<1>2. TypeOK'
  BY <1>1 DEF IInv, TypeOK, Stages
<1>3. Reading'
  BY <1>1 DEF Reading, Structures
<1>4. Returned'
  BY <1>1 DEF Returned
<1>5. Passed'
  BY <1>1 DEF IInv, Passed
<1> QED BY <1>1, <1>2, <1>3, <1>4, <1>5 DEF IInv

\* A boundary without room for the magic, or with another, has no descriptor.
LEMMA NoneHere ==
  ASSUME IsFile(image), offset \in Nat, ~HasRoom \/ ~HasMagic
  PROVE  ~IsDescriptor(image, offset)
<1> SUFFICES ASSUME IsDescriptor(image, offset) PROVE FALSE
  OBVIOUS
<1>1. HasMagic
  BY DEF IsDescriptor, ValidDescriptor, Descriptor, HasMagic
<1>2. HashAt(image, offset) \in Nat /\ HashAt(image, offset) >= offset + 96
  <2>1. Descriptor(image, offset).RegionCount \in Nat
    BY DescriptorNat
  <2>2. /\ HashAt(image, offset) \in Nat
        /\ HashAt(image, offset) = offset + 96 + Descriptor(image, offset).RegionCount * 44
    BY Layout
  <2> QED BY <2>1, <2>2
<1>3. Fits(image, HashAt(image, offset), NewDescriptorHash(Descriptor(image, offset).HashType))
      /\ NewDescriptorHash(Descriptor(image, offset).HashType) \in Nat
  BY HashShape DEF IsDescriptor
<1>4. HasRoom
  BY <1>2, <1>3 DEF Fits, HasRoom, IsFile
<1> QED BY <1>1, <1>4

\* A candidate whose next structure does not read is no descriptor.
LEMMA NotOne ==
  ASSUME IInv, pc \in Structures, ~StructureReads
  PROVE  ~IsDescriptor(image, offset)
<1> SUFFICES ASSUME IsDescriptor(image, offset) PROVE FALSE
  OBVIOUS
<1> DEFINE d == Descriptor(image, offset)
<1>1. offset \in Nat /\ image.size \in Nat /\ IsFile(image)
  BY DEF IInv, Reading, IsFile
<1>2. /\ ValidDescriptor(d)
      /\ Implemented(d.HashType)
      /\ Fits(image, HashAt(image, offset), NewDescriptorHash(d.HashType))
      /\ Fits(image, SignatureAt(image, offset), 0)
      /\ d.BlobSize > 0 => Text(image, BlobAt(image, offset)) = BlobMagic
  BY DEF IsDescriptor
<1>3. d.RegionCount \in Nat /\ d.BlobSize \in Nat
  BY <1>1, DescriptorNat
<1>4. NewDescriptorHash(d.HashType) \in Nat
  BY <1>2, HashShape
<1>5. HashAt(image, offset) = offset + 96 + d.RegionCount * 44
  BY <1>1, Layout
<1>6. CASE pc = "descriptor"
  <2>1. position = offset
    BY <1>6 DEF IInv, Reading
  <2>2. ~DescriptorReads(offset)
    BY <1>6, <2>1 DEF StructureReads
  <2>3. offset + 96 <= image.size
    BY <1>1, <1>2, <1>3, <1>4, <1>5 DEF Fits
  <2> QED BY <1>2, <2>2, <2>3 DEF DescriptorReads, Fits, DescriptorSize
<1>7. CASE pc = "regions"
  <2>1. position = offset + 96 /\ parts.descriptor.from = offset
    BY <1>7 DEF IInv, Reading, HasDescriptor, Span, DescriptorSize
  <2>2. ~RegionsRead(offset + 96, d.RegionCount)
    BY <1>7, <2>1 DEF StructureReads, desc
  <2> QED BY <1>1, <1>2, <1>3, <1>4, <1>5, <2>2 DEF RegionsRead, Fits, RegionSize
<1>8. CASE pc = "hash"
  <2>1. position = HashAt(image, offset) /\ parts.descriptor.from = offset
    BY <1>8 DEF IInv, Reading, HasRegions, HasDescriptor, Span
  <2>2. ~HashReads(HashAt(image, offset), d.HashType)
    BY <1>8, <2>1 DEF StructureReads, desc
  <2> QED BY <1>2, <2>2 DEF HashReads
<1>9. CASE pc = "blob"
  <2>1. position = BlobAt(image, offset) /\ parts.descriptor.from = offset
    BY <1>9 DEF IInv, Reading, HasHash, HasRegions, HasDescriptor, Span
  <2>2. ~BlobReads(BlobAt(image, offset), d.BlobSize)
    BY <1>9, <2>1 DEF StructureReads, desc
  <2>3. d.BlobSize > 0 /\ Text(image, BlobAt(image, offset)) = BlobMagic
    BY <1>2, <1>3, <2>2 DEF BlobReads
  <2>4. BlobAt(image, offset) + (d.BlobSize + 4) <= image.size
    BY <1>1, <1>2, <1>3, <2>3, Layout DEF Fits, SignatureAt
  <2> QED BY <2>2, <2>3, <2>4 DEF BlobReads, Fits
<1> QED BY <1>6, <1>7, <1>8, <1>9 DEF Structures

\* A structure read leaves everything but Reading to the next step as it was.
LEMMA ParsedKeeps ==
  ASSUME IInv, CallFails \/ CallsSucceed,
         NEW name \in {"descriptor", "regions", "hash", "blob", "signature"},
         NEW span \in Spans, NEW p \in Nat,
         NEW next \in Structures \cup {"signature", "offset"},
         Parsed(name, span, p, next),
         pc \in Structures \cup {"signature"}
  PROVE  /\ TypeOK' /\ Returned' /\ Passed' /\ IsFile(image)'
         /\ image' = image /\ offset' = offset
         /\ parts' = [parts EXCEPT ![name] = span]
         /\ position' = p
         /\ pc' = next
         /\ offset \in Nat /\ offset + 8 <= image.size
<1>1. /\ pc' = next
      /\ result' = result
      /\ offset' = offset
      /\ parts' = [parts EXCEPT ![name] = span]
      /\ position' = p
      /\ image' = image
      /\ failures' \in 0 .. MaxFailures
      /\ failures' = 0 => failures = 0
  BY CallsKept DEF IInv, Parsed, Calls
<1>2. TypeOK'
  BY <1>1 DEF IInv, TypeOK, Stages
<1>3. Returned'
  BY <1>1 DEF IInv, Returned, Structures
<1>4. Passed'
  BY <1>1 DEF IInv, Passed, Structures
<1>5. offset \in Nat /\ offset + 8 <= image.size
  BY DEF IInv, Reading
<1> QED BY <1>1, <1>2, <1>3, <1>4, <1>5 DEF IInv

\* Reading the base structure keeps the invariant.
LEMMA StepDescriptor ==
  ASSUME IInv, ReadImageDescriptor
  PROVE  IInv'
<1>1. /\ pc = "descriptor"
      /\ CallsSucceed
      /\ Parsed("descriptor", Span(position, DescriptorSize), position + DescriptorSize, "regions")
      /\ DescriptorReads(position)
  BY DEF ReadImageDescriptor, StructureReads
<1>2. position = offset /\ position \in Nat
  BY <1>1 DEF IInv, Reading, TypeOK
<1>3. Span(position, DescriptorSize) \in Spans /\ position + DescriptorSize \in Nat
  BY <1>2 DEF Span, Spans, DescriptorSize
<1>4. /\ TypeOK' /\ Returned' /\ Passed' /\ IsFile(image)'
      /\ image' = image /\ offset' = offset
      /\ parts' = [parts EXCEPT !["descriptor"] = Span(position, DescriptorSize)]
      /\ position' = position + DescriptorSize
      /\ pc' = "regions"
      /\ offset \in Nat /\ offset + 8 <= image.size
  BY <1>1, <1>3, ParsedKeeps DEF Structures
<1>5. HasDescriptor'
  BY <1>1, <1>2, <1>4 DEF HasDescriptor, DescriptorReads, IInv, TypeOK
<1>6. Reading'
  BY <1>2, <1>4, <1>5 DEF Reading
<1> QED BY <1>4, <1>6 DEF IInv

\* Reading the regions does.
LEMMA StepRegions ==
  ASSUME IInv, ReadImageDescriptorRegions
  PROVE  IInv'
<1> DEFINE n == Descriptor(image, offset).RegionCount * RegionSize
<1>1. pc = "regions" /\ HasDescriptor /\ position = offset + DescriptorSize
      /\ offset \in Nat /\ image.size \in Nat /\ IsFile(image)
  BY DEF IInv, Reading, ReadImageDescriptorRegions, Structures, IsFile
<1>2. desc = Descriptor(image, offset)
  BY <1>1 DEF desc, HasDescriptor, Span
<1>3. n \in Nat /\ position \in Nat /\ HashAt(image, offset) = position + n
  BY <1>1, DescriptorNat DEF HashAt, DescriptorSize, RegionSize
<1>4. /\ CallsSucceed
      /\ Parsed("regions", Span(position, n), position + n, "hash")
      /\ Fits(image, position, n)
  BY <1>1, <1>2 DEF ReadImageDescriptorRegions, StructureReads, RegionsRead
<1>5. Span(position, n) \in Spans /\ position + n \in Nat
  BY <1>3 DEF Span, Spans
<1>6. /\ TypeOK' /\ Returned' /\ Passed' /\ IsFile(image)'
      /\ image' = image /\ offset' = offset
      /\ parts' = [parts EXCEPT !["regions"] = Span(position, n)]
      /\ position' = position + n
      /\ pc' = "hash"
      /\ offset \in Nat /\ offset + 8 <= image.size
  BY <1>1, <1>4, <1>5, ParsedKeeps DEF Structures
<1>7. HasRegions'
  BY <1>1, <1>3, <1>4, <1>6 DEF HasRegions, HasDescriptor, Fits, IInv, TypeOK
<1>8. Reading'
  BY <1>3, <1>6, <1>7 DEF Reading
<1> QED BY <1>6, <1>8 DEF IInv

\* Reading the hash structure does.
LEMMA StepHash ==
  ASSUME IInv, ReadHash
  PROVE  IInv'
<1> DEFINE d == Descriptor(image, offset)
           n == BlobAt(image, offset) - HashAt(image, offset)
<1>1. pc = "hash" /\ HasRegions /\ position = HashAt(image, offset)
      /\ offset \in Nat /\ image.size \in Nat /\ IsFile(image)
  BY DEF IInv, Reading, ReadHash, Structures, IsFile
<1>2. desc = d
  BY <1>1 DEF desc, HasRegions, HasDescriptor, Span
<1>3. Implemented(d.HashType) /\ Fits(image, position, NewDescriptorHash(d.HashType))
  BY <1>1, <1>2 DEF ReadHash, StructureReads, HashReads
<1>4. position \in Nat /\ n \in Nat /\ BlobAt(image, offset) \in Nat
  BY <1>1, <1>3, Layout
<1>5. n = IF Text(image, position) = HashMagic THEN NewDescriptorHash(d.HashType) ELSE 0
  BY <1>1, <1>3, <1>4, HashShape DEF BlobAt
<1>6. /\ CallsSucceed
      /\ Parsed("hash", Span(position, n), position + n, "blob")
  BY <1>2, <1>5 DEF ReadHash
<1>7. Span(position, n) \in Spans /\ position + n = BlobAt(image, offset)
  BY <1>1, <1>4 DEF Span, Spans
<1>8. /\ TypeOK' /\ Returned' /\ Passed' /\ IsFile(image)'
      /\ image' = image /\ offset' = offset
      /\ parts' = [parts EXCEPT !["hash"] = Span(position, n)]
      /\ position' = position + n
      /\ pc' = "blob"
      /\ offset \in Nat /\ offset + 8 <= image.size
  BY <1>1, <1>4, <1>6, <1>7, ParsedKeeps DEF Structures
<1>9. HasHash'
  BY <1>1, <1>3, <1>8 DEF HasHash, HasRegions, HasDescriptor, IInv, TypeOK
<1>10. Reading'
  BY <1>7, <1>8, <1>9 DEF Reading
<1> QED BY <1>8, <1>10 DEF IInv

\* Reading the blob does.
LEMMA StepBlob ==
  ASSUME IInv, ReadBlob
  PROVE  IInv'
<1> DEFINE d == Descriptor(image, offset)
           n == SignatureAt(image, offset) - BlobAt(image, offset)
<1>1. pc = "blob" /\ HasHash /\ position = BlobAt(image, offset)
      /\ offset \in Nat /\ image.size \in Nat /\ IsFile(image)
  BY DEF IInv, Reading, ReadBlob, Structures, IsFile
<1>2. desc = d /\ Implemented(d.HashType)
  BY <1>1 DEF desc, HasHash, HasRegions, HasDescriptor, Span
<1>3. BlobReads(position, d.BlobSize)
  BY <1>1, <1>2 DEF ReadBlob, StructureReads
<1>4. /\ position \in Nat /\ n \in Nat /\ SignatureAt(image, offset) \in Nat
      /\ d.BlobSize \in Nat
  BY <1>1, <1>2, Layout, DescriptorNat
<1>5. n = IF d.BlobSize > 0 THEN d.BlobSize + 4 ELSE 0
  BY <1>1, <1>4 DEF SignatureAt
<1>6. /\ CallsSucceed
      /\ Parsed("blob", Span(position, n), position + n, "signature")
  BY <1>2, <1>5 DEF ReadBlob
<1>7. Span(position, n) \in Spans /\ position + n = SignatureAt(image, offset)
  BY <1>1, <1>4 DEF Span, Spans
<1>8. /\ TypeOK' /\ Returned' /\ Passed' /\ IsFile(image)'
      /\ image' = image /\ offset' = offset
      /\ parts' = [parts EXCEPT !["blob"] = Span(position, n)]
      /\ position' = position + n
      /\ pc' = "signature"
      /\ offset \in Nat /\ offset + 8 <= image.size
  BY <1>1, <1>4, <1>6, <1>7, ParsedKeeps DEF Structures
<1>9. SignatureAt(image, offset) <= image.size
  <2>1. CASE d.BlobSize > 0
    BY <2>1, <1>3, <1>4, <1>5, <1>7 DEF BlobReads, Fits
  <2>2. CASE d.BlobSize = 0
    <3>1. NewDescriptorHash(d.HashType) \in Nat
      BY <1>2, HashShape
    <3>2. HashAt(image, offset) \in Nat
          /\ BlobAt(image, offset) <= HashAt(image, offset) + NewDescriptorHash(d.HashType)
      BY <1>1, <1>2, Layout
    <3>3. HashAt(image, offset) + NewDescriptorHash(d.HashType) <= image.size
      BY <1>1 DEF HasHash, Fits
    <3>4. SignatureAt(image, offset) = BlobAt(image, offset)
      BY <1>1, <1>4, <1>5, <1>7, <2>2
    <3> HIDE DEF d, n
    <3> QED BY <1>1, <1>4, <3>1, <3>2, <3>3, <3>4
  <2> QED BY <1>4, <2>1, <2>2
<1>10. d.BlobSize > 0 => Text(image, BlobAt(image, offset)) = BlobMagic
  BY <1>1, <1>3, <1>4 DEF BlobReads
<1>11. HasBlob'
  BY <1>1, <1>8, <1>9, <1>10 DEF HasBlob, HasHash, HasRegions, HasDescriptor, IInv, TypeOK
<1>12. Reading'
  BY <1>7, <1>8, <1>11 DEF Reading
<1> QED BY <1>8, <1>12 DEF IInv

\* Reading the signature does, wherever it stops.
LEMMA StepSignature ==
  ASSUME IInv, ReadSignature
  PROVE  IInv'
<1> DEFINE from == SignatureAt(image, offset)
<1>1. pc = "signature" /\ HasBlob /\ position = from
      /\ offset \in Nat /\ image.size \in Nat /\ IsFile(image)
  BY DEF IInv, Reading, ReadSignature, Structures, IsFile
<1>2. /\ desc = Descriptor(image, offset)
      /\ Implemented(desc.HashType)
      /\ desc.VerificationScheme \in VerificationSchemeName
  BY <1>1 DEF desc, HasBlob, HasHash, HasRegions, HasDescriptor, Span, ValidDescriptor
<1>3. from \in Nat
  BY <1>1, <1>2, Layout
<1>4. PICK n \in Filled(sigOf, image.size - from) :
        /\ \/ StopsAtEnd(sigOf, image.size - from, n) /\ CallsSucceed
           \/ CallFails
        /\ Parsed("signature", Span(from, n), from + n, "offset")
  BY <1>1, <1>2 DEF ReadSignature, sigOf
<1>5. n \in Nat
  BY <1>2, SignatureShape DEF Shaped, Filled, sigOf
<1>6. Span(from, n) \in Spans /\ from + n \in Nat
  BY <1>3, <1>5 DEF Span, Spans
<1>7. /\ TypeOK' /\ Returned' /\ Passed' /\ IsFile(image)'
      /\ image' = image /\ offset' = offset
      /\ parts' = [parts EXCEPT !["signature"] = Span(from, n)]
      /\ position' = from + n
      /\ pc' = "offset"
      /\ offset \in Nat /\ offset + 8 <= image.size
  BY <1>1, <1>4, <1>6, ParsedKeeps
<1>8. failures' = 0 => StopsAtEnd(sigOf, image.size - from, n)
  BY <1>4 DEF CallFails, IInv, TypeOK
<1>9. HasBlob'
  BY <1>1, <1>7 DEF HasBlob, HasHash, HasRegions, HasDescriptor, IInv, TypeOK
<1>10. parts'.signature = Span(from, n)
  BY <1>7 DEF IInv, TypeOK
<1>11. HasSignature'
  BY <1>4, <1>7, <1>8, <1>9, <1>10 DEF HasSignature, sigOf
<1>12. Reading'
  BY <1>7, <1>11 DEF Reading, Structures
<1> QED BY <1>7, <1>12 DEF IInv

\* So does finding that the descriptor knows its offset.
LEMMA StepKnows ==
  ASSUME IInv, KnowsOffset
  PROVE  IInv'
<1>1. /\ pc = "offset" /\ pc' = "serialize"
      /\ image' = image /\ failures' = failures /\ parts' = parts
      /\ offset' = offset /\ position' = position /\ result' = result
      /\ desc.DescriptorOffset = offset
  BY DEF KnowsOffset, CallsSucceed
<1>2. HasSignature /\ offset \in Nat /\ offset + 8 <= image.size
  BY <1>1 DEF IInv, Reading
<1>3. desc = Descriptor(image, offset)
  BY <1>2 DEF desc, HasSignature, HasBlob, HasHash, HasRegions, HasDescriptor, Span
<1>4. Found
  BY <1>1, <1>2, <1>3 DEF Found
<1>5. Found'
  BY <1>1, <1>4 DEF Found, HasSignature, HasBlob, HasHash, HasRegions, HasDescriptor, sigOf
<1>6. Reading'
  BY <1>1, <1>2, <1>5 DEF Reading, Structures
<1>7. TypeOK' /\ Returned' /\ Passed'
  BY <1>1 DEF IInv, TypeOK, Stages, Returned, Passed
<1> QED BY <1>1, <1>6, <1>7 DEF IInv

\* The candidate found is hashed or makes the program panic.
LEMMA StepReturn ==
  ASSUME IInv, Panic \/ HashImageDescriptor
  PROVE  IInv'
<1>1. /\ pc = "serialize" /\ pc' = "done"
      /\ image' = image /\ failures' = failures /\ parts' = parts
      /\ offset' = offset /\ position' = position
      /\ \/ result' = [kind |-> "panic"]
         \/ /\ result' = [kind |-> "hash", hashType |-> desc.HashType, of |-> Measured]
            /\ Present(parts.hash)
  BY DEF Panic, HashImageDescriptor, Return, CallsSucceed
<1>2. Found /\ offset \in Nat /\ offset + 8 <= image.size
  BY <1>1 DEF IInv, Reading
<1>3. IsDescriptor(image, offset)
  BY <1>2, FoundOne DEF IInv
<1>4. Found'
  BY <1>1, <1>2 DEF Found, HasSignature, HasBlob, HasHash, HasRegions, HasDescriptor, sigOf
<1>5. TypeOK' /\ Reading' /\ Passed'
  BY <1>1 DEF IInv, TypeOK, Stages, Reading, Structures, Passed
<1>6. Measured' = Measured
  BY <1>1 DEF Measured, desc
<1>7. result'.kind = "hash" => Present(parts.hash)' /\ result'.of = Measured'
  BY <1>1, <1>6
<1>8. Returned'
  BY <1>1, <1>2, <1>3, <1>4, <1>7 DEF Returned
<1> QED BY <1>1, <1>5, <1>8 DEF IInv

\* Starting at the last boundary of the image does.
LEMMA StepSeekEnd ==
  ASSUME IInv, SeekEnd
  PROVE  IInv'
<1>1. /\ pc = "size" /\ pc' = "page"
      /\ image' = image /\ failures' = failures /\ parts' = parts
      /\ offset' = (image.size \div Alignment) * Alignment
      /\ position' = position /\ result' = result
  BY DEF SeekEnd, CallsSucceed
<1>2. image.size \in Nat
  BY DEF IInv, IsFile
<1>3. /\ offset' \in Nat /\ offset' % Alignment = 0
      /\ offset' <= image.size /\ image.size < offset' + Alignment
  BY <1>1, <1>2 DEF Alignment
<1>4. TypeOK' /\ Reading' /\ Returned'
  BY <1>1, <1>3 DEF IInv, TypeOK, Stages, Reading, Returned, Structures
<1>5. Passed'
  <2> SUFFICES ASSUME NEW o \in Boundary(image), o > offset' PROVE FALSE
    BY <1>1 DEF Passed
  <2>1. o \in Nat /\ o <= image.size /\ o % Alignment = 0
    BY <1>2, BoundaryIs
  <2>2. offset' > o - Alignment
    BY <1>2, <1>3, <2>1 DEF Alignment
  <2>3. offset' >= o
    BY <1>3, <2>1, <2>2, NextBoundary
  <2> QED BY <1>3, <2>1, <2>3
<1> QED BY <1>1, <1>4, <1>5 DEF IInv

\* Finding the magic at a boundary does.
LEMMA StepFind ==
  ASSUME IInv, FindMagic
  PROVE  IInv'
<1>1. /\ pc = "page" /\ pc' = "descriptor" /\ offset >= 0 /\ HasRoom
      /\ image' = image /\ failures' = failures /\ parts' = parts
      /\ offset' = offset /\ position' = offset /\ result' = result
  BY DEF FindMagic, CallsSucceed
<1>2. offset \in Nat /\ offset + 8 <= image.size
  BY <1>1 DEF IInv, TypeOK, HasRoom, Fits
<1>3. TypeOK' /\ Reading' /\ Returned' /\ Passed'
  BY <1>1, <1>2 DEF IInv, TypeOK, Stages, Structures, Reading, Returned, Passed
<1> QED BY <1>1, <1>3 DEF IInv

\* The invariant holds when a search begins.
LEMMA Initially == Init => IInv
<1> SUFFICES ASSUME Init PROVE IInv
  OBVIOUS
<1>1. NoParts \in [{"descriptor", "regions", "hash", "blob", "signature"} -> Spans]
  BY DEF NoParts, Absent, Span, Spans
<1>2. TypeOK
  BY <1>1, FailuresAssumption DEF Init, TypeOK, Stages, Alignment
<1>3. IsFile(image)
  BY ImagesAssumption DEF Init
<1>4. Reading /\ Returned /\ Passed
  BY DEF Init, Reading, Structures, Returned, Passed
<1> QED BY <1>2, <1>3, <1>4 DEF IInv

\* Every step of a search keeps it.
LEMMA Inductive == IInv /\ [Next]_vars => IInv'
<1> SUFFICES ASSUME IInv, [Next]_vars PROVE IInv'
  OBVIOUS
<1>1. CASE UNCHANGED vars
  BY <1>1 DEF vars, IInv, TypeOK, Reading, Returned, Passed, Found, HasSignature,
              HasBlob, HasHash, HasRegions, HasDescriptor, sigOf, Measured, desc
<1>2. CASE SeekEnd
  BY <1>2, StepSeekEnd
<1>3. CASE SeekEndFails
  <2>1. failures' > 0
    BY <1>3 DEF SeekEndFails, CallFails, IInv, TypeOK
  <2> QED BY <1>3, <2>1, EndsInError DEF SeekEndFails
<1>4. CASE NotFound
  BY <1>4, EndsInError DEF NotFound, IInv, TypeOK
<1>5. CASE PassPage
  <2>1. ~IsDescriptor(image, offset)
    BY <1>5, NoneHere DEF PassPage, IInv, TypeOK
  <2> QED BY <1>5, <2>1, GoOn DEF PassPage
<1>6. CASE ProbeFails
  <2>1. failures' > 0
    BY <1>6 DEF ProbeFails, CallFails, IInv, TypeOK
  <2> QED BY <1>6, <2>1, GoOn DEF ProbeFails
<1>7. CASE SeekBackFails
  <2>1. failures' > 0
    BY <1>7 DEF SeekBackFails, CallFails, IInv, TypeOK
  <2> QED BY <1>7, <2>1, EndsInError DEF SeekBackFails
<1>8. CASE FindMagic
  BY <1>8, StepFind
<1>9. CASE GiveUpCandidate
  <2>1. failures' = 0 => ~StructureReads
    BY <1>9 DEF GiveUpCandidate, CallFails, IInv, TypeOK
  <2>2. failures' = 0 => ~IsDescriptor(image, offset)
    BY <1>9, <2>1, NotOne DEF GiveUpCandidate
  <2> QED BY <1>9, <2>2, GoOn DEF GiveUpCandidate, Structures
<1>10. CASE ReadImageDescriptor
  BY <1>10, StepDescriptor
<1>11. CASE ReadImageDescriptorRegions
  BY <1>11, StepRegions
<1>12. CASE ReadHash
  BY <1>12, StepHash
<1>13. CASE ReadBlob
  BY <1>13, StepBlob
<1>14. CASE ReadSignature
  BY <1>14, StepSignature
<1>15. CASE KnowsOffset
  BY <1>15, StepKnows
<1>16. CASE WrongOffset
  <2>1. desc = Descriptor(image, offset)
    BY <1>16 DEF WrongOffset, IInv, Reading, desc, HasSignature, HasBlob, HasHash,
                 HasRegions, HasDescriptor, Span
  <2>2. ~IsDescriptor(image, offset)
    BY <1>16, <2>1 DEF WrongOffset, IsDescriptor
  <2> QED BY <1>16, <2>2, GoOn DEF WrongOffset
<1>17. CASE RefuseToWrite
  <2>1. IsDescriptor(image, offset)
    BY <1>17, FoundOne DEF RefuseToWrite, IInv, Reading
  <2> QED BY <1>17, <2>1, EndsInError DEF RefuseToWrite
<1>18. CASE Panic \/ HashImageDescriptor
  BY <1>18, StepReturn
<1> QED
  BY <1>1, <1>2, <1>3, <1>4, <1>5, <1>6, <1>7, <1>8, <1>9, <1>10, <1>11, <1>12,
     <1>13, <1>14, <1>15, <1>16, <1>17, <1>18
  DEF Next, Scan, ReadDescriptorParts

\* So it holds throughout.
LEMMA Invariant == Spec => []IInv
  BY Initially, Inductive, PTL DEF Spec

-----------------------------------------------------------------------------
(* The theorems. *)

\* Every value the search keeps has its type, whatever the images.
THEOREM TypeCorrect == Spec => []TypeOK
<1>1. IInv => TypeOK
  BY DEF IInv
<1> QED BY <1>1, Invariant, PTL

\* In any image, when no call fails, Extract returns the last descriptor, and
\* says there is none only when there is none.
THEOREM LastFound == Spec => []LastDescriptorFound
<1>1. IInv => LastDescriptorFound
  <2> SUFFICES ASSUME IInv, failures = 0, pc \in {"serialize", "done"}
               PROVE  /\ offset >= 0 => IsDescriptor(image, offset)
                      /\ \A o \in Boundary(image) : o > offset => ~IsDescriptor(image, o)
    BY DEF LastDescriptorFound
  <2>1. CASE pc = "serialize"
    BY <2>1, FoundOne DEF IInv, Reading, Passed
  <2>2. CASE pc = "done"
    BY <2>2 DEF IInv, Returned, Passed
  <2> QED BY <2>1, <2>2
<1> QED BY <1>1, Invariant, PTL

\* However the calls on the image fail, nothing but a descriptor that knows
\* where it is gets hashed.
THEOREM OnlyDescriptors == Spec => []FoundIsDescriptor
<1>1. IInv => FoundIsDescriptor
  <2> SUFFICES ASSUME IInv, result.kind \in {"hash", "panic"}
               PROVE  offset \in Boundary(image) /\ IsDescriptor(image, offset)
    BY DEF FoundIsDescriptor
  <2>1. offset \in Nat /\ offset + 8 <= image.size /\ Found
    BY DEF IInv, Returned
  <2>2. image.size \in Nat /\ IsFile(image)
    BY DEF IInv, IsFile
  <2> QED BY <2>1, <2>2, FoundOne, BoundaryIs DEF IInv, TypeOK
<1> QED BY <1>1, Invariant, PTL

\* Where the bytes hashed come from: n of the signature's were read, and some
\* of those are hashed.
LEMMA MeasuredSpans ==
  ASSUME IInv, result.kind = "hash"
  PROVE  LET from == SignatureAt(image, offset)
             kept == sigOf.size - sigOf.value
         IN \E n \in Filled(sigOf, image.size - from), some \in Nat :
              /\ failures = 0 => StopsAtEnd(sigOf, image.size - from, n)
              /\ n \in Nat
              /\ some = IF n < kept THEN n ELSE kept
              /\ result.of.spans =
                   <<Span(offset, DescriptorSize),
                     Span(offset + DescriptorSize,
                          Descriptor(image, offset).RegionCount * RegionSize),
                     Span(HashAt(image, offset), BlobAt(image, offset) - HashAt(image, offset)),
                     Span(BlobAt(image, offset), from - BlobAt(image, offset)),
                     Span(from, some)>>
              /\ result.of.fill = kept - some
<1> DEFINE from == SignatureAt(image, offset)
           kept == sigOf.size - sigOf.value
<1>1. /\ HasSignature /\ offset \in Nat
      /\ result.of = Measured
  BY DEF IInv, Returned, Found
<1>2. /\ desc = Descriptor(image, offset)
      /\ Descriptor(image, offset).VerificationScheme \in VerificationSchemeName
      /\ Implemented(Descriptor(image, offset).HashType)
  BY <1>1 DEF desc, HasSignature, HasBlob, HasHash, HasRegions, HasDescriptor, Span,
              ValidDescriptor
<1>3. from \in Nat
  BY <1>1, <1>2, Layout DEF IInv
<1>4. PICK n \in Filled(sigOf, image.size - from) :
        /\ parts.signature = Span(from, n)
        /\ failures = 0 => StopsAtEnd(sigOf, image.size - from, n)
  BY <1>1 DEF HasSignature
<1>5. Shaped(sigOf, Descriptor(image, offset).VerificationScheme)
  BY <1>2, SignatureShape DEF sigOf
<1>6. n \in Nat /\ kept \in Nat
  BY <1>5 DEF Shaped, Filled
<1> DEFINE some == IF n < kept THEN n ELSE kept
<1>7. some \in Nat
  BY <1>6
<1>8. parts.signature.from = from /\ parts.signature.to - parts.signature.from = n
  BY <1>3, <1>4, <1>6 DEF Span
<1>9. Measured = [spans |-> <<parts.descriptor, parts.regions, parts.hash, parts.blob,
                              Span(from, some)>>,
                  fill  |-> kept - some]
  BY <1>2, <1>8 DEF Measured, sigOf
<1>10. /\ parts.descriptor = Span(offset, DescriptorSize)
       /\ parts.regions = Span(offset + DescriptorSize,
                               Descriptor(image, offset).RegionCount * RegionSize)
       /\ parts.hash = Span(HashAt(image, offset), BlobAt(image, offset) - HashAt(image, offset))
       /\ parts.blob = Span(BlobAt(image, offset), from - BlobAt(image, offset))
  BY <1>1 DEF HasSignature, HasBlob, HasHash, HasRegions, HasDescriptor
<1> QED BY <1>1, <1>4, <1>6, <1>7, <1>9, <1>10

\* The bytes hashed stand in the image, each once and in order.
THEOREM Ordered == Spec => []MeasuredInOrder
<1>1. IInv => MeasuredInOrder
  <2> SUFFICES ASSUME IInv, result.kind = "hash"
               PROVE  /\ \A i \in 1 .. 5 : /\ result.of.spans[i].from <= result.of.spans[i].to
                                           /\ result.of.spans[i].to <= image.size
                      /\ \A i \in 1 .. 4 : result.of.spans[i].to = result.of.spans[i + 1].from
    BY DEF MeasuredInOrder
  <2> DEFINE h == HashAt(image, offset)
             b == BlobAt(image, offset)
             s == SignatureAt(image, offset)
             r == Descriptor(image, offset).RegionCount * 44
  <2>1. HasBlob /\ offset \in Nat /\ IsFile(image) /\ image.size \in Nat
    BY DEF IInv, Returned, Found, HasSignature, IsFile
  <2>2. Implemented(Descriptor(image, offset).HashType) /\ s <= image.size
    BY <2>1 DEF HasBlob, HasHash
  <2>3. h \in Nat /\ b \in Nat /\ s \in Nat /\ r \in Nat
        /\ h = offset + 96 + r /\ h <= b /\ b <= s
    <3>1. Descriptor(image, offset).RegionCount \in Nat
      BY <2>1, DescriptorNat
    <3>2. /\ h \in Nat /\ b \in Nat /\ s \in Nat
          /\ h = offset + 96 + r /\ h <= b /\ b <= s
      BY <2>1, <2>2, Layout
    <3> QED BY <3>1, <3>2
  <2>4. PICK n \in Filled(sigOf, image.size - s), some \in Nat :
          /\ n \in Nat
          /\ some <= n
          /\ result.of.spans = <<Span(offset, 96), Span(offset + 96, r), Span(h, b - h),
                                 Span(b, s - b), Span(s, some)>>
    <3>1. sigOf.size \in Nat /\ sigOf.value \in Nat
      BY <2>1, SignatureShape DEF Shaped, sigOf, HasBlob, HasHash, HasRegions,
                                  HasDescriptor, ValidDescriptor
    <3> HIDE DEF h, b, s
    <3> QED BY <3>1, MeasuredSpans DEF DescriptorSize, RegionSize, h, b, s
  <2>5. s + some <= image.size
    BY <2>1, <2>3, <2>4 DEF Filled
  <2> HIDE DEF h, b, s, r
  <2> DEFINE spans == result.of.spans
  <2>6. /\ spans[1] = Span(offset, 96)
        /\ spans[2] = Span(offset + 96, r)
        /\ spans[3] = Span(h, b - h)
        /\ spans[4] = Span(b, s - b)
        /\ spans[5] = Span(s, some)
    BY <2>4
  <2>7. /\ spans[1].from = offset /\ spans[1].to = offset + 96
        /\ spans[2].from = offset + 96 /\ spans[2].to = h
        /\ spans[3].from = h /\ spans[3].to = b
        /\ spans[4].from = b /\ spans[4].to = s
        /\ spans[5].from = s /\ spans[5].to = s + some
    BY <2>1, <2>3, <2>6 DEF Span
  <2> HIDE DEF spans
  <2>8. \A i \in 1 .. 4 : spans[i].to = spans[i + 1].from
    <3>1. \A i \in 1 .. 4 : i = 1 \/ i = 2 \/ i = 3 \/ i = 4
      OBVIOUS
    <3> QED BY <2>7, <3>1
  <2>9. \A i \in 1 .. 5 : spans[i].from <= spans[i].to /\ spans[i].to <= image.size
    <3>1. \A i \in 1 .. 5 : i = 1 \/ i = 2 \/ i = 3 \/ i = 4 \/ i = 5
      OBVIOUS
    <3> QED BY <2>1, <2>3, <2>5, <2>7, <3>1
  <2> QED BY <2>8, <2>9 DEF spans
<1> QED BY <1>1, Invariant, PTL

\* When the whole signature is there and no call fails, what is hashed is the
\* image from the descriptor to the signature value.
THEOREM MeasuredWhole == Spec => []FirmwareMeasure
<1>1. IInv => FirmwareMeasure
  <2> DEFINE d == Descriptor(image, offset)
             s == SignatureAt(image, offset)
  <2> SUFFICES ASSUME IInv, result.kind = "hash", failures = 0, IsSigned(image, offset)
               PROVE  /\ result.of.spans[1].from = offset
                      /\ result.of.spans[5].to =
                           s + sigOf.size - SignatureValueSize(d.VerificationScheme)
                      /\ result.of.fill = 0
    BY DEF FirmwareMeasure, sigOf
  <2>1. HasBlob /\ offset \in Nat /\ IsFile(image) /\ image.size \in Nat
    BY DEF IInv, Returned, Found, HasSignature, IsFile
  <2>2. s \in Nat
    BY <2>1, Layout DEF HasBlob, HasHash
  <2>3. Shaped(sigOf, d.VerificationScheme)
    BY <2>1, SignatureShape DEF sigOf, HasBlob, HasHash, HasRegions, HasDescriptor,
                                ValidDescriptor
  <2>4. PICK n \in Filled(sigOf, image.size - s), some \in Nat :
          /\ StopsAtEnd(sigOf, image.size - s, n)
          /\ n \in Nat
          /\ some = IF n < sigOf.size - sigOf.value THEN n ELSE sigOf.size - sigOf.value
          /\ result.of.spans[1] = Span(offset, DescriptorSize)
          /\ result.of.spans[5] = Span(s, some)
          /\ result.of.fill = sigOf.size - sigOf.value - some
    BY MeasuredSpans
  <2>5. sigOf.size \in Filled(sigOf, image.size - s)
    BY <2>1, <2>2, <2>3 DEF IsSigned, Fits, sigOf, Filled, Shaped
  <2>6. sigOf.size <= n
    BY <2>4, <2>5 DEF StopsAtEnd
  <2>7. some = sigOf.size - sigOf.value
    BY <2>3, <2>4, <2>6 DEF Shaped
  <2> QED BY <2>2, <2>3, <2>4, <2>7 DEF Shaped, Span
<1> QED BY <1>1, Invariant, PTL

\* The area CalculateSize lays out has room for every structure.
THEOREM Room == Spec => []AreaRoom
<1>1. IInv => AreaRoom
  <2> DEFINE d == Descriptor(image, offset)
             s == SignatureAt(image, offset)
  <2> SUFFICES ASSUME IInv, result.kind = "hash"
               PROVE  /\ s + sigOf.size - offset <= CalculateSize(d)
                      /\ CalculateSize(d) - (s + sigOf.size - offset)
                           = IF d.BlobSize > 0 THEN SizeofBlob - 4 ELSE 0
    <3>1. ASSUME IInv, result.kind = "hash" PROVE desc = d
      <4>1. HasDescriptor
        BY <3>1 DEF IInv, Returned, Found, HasSignature, HasBlob, HasHash, HasRegions
      <4> QED BY <4>1 DEF desc, HasDescriptor, Span
    <3> QED BY <3>1 DEF AreaRoom, sigOf
  <2>1. /\ HasBlob /\ offset \in Nat /\ IsFile(image)
        /\ parts.hash = Span(HashAt(image, offset), BlobAt(image, offset) - HashAt(image, offset))
        /\ Present(parts.hash)
    BY DEF IInv, Returned, Found, HasSignature, HasBlob, HasHash
  <2>2. Implemented(d.HashType) /\ d.VerificationScheme \in 1 .. 5
    BY <2>1 DEF HasBlob, HasHash, HasRegions, HasDescriptor, ValidDescriptor,
                VerificationSchemeName
  <2>3. /\ HashAt(image, offset) = offset + 96 + d.RegionCount * 44
        /\ HashAt(image, offset) \in Nat /\ BlobAt(image, offset) \in Nat
        /\ d.RegionCount \in Nat /\ d.BlobSize \in Nat
    BY <2>1, <2>2, Layout, DescriptorNat
  <2>4. BlobAt(image, offset) = HashAt(image, offset) + NewDescriptorHash(d.HashType)
    BY <2>1, <2>3 DEF Present, Span, BlobAt
  <2>5. /\ HashArea(d.HashType) = NewDescriptorHash(d.HashType)
        /\ NewDescriptorHash(d.HashType) \in Nat
        /\ d.HashType \in 0 .. 8
    BY <2>2, HashShape DEF HashArea
  <2>6. sigOf.size \in Nat
    BY <2>2, SignatureShape DEF Shaped, sigOf, VerificationSchemeName
  <2>7. CalculateSize(d) = 96 + d.RegionCount * 44 + sigOf.size
                           + NewDescriptorHash(d.HashType)
                           + (IF d.BlobSize > 0 THEN 32 + d.BlobSize ELSE 0)
    BY <2>2, <2>5 DEF CalculateSize, DescriptorSize, RegionSize, SizeofBlob, sigOf
  <2>8. s = BlobAt(image, offset) + (IF d.BlobSize > 0 THEN 4 + d.BlobSize ELSE 0)
    BY DEF SignatureAt
  <2> HIDE DEF d, s
  <2> QED BY <2>1, <2>3, <2>4, <2>5, <2>6, <2>7, <2>8 DEF SizeofBlob
<1> QED BY <1>1, Invariant, PTL

=============================================================================
