--------------------------- MODULE ImageDescriptor ---------------------------
(***************************************************************************)
(* ExtractAndHash: the search of a firmware image for its CR51 image       *)
(* descriptor and the hash of the one found.  The image is scanned on      *)
(* 64 KB boundaries from its end down; a candidate is read structure by    *)
(* structure and given up for the next boundary when one of them is not as *)
(* it should be; the one found is serialised again and hashed without its  *)
(* signature value.  Every call on the file may fail, at most MaxFailures  *)
(* times.                                                                  *)
(***************************************************************************)
EXTENDS DescriptorLayout

CONSTANTS
  Images,      \* the images a search may be given
  MaxFailures  \* bound on the calls on the file that fail

ASSUME ImagesAssumption == \A f \in Images : IsFile(f)
ASSUME FailuresAssumption == MaxFailures \in Nat

VARIABLES
  image,     \* the image searched
  pc,        \* what is read next
  offset,    \* the boundary the scan is at
  position,  \* the reader's place in the image
  parts,     \* what ReadDescriptorParts has read of the candidate
  failures,  \* how many calls on the file have failed
  result     \* what ExtractAndHash returned

vars == <<image, pc, offset, position, parts, failures, result>>

-----------------------------------------------------------------------------
\* The bytes from..to-1.  A part that is not present is an empty span.
Span(from, n) == [from |-> from, to |-> from + n]
Absent == Span(0, 0)
Present(span) == span.from < span.to

NoParts == [descriptor |-> Absent, regions |-> Absent, hash |-> Absent,
            blob |-> Absent, signature |-> Absent]

\* The base structure of the candidate being read.
desc == Descriptor(image, parts.descriptor.from)

-----------------------------------------------------------------------------
Init ==
  /\ image \in Images
  /\ pc = "size"
  /\ offset = 0
  /\ position = 0
  /\ parts = NoParts
  /\ failures = 0
  /\ result = [kind |-> "none"]

\* A call on the file fails, or none of the step's calls does.  No call
\* changes the file.
CallFails ==
  /\ failures < MaxFailures
  /\ failures' = failures + 1
  /\ UNCHANGED image

CallsSucceed == UNCHANGED <<failures, image>>

Return(r) ==
  /\ pc' = "done"
  /\ result' = r
  /\ UNCHANGED <<offset, position, parts>>

Error == Return([kind |-> "error"])

\* Mutants of NextPage: the scan goes down by the magic's size; it stays.
NextWord ==
  /\ pc' = "page"
  /\ offset' = offset - 8
  /\ parts' = NoParts
  /\ UNCHANGED <<position, result>>
SamePage ==
  /\ pc' = "page"
  /\ parts' = NoParts
  /\ UNCHANGED <<offset, position, result>>

\* The scan goes on at the boundary below.
NextPage ==
  /\ pc' = "page"
  /\ offset' = offset - Alignment
  /\ parts' = NoParts
  /\ UNCHANGED <<position, result>>

\* The candidate's next structure is at span; the reader is now at p.
Parsed(name, span, p, next) ==
  /\ parts' = [parts EXCEPT ![name] = span]
  /\ position' = p
  /\ pc' = next
  /\ UNCHANGED <<offset, result>>

SeekEnd ==
  /\ pc = "size"
  /\ CallsSucceed
  /\ offset' = (image.size \div Alignment) * Alignment
  /\ pc' = "page"
  /\ UNCHANGED <<position, parts, result>>

SeekEndFails == pc = "size" /\ CallFails /\ Error

-----------------------------------------------------------------------------
(* The scan. *)

HasRoom == Fits(image, offset, 8)
HasMagic == Text(image, offset) = DescriptorMagic

NotFound == pc = "page" /\ offset < 0 /\ CallsSucceed /\ Error

\* Too near the end, or something else is there.
PassPage ==
  /\ pc = "page"
  /\ offset >= 0
  /\ ~HasRoom \/ ~HasMagic
  /\ CallsSucceed
  /\ NextPage

\* The seek or the read of the magic fails: as if nothing were there.
ProbeFails == pc = "page" /\ offset >= 0 /\ HasRoom /\ CallFails /\ NextPage

SeekBackFails ==
  pc = "page" /\ offset >= 0 /\ HasRoom /\ HasMagic /\ CallFails /\ Error

FindMagic ==
  /\ pc = "page"
  /\ offset >= 0
  /\ HasRoom
  /\ HasMagic
  /\ CallsSucceed
  /\ position' = offset
  /\ pc' = "descriptor"
  /\ UNCHANGED <<offset, parts, result>>

-----------------------------------------------------------------------------
(* ReadDescriptorParts. *)

\* What stands at p can be read as the base structure, as n regions, as a hash
\* structure present or not, as a blob of n bytes.
DescriptorReads(p) == Fits(image, p, DescriptorSize) /\ ValidDescriptor(Descriptor(image, p))
RegionsRead(p, n) == Fits(image, p, n * RegionSize)
HashReads(p, ht) == Implemented(ht) /\ Fits(image, p, NewDescriptorHash(ht))
BlobReads(p, n) == n = 0 \/ (Fits(image, p, n + 4) /\ Text(image, p) = BlobMagic)

\* The structure read next is as it should be.
StructureReads ==
  CASE pc = "descriptor" -> DescriptorReads(position)
    [] pc = "regions"    -> RegionsRead(position, desc.RegionCount)
    [] pc = "hash"       -> HashReads(position, desc.HashType)
    [] pc = "blob"       -> BlobReads(position, desc.BlobSize)

Structures == {"descriptor", "regions", "hash", "blob"}

\* The seeks and reads a structure takes: none for no regions and no blob.
Reads ==
  /\ pc = "regions" => desc.RegionCount > 0
  /\ pc = "blob" => desc.BlobSize > 0

\* It is not, or a call on the file fails: the candidate is given up.
GiveUpCandidate ==
  /\ pc \in Structures
  /\ \/ ~StructureReads /\ CallsSucceed
     \/ Reads /\ CallFails
  /\ NextPage

ReadImageDescriptor ==
  /\ pc = "descriptor"
  /\ StructureReads
  /\ CallsSucceed
  /\ Parsed("descriptor", Span(position, DescriptorSize), position + DescriptorSize, "regions")

ReadImageDescriptorRegions ==
  LET n == desc.RegionCount * RegionSize IN
  /\ pc = "regions"
  /\ StructureReads
  /\ CallsSucceed
  /\ Parsed("regions", Span(position, n), position + n, "hash")

\* Without the magic the hash is absent and the reader goes back.
ReadHash ==
  LET n == IF Text(image, position) = HashMagic
           THEN NewDescriptorHash(desc.HashType) ELSE 0 IN
  /\ pc = "hash"
  /\ StructureReads
  /\ CallsSucceed
  /\ Parsed("hash", Span(position, n), position + n, "blob")

\* Mutant of ReadBlob: the magic is not counted in the blob.
ReadBlobShort ==
  LET n == desc.BlobSize IN
  /\ pc = "blob"
  /\ StructureReads
  /\ CallsSucceed
  /\ Parsed("blob", Span(position, n), position + n, "signature")

ReadBlob ==
  LET n == IF desc.BlobSize > 0 THEN desc.BlobSize + 4 ELSE 0 IN
  /\ pc = "blob"
  /\ StructureReads
  /\ CallsSucceed
  /\ Parsed("blob", Span(position, n), position + n, "signature")

\* The signature's Read returns nil whatever it could read, and nothing looks
\* at the magic it found.
ReadSignature ==
  LET sig == NewSignature(desc.VerificationScheme)
      available == image.size - position
  IN /\ pc = "signature"
     /\ \E n \in Filled(sig, available) :
          /\ \/ StopsAtEnd(sig, available, n) /\ CallsSucceed
             \/ n < sig.size /\ CallFails
          /\ Parsed("signature", Span(position, n), position + n, "offset")

\* Mutant of KnowsOffset: any descriptor will do.
KnowsAnyOffset ==
  /\ pc = "offset"
  /\ CallsSucceed
  /\ pc' = "serialize"
  /\ UNCHANGED <<offset, position, parts, result>>

\* A valid image descriptor knows its own offset.
KnowsOffset ==
  /\ pc = "offset"
  /\ desc.DescriptorOffset = offset
  /\ CallsSucceed
  /\ pc' = "serialize"
  /\ UNCHANGED <<offset, position, parts, result>>

\* Mutant of WrongOffset: the scan ends with the first that does not.
WrongOffsetEnds ==
  pc = "offset" /\ desc.DescriptorOffset /= offset /\ CallsSucceed /\ Error

WrongOffset ==
  pc = "offset" /\ desc.DescriptorOffset /= offset /\ CallsSucceed /\ NextPage

-----------------------------------------------------------------------------
(* HashImageDescriptor. *)

\* Mutant of Measured: the hash is written in front of the regions.
MeasuredHashFirst ==
  LET sig  == NewSignature(desc.VerificationScheme)
      read == parts.signature.to - parts.signature.from
      kept == sig.size - sig.value
      some == IF read < kept THEN read ELSE kept
  IN [spans |-> <<parts.descriptor, parts.hash, parts.regions, parts.blob,
                  Span(parts.signature.from, some)>>,
      fill  |-> kept - some]

\* The serialised bytes without the signature value: the spans they were read
\* from, and how many at the end the signature's Read never filled.
Measured ==
  LET sig  == NewSignature(desc.VerificationScheme)
      nsig == sig.value
      read == parts.signature.to - parts.signature.from
      kept == sig.size - nsig
      some == IF read < kept THEN read ELSE kept
  IN [spans |-> <<parts.descriptor, parts.regions, parts.hash, parts.blob,
                  Span(parts.signature.from, some)>>,
      fill  |-> kept - some]

\* WriteDescriptorParts refuses a descriptor without regions, and
\* binary.Write panics on the nil interface an absent hash leaves.
RefuseToWrite == pc = "serialize" /\ desc.RegionCount = 0 /\ CallsSucceed /\ Error

Panic ==
  /\ pc = "serialize"
  /\ desc.RegionCount > 0
  /\ ~Present(parts.hash)
  /\ CallsSucceed
  /\ Return([kind |-> "panic"])

HashImageDescriptor ==
  /\ pc = "serialize"
  /\ desc.RegionCount > 0
  /\ Present(parts.hash)
  /\ CallsSucceed
  /\ Return([kind |-> "hash", hashType |-> desc.HashType, of |-> Measured])

Scan == NotFound \/ PassPage \/ ProbeFails \/ SeekBackFails \/ FindMagic

ReadDescriptorParts ==
  \/ ReadImageDescriptor \/ ReadImageDescriptorRegions \/ ReadHash
  \/ ReadBlob \/ ReadSignature \/ GiveUpCandidate

Next ==
  \/ SeekEnd \/ SeekEndFails
  \/ Scan
  \/ ReadDescriptorParts
  \/ KnowsOffset \/ WrongOffset
  \/ RefuseToWrite \/ Panic \/ HashImageDescriptor

\* The search runs in one goroutine, which the scheduler keeps running.
Spec == Init /\ [][Next]_vars /\ WF_vars(Next)
-----------------------------------------------------------------------------
(* Properties. *)

Stages == {"size", "page", "offset", "signature", "serialize", "done"} \cup Structures

Spans == [from : Nat, to : Nat]

TypeOK ==
  /\ pc \in Stages
  /\ offset \in Int /\ offset % Alignment = 0
  /\ position \in Nat
  /\ parts \in [{"descriptor", "regions", "hash", "blob", "signature"} -> Spans]
  /\ failures \in 0 .. MaxFailures
  /\ result.kind \in {"none", "error", "panic", "hash"}

\* Extract returns the last descriptor of the image and no other: the one it
\* stops at is a descriptor, and no boundary above it holds one; when it finds
\* none there is none.  That the scan goes on after a candidate that does not
\* parse or does not know its offset must not make it pass one that does.
LastDescriptorFound ==
  failures = 0 /\ pc \in {"serialize", "done"} =>
     /\ offset >= 0 => IsDescriptor(image, offset)
     /\ \A o \in Boundary(image) : o > offset => ~IsDescriptor(image, o)

\* Failing calls may make Extract pass a descriptor, and never take something
\* else for one.
FoundIsDescriptor ==
  result.kind \in {"hash", "panic"} =>
     offset \in Boundary(image) /\ IsDescriptor(image, offset)

\* What HashImageDescriptor hashes is what the firmware measures: the bytes of
\* the image from the descriptor's first to the last before the signature
\* value, and no others, when the signature is there to be read.
FirmwareMeasure ==
  result.kind = "hash" /\ failures = 0 /\ IsSigned(image, offset) =>
     LET d   == Descriptor(image, offset)
         sig == NewSignature(d.VerificationScheme)
     IN /\ result.of.spans[1].from = offset
        /\ result.of.spans[5].to = SignatureAt(image, offset) + sig.size
                                   - SignatureValueSize(d.VerificationScheme)
        /\ result.of.fill = 0

\* Wherever a read was cut short, the bytes hashed stand in the image, each
\* once and in order, although the parts were written one by one.
MeasuredInOrder ==
  result.kind = "hash" =>
     LET spans == result.of.spans IN
     /\ \A i \in 1 .. 5 : spans[i].from <= spans[i].to /\ spans[i].to <= image.size
     /\ \A i \in 1 .. 4 : spans[i].to = spans[i + 1].from

\* The area CalculateSize lays out has room for every structure written, and
\* is exact but for the blob, whose Go struct is counted for its magic.
AreaRoom ==
  result.kind = "hash" =>
     LET spans == result.of.spans
         sig   == NewSignature(desc.VerificationScheme)
         used  == SignatureAt(image, offset) + sig.size - offset
     IN /\ used <= CalculateSize(desc)
        /\ CalculateSize(desc) - used = IF desc.BlobSize > 0 THEN SizeofBlob - 4 ELSE 0

\* The search of any image ends, however the calls on it fail.
ScanEnds == <>(pc = "done")

\* "Signature is not present for Signature_None, otherwise, it is required"
\* (imagedescriptor.go:387): a descriptor that is hashed has its signature.
SignatureRequired == result.kind = "hash" => IsSigned(image, offset)

\* "Hash (optional) is the firmware image hash" (imagedescriptor.go:316): a
\* descriptor without it is hashed or refused like any other.
HashOptional == result.kind /= "panic"

=============================================================================
