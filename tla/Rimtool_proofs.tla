--------------------------- MODULE Rimtool_proofs ---------------------------
(***************************************************************************)
(* Proofs about Rimtool: a bundle that is reported lies in the file, and   *)
(* every step of the command is one of FirmwareReport's or changes nothing *)
(* there.  The invariant says what the command knows of the file at each   *)
(* step, on top of what ImageDescriptor's invariant says of the search.    *)
(***************************************************************************)
EXTENDS Rimtool, ImageDescriptor_proofs

\* Before the search there has been none.
Unsearched ==
  step \in {"open", "header", "bundle", "rewind"} =>
     pc = "size" /\ result = [kind |-> "none"]

\* After step A the file is no bundle, unless a call has failed.
Sniffed == step \in {"rewind", "extract"} /\ failures = 0 => ~IsBundle(image)

\* Why a search has ended as it has.
Outcome ==
  /\ pc /= "done" => result.kind = "none"
  /\ result.kind = "error" /\ failures = 0 /\ offset >= 0 =>
       Descriptor(image, offset).RegionCount = 0
  /\ result.kind \in {"panic", "hash"} => Descriptor(image, offset).RegionCount > 0
  /\ result.kind = "panic" => ~Present(parts.hash)
  /\ result.kind = "hash" => result.hashType = Descriptor(image, offset).HashType

\* What has been printed, and when.
Printed ==
  /\ step \in Steps
  /\ printed.kind \in {"none", "error", "panic", "titan_v2", "image_descriptor"}
  /\ step = "ended" <=> printed.kind /= "none"
  /\ step /= "ended" => printed = [kind |-> "none"]
  /\ printed.kind = "titan_v2" =>
       \E o \in {0, 12} : printed = TitanV2(o) /\ HashBundleV2(image, o)

RInv == IInv /\ image \in Images /\ Unsearched /\ Sniffed /\ Outcome /\ Printed

\* A call fails, or none does, in a step that leaves the search alone.
Aside == UNCHANGED searchVars /\ (CallFails \/ CallsSucceed)

\* A step of the command outside Extract leaves the search as it is.
LEMMA SearchAside ==
  ASSUME IInv, Aside
  PROVE  /\ IInv' /\ image' = image
         /\ failures' \in Nat /\ (failures' = 0 => failures = 0)
         /\ (CallFails => failures' > 0)
<1>1. /\ pc' = pc /\ offset' = offset /\ position' = position
      /\ parts' = parts /\ result' = result
  BY DEF Aside, searchVars
<1>2. /\ image' = image /\ failures' \in 0 .. MaxFailures /\ (failures' = 0 => failures = 0)
  BY CallsKept DEF Aside, IInv, Calls
<1>3. TypeOK' /\ IsFile(image)'
  BY <1>1, <1>2 DEF IInv, TypeOK
<1>4. sigOf' = sigOf /\ Measured' = Measured
  BY <1>1, <1>2 DEF sigOf, Measured, desc
<1>5. HasBlob' = HasBlob /\ HasHash' = HasHash /\ HasRegions' = HasRegions
      /\ HasDescriptor' = HasDescriptor
  BY <1>1, <1>2 DEF HasBlob, HasHash, HasRegions, HasDescriptor
<1>6. HasSignature => HasSignature'
  BY <1>1, <1>2, <1>4, <1>5 DEF HasSignature
<1>7. Found => Found'
  BY <1>1, <1>2, <1>6 DEF Found
<1>8. Reading' /\ Returned' /\ Passed'
  BY <1>1, <1>2, <1>4, <1>5, <1>6, <1>7 DEF IInv, Reading, Returned, Passed
<1>9. failures' \in Nat /\ (CallFails => failures' > 0)
  BY <1>2, FailuresAssumption DEF CallFails, IInv, TypeOK
<1> QED BY <1>2, <1>3, <1>8, <1>9 DEF IInv

\* Outside the search, what it ended with stays.
LEMMA OutcomeAside ==
  ASSUME IInv, Outcome, Aside
  PROVE  Outcome'
<1>1. /\ pc' = pc /\ offset' = offset /\ parts' = parts /\ result' = result
  BY DEF Aside, searchVars
<1>2. image' = image /\ (failures' = 0 => failures = 0)
  BY SearchAside
<1> QED BY <1>1, <1>2 DEF Outcome

\* The search itself gives the outcome its reasons.
LEMMA OutcomeSearch ==
  ASSUME IInv, Outcome, Next
  PROVE  Outcome'
<1>1. pc /= "done" /\ result.kind = "none"
  BY DEF Next, Scan, ReadDescriptorParts, SeekEnd, SeekEndFails, NotFound, PassPage,
         ProbeFails, SeekBackFails, FindMagic, ReadImageDescriptor,
         ReadImageDescriptorRegions, ReadHash, ReadBlob, ReadSignature, GiveUpCandidate,
         Structures, KnowsOffset, WrongOffset, RefuseToWrite, Panic,
         HashImageDescriptor, Outcome
<1>2. CASE result' = result /\ pc' /= "done"
  BY <1>1, <1>2 DEF Outcome
<1>3. CASE SeekEndFails \/ SeekBackFails
  <2>1. failures' > 0 /\ result' = [kind |-> "error"] /\ pc' = "done"
    BY <1>3 DEF SeekEndFails, SeekBackFails, CallFails, IInv, TypeOK, Error, Return
  <2> QED BY <2>1 DEF Outcome
<1>4. CASE NotFound
  <2>1. offset' < 0 /\ result' = [kind |-> "error"] /\ pc' = "done"
    BY <1>4 DEF NotFound, Error, Return
  <2>2. ~(offset' >= 0)
    BY <2>1, <1>4 DEF NotFound, Error, Return, IInv, TypeOK
  <2> QED BY <2>1, <2>2 DEF Outcome
<1>5. CASE RefuseToWrite \/ Panic \/ HashImageDescriptor
  <2>1. /\ pc = "serialize" /\ pc' = "done"
        /\ image' = image /\ offset' = offset /\ parts' = parts
    BY <1>5 DEF RefuseToWrite, Panic, HashImageDescriptor, Error, Return, CallsSucceed
  <2>2. desc = Descriptor(image, offset)
    BY <2>1 DEF IInv, Reading, Found, HasSignature, HasBlob, HasHash, HasRegions,
                HasDescriptor, Span, desc
  <2>3. CASE RefuseToWrite
    <3>1. result' = [kind |-> "error"] /\ Descriptor(image, offset).RegionCount = 0
      BY <2>2, <2>3 DEF RefuseToWrite, Error, Return
    <3> QED BY <2>1, <3>1 DEF Outcome
  <2>4. CASE Panic
    <3>1. /\ result' = [kind |-> "panic"] /\ Descriptor(image, offset).RegionCount > 0
          /\ ~Present(parts.hash)
      BY <2>2, <2>4 DEF Panic, Return
    <3> QED BY <2>1, <3>1 DEF Outcome
  <2>5. CASE HashImageDescriptor
    <3>1. /\ result' = [kind |-> "hash", hashType |-> desc.HashType, of |-> Measured]
          /\ Descriptor(image, offset).RegionCount > 0
      BY <2>2, <2>5 DEF HashImageDescriptor, Return
    <3> QED BY <2>1, <2>2, <3>1 DEF Outcome
  <2> QED BY <1>5, <2>3, <2>4, <2>5
<1> QED
  BY <1>2, <1>3, <1>4, <1>5
  DEF Next, Scan, ReadDescriptorParts, SeekEnd, PassPage, ProbeFails, FindMagic,
      ReadImageDescriptor, ReadImageDescriptorRegions, ReadHash, ReadBlob, ReadSignature,
      GiveUpCandidate, KnowsOffset, WrongOffset, Parsed, NextPage

\* A step that goes on elsewhere prints nothing.
LEMMA Going ==
  ASSUME RInv, CallFails \/ CallsSucceed, NEW next, Goto(next),
         next \in {"header", "bundle", "rewind", "extract"},
         next \in {"header", "bundle", "rewind"} => step \in {"open", "header", "bundle"},
         next \in {"rewind", "extract"} /\ failures' = 0 => ~IsBundle(image),
         step /= "ended"
  PROVE  RInv' /\ printed' = printed
<1>1. Aside /\ step' = next /\ printed' = printed /\ pc' = pc /\ result' = result
  BY DEF Goto, Aside, searchVars
<1>2. IInv' /\ image' = image
  BY <1>1, SearchAside DEF RInv
<1>3. Outcome'
  BY <1>1, OutcomeAside DEF RInv
<1>4. Unsearched'
  BY <1>1 DEF RInv, Unsearched
<1>5. Sniffed'
  BY <1>1, <1>2 DEF Sniffed
<1>6. Printed'
  BY <1>1, <1>2 DEF RInv, Printed, Steps, TitanV2
<1> QED BY <1>1, <1>2, <1>3, <1>4, <1>5, <1>6 DEF RInv

\* A step that ends the command prints what it ends with.
LEMMA Ending ==
  ASSUME RInv, CallFails \/ CallsSucceed, NEW outcome, End(outcome),
         outcome.kind \in {"error", "panic", "titan_v2", "image_descriptor"},
         outcome.kind = "titan_v2" =>
           \E o \in {0, 12} : outcome = TitanV2(o) /\ HashBundleV2(image, o)
  PROVE  RInv' /\ printed' = outcome
<1>1. Aside /\ step' = "ended" /\ printed' = outcome
  BY DEF End, Aside
<1>2. IInv' /\ image' = image
  BY <1>1, SearchAside DEF RInv
<1>3. Outcome'
  BY <1>1, OutcomeAside DEF RInv
<1>4. Unsearched' /\ Sniffed'
  BY <1>1 DEF Unsearched, Sniffed
<1>5. Printed'
  BY <1>1, <1>2 DEF Printed, Steps, TitanV2
<1> QED BY <1>1, <1>2, <1>3, <1>4, <1>5 DEF RInv

\* A header is at offset 0, at 12, or nowhere.
LEMMA HeaderPlace ==
  ASSUME NEW f, NEW unread
  PROVE  ScanHeader(f, unread) \in {0, 12, NoHeader}
BY DEF ScanHeader

\* A bundle that hashes has one.
LEMMA BundleHasHeader ==
  ASSUME NEW f, NEW unread, HashBundleV2(f, ScanHeader(f, unread))
  PROVE  ScanHeader(f, unread) \in {0, 12}
BY HeaderPlace DEF HashBundleV2

\* Where the command is before each of its steps, and whether it prints.
LEMMA RInitially == RunInit => RInv
<1> SUFFICES ASSUME RunInit PROVE RInv
  OBVIOUS
<1>1. IInv /\ image \in Images
  BY Initially DEF RunInit, Init
<1>2. Unsearched /\ Sniffed /\ Outcome /\ Printed
  BY DEF RunInit, Init, Unsearched, Sniffed, Outcome, Printed, Steps
<1> QED BY <1>1, <1>2 DEF RInv

\* ScanForHeader keeps the invariant, whether it finds a header or not.
LEMMA ScanForHeaderKeeps ==
  ASSUME RInv, ScanForHeader
  PROVE  RInv' /\ printed' = printed
<1>1. step = "header"
  BY DEF ScanForHeader
<1>2. PICK next \in {"rewind", "bundle"} :
        /\ Goto(next)
        /\ CallFails \/ CallsSucceed
        /\ next = "rewind" /\ ~CallFails => ScanHeader(image, {}) = NoHeader
  <2> DEFINE next(o) == IF o = NoHeader THEN "rewind" ELSE "bundle"
  <2>1. PICK unread \in SUBSET {0, 12} :
          /\ Goto(next(ScanHeader(image, unread)))
          /\ CallFails \/ CallsSucceed
          /\ ~CallFails => unread = {}
    BY DEF ScanForHeader, FoundHeader
  <2> DEFINE to == next(ScanHeader(image, unread))
  <2>2. to \in {"rewind", "bundle"} /\ (to = "rewind" => ScanHeader(image, unread) = NoHeader)
    OBVIOUS
  <2> QED BY <2>1, <2>2
<1>3. CallFails => failures' > 0
  BY DEF CallFails, RInv, IInv, TypeOK
<1>4. next = "rewind" /\ failures' = 0 => ~IsBundle(image)
  BY <1>2, <1>3 DEF IsBundle, HashBundleV2
<1> QED BY <1>1, <1>2, <1>4, Going

\* Dropping the error of a bundle does: without a failure the file is none.
LEMMA DropErrorKeeps ==
  ASSUME RInv, DropError
  PROVE  RInv' /\ printed' = printed
<1>1. /\ step = "bundle" /\ Goto("rewind") /\ (CallFails \/ CallsSucceed)
      /\ ~CallFails => ~IsBundle(image)
  BY DEF DropError, IsBundle
<1>2. CallFails => failures' > 0
  BY DEF CallFails, RInv, IInv, TypeOK
<1>3. failures' = 0 => ~IsBundle(image)
  BY <1>1, <1>2
<1> QED BY <1>1, <1>3, Going

\* Seeking back to the start does.
LEMMA RewindKeeps ==
  ASSUME RInv, Rewind
  PROVE  RInv' /\ printed' = printed
<1>1. step = "rewind" /\ Goto("extract") /\ CallsSucceed /\ failures' = failures
  BY DEF Rewind, CallsSucceed
<1>2. failures' = 0 => ~IsBundle(image)
  BY <1>1 DEF RInv, Sniffed
<1> QED BY <1>1, <1>2, Going

\* Every step of ExtractAndHash does.
LEMMA ExtractKeeps ==
  ASSUME RInv, Extract
  PROVE  RInv' /\ printed' = printed /\ step' = step
<1>1. step = "extract" /\ Next /\ step' = step /\ printed' = printed
  BY DEF Extract
<1>2. IInv' /\ Outcome'
  BY <1>1, Inductive, OutcomeSearch DEF RInv
<1>3. image' = image /\ (failures' = 0 => failures = 0)
  <2>1. image' = image /\ (failures' = failures \/ (CallFails /\ failures' = failures + 1))
    BY <1>1 DEF Next, Scan, ReadDescriptorParts, SeekEnd, SeekEndFails, NotFound, PassPage,
         ProbeFails, SeekBackFails, FindMagic, ReadImageDescriptor,
         ReadImageDescriptorRegions, ReadHash, ReadBlob, ReadSignature, GiveUpCandidate,
         KnowsOffset, WrongOffset, RefuseToWrite, Panic, HashImageDescriptor,
         CallsSucceed, CallFails
  <2> QED BY <2>1 DEF RInv, IInv, TypeOK
<1>4. Unsearched' /\ Sniffed'
  BY <1>1, <1>3 DEF RInv, Unsearched, Sniffed
<1>5. Printed'
  BY <1>1, <1>3 DEF RInv, Printed, TitanV2
<1> QED BY <1>1, <1>2, <1>3, <1>4, <1>5 DEF RInv

\* Every step of the command keeps it.
LEMMA RInductive == RInv /\ [RunNext]_runVars => RInv'
<1> SUFFICES ASSUME RInv, [RunNext]_runVars PROVE RInv'
  OBVIOUS
<1>1. CASE UNCHANGED runVars
  <2>1. UNCHANGED vars
    BY <1>1 DEF runVars, vars
  <2>2. IInv'
    BY <2>1, Inductive DEF RInv
  <2> QED BY <1>1, <2>2 DEF runVars, RInv, Unsearched, Sniffed, Outcome, Printed, TitanV2
<1>2. CASE Open
  BY <1>2, Going DEF Open
<1>3. CASE OpenFails \/ RewindFails
  BY <1>3, Ending DEF OpenFails, RewindFails, Refused
<1>4. CASE ScanForHeader
  BY <1>4, ScanForHeaderKeeps
<1>5. CASE PrintBundle
  <2>1. PICK o \in {0, 12} : /\ CallFails \/ CallsSucceed
                             /\ HashBundleV2(image, o) /\ End(TitanV2(o))
    BY <1>5, BundleHasHeader DEF PrintBundle, HashBundle
  <2> QED BY <2>1, Ending DEF TitanV2
<1>6. CASE DropError
  BY <1>6, DropErrorKeeps
<1>7. CASE Rewind
  BY <1>7, RewindKeeps
<1>8. CASE Extract
  BY <1>8, ExtractKeeps
<1>9. CASE PrintDescriptor
  BY <1>9, Ending DEF PrintDescriptor
<1>10. CASE NotRecognised \/ Crashed
  BY <1>10, Ending DEF NotRecognised, Crashed, Refused
<1> QED
  BY <1>1, <1>2, <1>3, <1>4, <1>5, <1>6, <1>7, <1>8, <1>9, <1>10 DEF RunNext

\* So it holds throughout.
LEMMA RInvariant == RunSpec => []RInv
  BY RInitially, RInductive, PTL DEF RunSpec

-----------------------------------------------------------------------------
(* A copy of a bundle lies in the file. *)

\* What a uint32 makes of a number less than one Word off its range.
LEMMA Wraps ==
  ASSUME NEW a \in Int
  PROVE  /\ a \in 0 .. Word - 1 => a % Word = a
         /\ a \in Word .. 2 * Word - 1 => a % Word = a - Word
         /\ a \in -Word .. -1 => a % Word = a + Word
<1>1. Word \in Nat /\ Word > 0
  BY WordAssumption DEF AlignmentSize
<1> DEFINE q == a \div Word
           r == a % Word
<1>2. q \in Int /\ r \in 0 .. Word - 1 /\ a = Word * q + r
  BY <1>1
<1> HIDE DEF q, r
<1>3. ASSUME a \in 0 .. Word - 1 PROVE r = a
  <2>1. q = 0
    <3>1. CASE q >= 1
      <4>1. Word * q >= Word
        BY <1>1, <1>2, <3>1
      <4> QED BY <1>1, <1>2, <1>3, <4>1
    <3>2. CASE q <= -1
      <4>1. Word * q <= -Word
        BY <1>1, <1>2, <3>2
      <4> QED BY <1>1, <1>2, <1>3, <4>1
    <3> QED BY <1>2, <3>1, <3>2
  <2> QED BY <1>1, <1>2, <2>1
<1>4. ASSUME a \in Word .. 2 * Word - 1 PROVE r = a - Word
  <2>1. q = 1
    <3>1. CASE q >= 2
      <4>1. Word * q >= 2 * Word
        BY <1>1, <1>2, <3>1
      <4> QED BY <1>1, <1>2, <1>4, <4>1
    <3>2. CASE q <= 0
      <4>1. Word * q <= 0
        BY <1>1, <1>2, <3>2
      <4> QED BY <1>1, <1>2, <1>4, <4>1
    <3> QED BY <1>2, <3>1, <3>2
  <2> QED BY <1>1, <1>2, <2>1
<1>5. ASSUME a \in -Word .. -1 PROVE r = a + Word
  <2>1. q = -1
    <3>1. CASE q >= 0
      <4>1. Word * q >= 0
        BY <1>1, <1>2, <3>1
      <4> QED BY <1>1, <1>2, <1>5, <4>1
    <3>2. CASE q <= -2
      <4>1. Word * q <= -(2 * Word)
        BY <1>1, <1>2, <3>2
      <4> QED BY <1>1, <1>2, <1>5, <4>1
    <3> QED BY <1>2, <3>1, <3>2
  <2> QED BY <1>1, <1>2, <2>1
<1> QED BY <1>3, <1>4, <1>5 DEF r

\* alignUp is a flash boundary no lower than its argument, or 0 when there is
\* none in a uint32.
LEMMA AlignUp ==
  ASSUME NEW n \in 0 .. Word - 1
  PROVE  /\ alignUp(n) \in Nat
         /\ alignUp(n) >= n \/ alignUp(n) = 0
         /\ n \in 1 .. AlignmentSize => alignUp(n) = AlignmentSize
<1>1. Word \in Nat /\ Word > 4096
  BY WordAssumption DEF AlignmentSize
<1> DEFINE sum == (n + 2047) % Word
<1>2. alignUp(n) = sum - (sum % 2048)
  BY DEF alignUp, AlignmentSize
<1>3. CASE n + 2047 < Word
  <2>1. sum = n + 2047
    BY <1>1, <1>3, Wraps
  <2> HIDE DEF sum
  <2> QED BY <1>1, <1>2, <2>1 DEF AlignmentSize
<1>4. CASE n + 2047 >= Word
  <2>1. sum = n + 2047 - Word
    BY <1>1, <1>4, Wraps
  <2>2. sum \in 0 .. 2046
    BY <1>1, <1>4, <2>1
  <2> HIDE DEF sum
  <2> QED BY <1>1, <1>2, <1>4, <2>2 DEF AlignmentSize
<1> QED BY <1>1, <1>3, <1>4

\* An accepted copy lies in the file: a size that wraps around would put the
\* metadata on the header's magic, or its hashes in the body they are of.
LEMMA CopyLies ==
  ASSUME NEW f \in Images, NEW o \in {0, 12}, NEW s \in {CopyA(f, o), CopyB(f, o)},
         HashSingleFirmwareV2(f, s)
  PROVE  CopyInside(f, s)
<1> DEFINE n == ImageSize(f, s)
           m == MetadataAt(f, s)
<1>1. f.size \in Nat /\ s \in Nat /\ n \in 0 .. Word - 1
  <2>1. IsFile(f)
    BY ImagesAssumption
  <2>2. s \in Nat /\ n \in Nat
    BY <2>1, NumberNat DEF CopyA, CopyB, AppFirmwareAOffset, AppFirmwareBOffset, ImageSize
  <2>3. n < Word
    BY BundlesAssumption DEF WidthAt
  <2> QED BY <2>1, <2>2, <2>3, WordAssumption DEF IsFile
<1>2. Word \in Nat /\ Word > 4096
  BY WordAssumption DEF AlignmentSize
<1>3. m = s + alignUp(n)
  BY DEF MetadataAt
<1>4. m /= s
  <2>1. Text(f, s) \in {"TitanV1", "TitanV3"} /\ Text(f, m) = "IMG_HASH"
    BY DEF HashSingleFirmwareV2, HasSignedHeader, HasMetadata, TitanMagic,
           UnsignedMetadataMagic
  <2> HIDE DEF m
  <2> QED BY <2>1
<1>5. m + UnsignedMetadataSize <= f.size
  BY DEF HashSingleFirmwareV2, HasMetadata, Fits
<1>6. alignUp(n) \in Nat /\ alignUp(n) >= n
  BY <1>1, <1>3, <1>4, AlignUp
<1>7. n >= 392
  <2> SUFFICES ASSUME n < 392 PROVE FALSE
    BY <1>1
  <2>1. n > 0
    <3> SUFFICES ASSUME n = 0 PROVE alignUp(n) = 0
      BY <1>1, <1>3, <1>4
    <3>1. (0 + 2048 - 1) % Word = 2047
      BY <1>2, Wraps
    <3> QED BY <3>1 DEF alignUp, AlignmentSize
  <2>2. m = s + 2048
    BY <1>1, <1>3, <2>1, AlignUp DEF AlignmentSize
  <2>3. BodySize(n) = n - 392 + Word
    BY <1>1, <1>2, Wraps DEF BodySize, TagFieldOffset
  <2>4. PICK p \in {m + 12, m + 44} : Hash(f, p) = CalculatedHash(f, s)
    BY DEF HashSingleFirmwareV2, RWAHash, RWBHash
  <2>5. BodyAt(s) <= p /\ p < BodyAt(s) + BodySize(n)
    BY <1>1, <1>2, <2>2, <2>3 DEF BodyAt, TagFieldOffset
  <2>6. CASE p \in DOMAIN f.hash
    BY <2>4, <2>5, <2>6, BundlesAssumption DEF NoHashOfItself, Hash
  <2>7. CASE p \notin DOMAIN f.hash
    <3>1. Hash(f, p).alg = "zero" /\ CalculatedHash(f, s).alg = "sha256"
      BY <2>7 DEF Hash, NoHash, CalculatedHash, SHA256
    <3> QED BY <2>4, <3>1
  <2> QED BY <2>6, <2>7
<1>8. s + n <= f.size
  <2>1. BodySize(n) = n - 392
    BY <1>1, <1>2, <1>7, Wraps DEF BodySize, TagFieldOffset
  <2>2. Fits(f, BodyAt(s), BodySize(n))
    BY DEF HashSingleFirmwareV2
  <2> QED BY <1>1, <2>1, <2>2 DEF Fits, BodyAt, TagFieldOffset
<1> QED BY <1>1, <1>3, <1>5, <1>6, <1>7, <1>8 DEF CopyInside, TagFieldOffset

-----------------------------------------------------------------------------
(* The theorems. *)

\* Whatever the file and the calls that fail, the command is at one of its
\* steps and prints once, at its end.
THEOREM RunTypeCorrect == RunSpec => []RunTypeOK
<1>1. RInv => RunTypeOK
  BY DEF RInv, IInv, Printed, RunTypeOK
<1> QED BY <1>1, RInvariant, PTL

\* The copies of a bundle that is reported lie in the file, whatever their
\* headers say: no size wraps around unnoticed.
THEOREM CopiesInside == RunSpec => []BundleInside
<1>1. RInv => BundleInside
  <2> SUFFICES ASSUME RInv, printed.kind = "titan_v2"
               PROVE  \E o \in {0, 12} : /\ printed = TitanV2(o)
                                         /\ CopyInside(image, CopyA(image, o))
                                         /\ CopyInside(image, CopyB(image, o))
    BY DEF BundleInside
  <2>1. PICK o \in {0, 12} : printed = TitanV2(o) /\ HashBundleV2(image, o)
    BY DEF RInv, Printed
  <2>2. image \in Images
    BY DEF RInv
  <2> QED BY <2>1, <2>2, CopyLies DEF HashBundleV2
<1> QED BY <1>1, RInvariant, PTL

-----------------------------------------------------------------------------
(* The digest of a bundle decides its version. *)

\* What bytes hold of a file's numbers is what the file holds there.
LEMMA NumberOfContent ==
  ASSUME NEW f, IsFile(f), NEW from \in Nat, NEW size \in Nat, NEW i \in 0 .. size - 1
  PROVE  LET held == Content(f, from, from + size).number
         IN Number(f, from + i) = IF i \in DOMAIN held THEN held[i] ELSE 0
<1> DEFINE within == {q \in DOMAIN f.number : q \in from .. (from + size) - 1}
           held == [j \in {p - from : p \in within} |-> f.number[from + j]]
<1>1. Content(f, from, from + size).number = held
  BY DEF Content, FieldsIn
<1>2. DOMAIN held = {p - from : p \in within}
  OBVIOUS
<1>3. DOMAIN f.number \subseteq Nat
  BY DEF IsFile
<1>4. i \in DOMAIN held <=> from + i \in DOMAIN f.number
  <2>1. ASSUME i \in DOMAIN held PROVE from + i \in DOMAIN f.number
    <3>1. PICK p \in within : i = p - from
      BY <1>2, <2>1
    <3>2. from + i = p
      BY <1>3, <3>1
    <3> QED BY <3>1, <3>2
  <2>2. ASSUME from + i \in DOMAIN f.number PROVE i \in DOMAIN held
    <3>1. from + i \in within /\ (from + i) - from = i
      BY <2>2
    <3> QED BY <1>2, <3>1
  <2> QED BY <2>1, <2>2
<1>5. i \in DOMAIN held => held[i] = f.number[from + i]
  OBVIOUS
<1> HIDE DEF held
<1> QED BY <1>1, <1>4, <1>5 DEF Number

\* Equal digests are of equal first copies.
LEMMA DigestOfBodies ==
  ASSUME NEW f, NEW g, NEW o, NEW p,
         TitanImageMetadataV2(f, o).Digest = TitanImageMetadataV2(g, p).Digest
  PROVE  LET body(h, s) == Content(h, BodyAt(s), BodyAt(s) + BodySize(ImageSize(h, s)))
         IN body(f, CopyA(f, o)) = body(g, CopyA(g, p))
<1> DEFINE bodies(h, q) == <<CalculatedHash(h, CopyA(h, q)), CalculatedHash(h, CopyB(h, q))>>
<1>1. SHA256(bodies(f, o)) = SHA256(bodies(g, p))
  BY DEF TitanImageMetadataV2
<1>2. bodies(f, o) = bodies(g, p)
  BY <1>1 DEF SHA256
<1>3. CalculatedHash(f, CopyA(f, o)) = CalculatedHash(g, CopyA(g, p))
  BY <1>2
<1> QED BY <1>3 DEF CalculatedHash, SHA256

\* The major field of a copy is at the same place in the body of every copy.
LEMMA MajorInBody ==
  ASSUME NEW f, IsFile(f), NEW s \in Nat, NEW size \in Nat, size > 472
  PROVE  LET held == Content(f, BodyAt(s), BodyAt(s) + size).number
         IN Major(f, s) = IF 472 \in DOMAIN held THEN held[472] ELSE 0
<1>1. BodyAt(s) \in Nat /\ s + MajorFieldOffset = BodyAt(s) + 472
  BY DEF BodyAt, TagFieldOffset, MajorFieldOffset
<1>2. 472 \in 0 .. size - 1
  OBVIOUS
<1> QED BY <1>1, <1>2, NumberOfContent DEF Major

\* A copy starts at an offset, and its body's size is a uint32.
LEMMA CopyPlace ==
  ASSUME NEW f \in Images, NEW o \in {0, 12}
  PROVE  /\ IsFile(f) /\ CopyA(f, o) \in Nat
         /\ ImageSize(f, CopyA(f, o)) \in 0 .. Word - 1
         /\ BodySize(ImageSize(f, CopyA(f, o))) \in Nat
<1>1. IsFile(f)
  BY ImagesAssumption
<1>2. CopyA(f, o) \in Nat /\ ImageSize(f, CopyA(f, o)) \in Nat
  BY <1>1, NumberNat DEF CopyA, AppFirmwareAOffset, ImageSize
<1>3. ImageSize(f, CopyA(f, o)) < Word
  BY BundlesAssumption DEF WidthAt
<1>4. Word \in Nat /\ Word > 0
  BY WordAssumption DEF AlignmentSize
<1> HIDE DEF CopyA
<1>5. BodySize(ImageSize(f, CopyA(f, o))) \in Nat
  BY <1>2, <1>4 DEF BodySize, TagFieldOffset
<1> QED BY <1>1, <1>2, <1>3, <1>4, <1>5

\* No two bundles have the same digest and another version, whatever their
\* files are and wherever in them their copies lie, when the copies reach over
\* the field the version is read from: it is hashed.
THEOREM DigestTellsVersion == RunSpec => []DigestDecidesVersion
<1>1. RInv => DigestDecidesVersion
  <2> SUFFICES ASSUME RInv, printed.kind = "titan_v2", NEW f \in Images, NEW o \in {0, 12},
                      CoversMajor(f, CopyA(f, o)),
                      TitanImageMetadataV2(f, o).Digest = printed.digest
               PROVE  Major(f, CopyA(f, o)) = printed.version
    BY DEF DigestDecidesVersion
  <2>1. PICK p \in {0, 12} : printed = TitanV2(p)
    BY DEF RInv, Printed
  <2> DEFINE s == CopyA(f, o)
             t == CopyA(image, p)
             size(h, c) == BodySize(ImageSize(h, c))
             body(h, c) == Content(h, BodyAt(c), BodyAt(c) + size(h, c))
  <2>2. image \in Images
    BY DEF RInv
  <2>3. /\ IsFile(f) /\ s \in Nat /\ size(f, s) \in Nat /\ ImageSize(f, s) \in 0 .. Word - 1
        /\ IsFile(image) /\ t \in Nat /\ size(image, t) \in Nat
    BY <2>2, CopyPlace
  <2>4. body(f, s) = body(image, t)
    BY <2>1, DigestOfBodies DEF TitanV2
  <2>5. size(f, s) = size(image, t)
    <3>1. body(f, s).length = (BodyAt(s) + size(f, s)) - BodyAt(s)
      BY DEF Content
    <3>2. body(image, t).length = (BodyAt(t) + size(image, t)) - BodyAt(t)
      BY DEF Content
    <3>3. BodyAt(s) \in Nat /\ BodyAt(t) \in Nat
      BY <2>3 DEF BodyAt, TagFieldOffset
    <3> HIDE DEF s, t, size
    <3> QED BY <2>3, <2>4, <3>1, <3>2, <3>3
  <2>6. size(f, s) > 472
    <3>1. ImageSize(f, s) >= 868
      BY DEF CoversMajor, MajorFieldOffset
    <3>2. Word \in Nat
      BY WordAssumption
    <3>3. ImageSize(f, s) - 392 \in 0 .. Word - 1
      BY <2>3, <3>1, <3>2
    <3>4. size(f, s) = ImageSize(f, s) - 392
      BY <3>3, Wraps DEF BodySize, TagFieldOffset
    <3> QED BY <2>3, <3>1, <3>4
  <2>7. Major(f, s) = Major(image, t)
    <3> HIDE DEF s, t, size
    <3>1. Major(f, s) = IF 472 \in DOMAIN body(f, s).number THEN body(f, s).number[472] ELSE 0
      BY <2>3, <2>6, MajorInBody
    <3>2. Major(image, t) = IF 472 \in DOMAIN body(image, t).number
                            THEN body(image, t).number[472] ELSE 0
      BY <2>3, <2>5, <2>6, MajorInBody
    <3> QED BY <2>4, <3>1, <3>2
  <2>8. printed.version = Major(image, t)
    BY <2>1 DEF TitanV2, TitanImageMetadataV2
  <2> QED BY <2>7, <2>8
<1> QED BY <1>1, RInvariant, PTL

-----------------------------------------------------------------------------
(* Refinement: the command implements FirmwareReport. *)

\* An accepted bundle may be reported: of a file no call has failed on because
\* the file is one, of any other because the file holds it.
LEMMA ReportsBundle ==
  ASSUME RInv, PrintBundle, step /= "ended"
  PROVE  /\ printed = [kind |-> "none"] /\ image' = image
         /\ \/ printed' \in Verdict(image) /\ failures' = failures
            \/ printed' \in Excused(image) /\ failures' > 0
<1>1. PICK unread \in {{}, {0}} :
        /\ CallFails \/ CallsSucceed
        /\ ~CallFails => unread = {} /\ CallsSucceed
        /\ HashBundleV2(image, ScanHeader(image, unread))
        /\ End(TitanV2(ScanHeader(image, unread)))
  BY DEF PrintBundle, HashBundle
<1> DEFINE o == ScanHeader(image, unread)
<1>2. o \in {0, 12}
  BY <1>1, BundleHasHeader
<1>3. printed' = Bundle(image, o) /\ image' = image
  BY <1>1 DEF End, TitanV2, Bundle, CallFails, CallsSucceed
<1>4. CASE CallFails
  <2>1. failures' > 0
    BY <1>4 DEF CallFails, RInv, IInv, TypeOK
  <2>2. Bundle(image, o) \in Excused(image)
    BY <1>1, <1>2 DEF Excused
  <2> QED BY <1>3, <2>1, <2>2 DEF RInv, Printed
<1>5. CASE ~CallFails
  <2>1. failures' = failures
    BY <1>1, <1>5 DEF CallsSucceed
  <2>2. Bundle(image, o) \in Verdict(image)
    BY <1>1, <1>5 DEF Verdict, IsBundle
  <2> QED BY <1>3, <2>1, <2>2 DEF RInv, Printed
<1> QED BY <1>4, <1>5

\* What the last descriptor allows, the file does.
LEMMA VerdictOfLast ==
  ASSUME IInv, failures = 0, pc = "done", offset >= 0, ~IsBundle(image),
         NEW outcome \in OfDescriptor(image, offset, IsWhole(image, offset))
  PROVE  outcome \in Verdict(image)
<1>1. IsDescriptor(image, offset) /\ offset \in Nat /\ offset % Alignment = 0
      /\ IsFile(image) /\ image.size \in Nat
  BY DEF IInv, Returned, TypeOK, IsFile
<1>2. offset <= image.size
  <2>1. /\ SignatureAt(image, offset) \in Nat /\ SignatureAt(image, offset) >= offset
        /\ SignatureAt(image, offset) <= image.size
    <3>1. /\ HashAt(image, offset) \in Nat /\ BlobAt(image, offset) \in Nat
          /\ SignatureAt(image, offset) \in Nat
          /\ HashAt(image, offset) = offset + 96 + Descriptor(image, offset).RegionCount * 44
          /\ HashAt(image, offset) <= BlobAt(image, offset)
          /\ BlobAt(image, offset) <= SignatureAt(image, offset)
      BY <1>1, Layout DEF IsDescriptor
    <3>2. Descriptor(image, offset).RegionCount \in Nat
      BY <1>1, DescriptorNat
    <3>3. Fits(image, SignatureAt(image, offset), 0)
      BY <1>1 DEF IsDescriptor
    <3> QED BY <1>1, <3>1, <3>2, <3>3 DEF Fits
  <2> QED BY <1>1, <2>1
<1>3. offset \in Descriptors(image)
  BY <1>1, <1>2, BoundaryIs DEF Descriptors
<1>4. IsLast(image, offset)
  <2> SUFFICES ASSUME NEW p \in Descriptors(image) PROVE p <= offset
    BY DEF IsLast
  <2>1. p \in Boundary(image) /\ IsDescriptor(image, p) /\ p \in Nat
    BY <1>1, BoundaryIs DEF Descriptors
  <2> QED BY <1>1, <2>1 DEF IInv, Passed
<1>5. Descriptors(image) /= {}
  BY <1>3
<1> QED BY <1>3, <1>4, <1>5 DEF Verdict

\* Where the scan found none there is none.
LEMMA VerdictOfNone ==
  ASSUME IInv, failures = 0, pc = "done", offset < 0, ~IsBundle(image)
  PROVE  Refused \in Verdict(image)
<1>1. Descriptors(image) = {}
  <2> SUFFICES ASSUME NEW p \in Descriptors(image) PROVE FALSE
    OBVIOUS
  <2>1. p \in Boundary(image) /\ IsDescriptor(image, p) /\ p \in Nat
    BY BoundaryIs DEF Descriptors, IInv, IsFile
  <2> QED BY <2>1 DEF IInv, Passed, TypeOK
<1> QED BY <1>1 DEF Verdict

\* A descriptor that was found is one of the file's.
LEMMA FoundIsHeld ==
  ASSUME IInv, result.kind \in {"panic", "hash"}
  PROVE  offset \in Descriptors(image) /\ offset \in Nat /\ pc = "done" /\ Found
<1>1. offset \in Nat /\ offset + 8 <= image.size /\ Found /\ pc = "done"
  BY DEF IInv, Returned
<1>2. IsFile(image) /\ image.size \in Nat /\ offset % Alignment = 0
  BY DEF IInv, IsFile, TypeOK
<1> QED BY <1>1, <1>2, FoundOne, BoundaryIs DEF Descriptors

\* Whatever a held descriptor allows is excused.
LEMMA HeldIsExcused ==
  ASSUME NEW f, NEW o \in Descriptors(f), NEW outcome \in OfDescriptor(f, o, FALSE)
  PROVE  outcome \in Excused(f)
BY DEF Excused

\* What is printed of a descriptor is what one found there allows: all of it
\* when it is whole and no call has failed.
LEMMA PrintsDescribed ==
  ASSUME RInv, PrintDescriptor
  PROVE  /\ printed' \in OfDescriptor(image, offset, failures = 0 /\ IsWhole(image, offset))
         /\ image' = image /\ failures' = failures
<1> DEFINE d == Descriptor(image, offset)
           from == SignatureAt(image, offset)
           kept == sigOf.size - sigOf.value
<1>1. /\ result.kind = "hash" /\ CallsSucceed
      /\ printed' = [kind |-> "image_descriptor", hashType |-> result.hashType,
                     from |-> result.of.spans[1].from, to |-> result.of.spans[5].to,
                     fill |-> result.of.fill]
  BY DEF PrintDescriptor, End
<1>2. /\ IInv /\ Found /\ offset \in Nat /\ IsFile(image) /\ image.size \in Nat
      /\ Present(parts.hash) /\ d.RegionCount > 0 /\ result.hashType = d.HashType
  BY <1>1, FoundIsHeld DEF RInv, IInv, Returned, Outcome, IsFile
<1>3. /\ HasBlob /\ d.VerificationScheme \in VerificationSchemeName /\ Implemented(d.HashType)
      /\ parts.hash = Span(HashAt(image, offset), BlobAt(image, offset) - HashAt(image, offset))
  BY <1>2 DEF Found, HasSignature, HasBlob, HasHash, HasRegions, HasDescriptor,
              ValidDescriptor
<1>4. Shaped(sigOf, d.VerificationScheme)
  BY <1>3, SignatureShape DEF sigOf
<1>5. from \in Nat /\ HashAt(image, offset) \in Nat
  BY <1>2, <1>3, Layout
<1>6. Text(image, HashAt(image, offset)) = HashMagic
  <2> SUFFICES ASSUME Text(image, HashAt(image, offset)) /= HashMagic PROVE FALSE
    OBVIOUS
  <2>1. BlobAt(image, offset) = HashAt(image, offset)
    BY <1>5 DEF BlobAt
  <2> QED BY <1>2, <1>3, <1>5, <2>1 DEF Present, Span
<1>7. PICK n \in Filled(sigOf, image.size - from), some \in Nat :
        /\ failures = 0 => StopsAtEnd(sigOf, image.size - from, n)
        /\ n \in Nat
        /\ some = IF n < kept THEN n ELSE kept
        /\ result.of.spans[1] = Span(offset, DescriptorSize)
        /\ result.of.spans[5] = Span(from, some)
        /\ result.of.fill = kept - some
  BY <1>1, <1>2, MeasuredSpans
<1>8. failures = 0 /\ IsWhole(image, offset) => some = kept
  <2> SUFFICES ASSUME failures = 0, IsWhole(image, offset) PROVE some = kept
    OBVIOUS
  <2>1. sigOf.size \in Filled(sigOf, image.size - from)
    BY <1>2, <1>4, <1>5 DEF IsWhole, Fits, sigOf, Filled, Shaped
  <2>2. sigOf.size <= n
    BY <1>7, <2>1 DEF StopsAtEnd
  <2> QED BY <1>4, <1>7, <2>2 DEF Shaped
<1>9. kept \in Nat /\ some \in 0 .. kept
  BY <1>4, <1>7 DEF Shaped
<1>10. KeyEnd(image, offset) = from + kept
  BY <1>4, <1>5 DEF KeyEnd, sigOf, Shaped
<1> DEFINE cut == kept - some
<1>11. printed' = Described(image, offset, KeyEnd(image, offset) - cut, cut)
  <2>1. result.of.spans[1].from = offset /\ result.of.spans[5].to = from + some
    BY <1>7 DEF Span
  <2>2. KeyEnd(image, offset) - cut = from + some
    BY <1>5, <1>9, <1>10
  <2> QED BY <1>1, <1>2, <1>7, <2>1, <2>2 DEF Described
<1>12. cut \in 0 .. (IF failures = 0 /\ IsWhole(image, offset) THEN 0
                     ELSE KeyEnd(image, offset) - from)
  <2>1. KeyEnd(image, offset) - from = kept
    BY <1>5, <1>9, <1>10
  <2> QED BY <1>8, <1>9, <2>1
<1> HIDE DEF cut
<1>13. printed' \in OfDescriptor(image, offset, failures = 0 /\ IsWhole(image, offset))
  BY <1>2, <1>6, <1>11, <1>12 DEF OfDescriptor
<1> QED BY <1>1, <1>13 DEF CallsSucceed

\* A panic is the end of a descriptor without a hash structure.
LEMMA CrashesWithoutHash ==
  ASSUME RInv, Crashed, NEW whole
  PROVE  Crash \in OfDescriptor(image, offset, whole)
<1>1. /\ IInv /\ Found /\ offset \in Nat /\ IsFile(image) /\ ~Present(parts.hash)
  BY FoundIsHeld DEF Crashed, RInv, IInv, Outcome
<1>2. /\ Implemented(Descriptor(image, offset).HashType)
      /\ parts.hash = Span(HashAt(image, offset), BlobAt(image, offset) - HashAt(image, offset))
  BY <1>1 DEF Found, HasSignature, HasBlob, HasHash
<1>3. HashAt(image, offset) \in Nat
  BY <1>1, <1>2, Layout
<1>4. /\ NewDescriptorHash(Descriptor(image, offset).HashType) \in Nat
      /\ NewDescriptorHash(Descriptor(image, offset).HashType) > 0
  BY <1>2, HashShape
<1>5. Text(image, HashAt(image, offset)) /= HashMagic
  <2> SUFFICES ASSUME Text(image, HashAt(image, offset)) = HashMagic PROVE FALSE
    OBVIOUS
  <2>1. BlobAt(image, offset) = HashAt(image, offset)
                                + NewDescriptorHash(Descriptor(image, offset).HashType)
    BY DEF BlobAt
  <2> QED BY <1>1, <1>2, <1>3, <1>4, <2>1 DEF Present, Span
<1> QED BY <1>5 DEF OfDescriptor

\* The end of a search may be reported: by the last descriptor or by there
\* being none, or, once a call has failed, by what the file holds.
LEMMA ReportsSearch ==
  ASSUME RInv, PrintDescriptor \/ NotRecognised \/ Crashed
  PROVE  /\ printed = [kind |-> "none"] /\ image' = image /\ failures' = failures
         /\ \/ printed' \in Verdict(image)
            \/ printed' \in Excused(image) /\ failures > 0
<1>1. /\ IInv /\ step = "extract" /\ failures \in Nat
      /\ image' = image /\ failures' = failures
  BY FailuresAssumption DEF RInv, IInv, TypeOK, PrintDescriptor, NotRecognised, Crashed, CallsSucceed
<1>2. printed = [kind |-> "none"]
  BY <1>1 DEF RInv, Printed
<1>3. pc = "done" /\ (failures = 0 => ~IsBundle(image))
  BY <1>1 DEF RInv, Outcome, Sniffed, PrintDescriptor, NotRecognised, Crashed
<1>4. CASE PrintDescriptor
  <2>1. offset \in Descriptors(image) /\ offset \in Nat
    BY <1>1, <1>4, FoundIsHeld DEF PrintDescriptor
  <2>2. CASE failures = 0
    <3>1. (failures = 0 /\ IsWhole(image, offset)) = IsWhole(image, offset)
      BY <2>2 DEF IsWhole, Fits
    <3>2. printed' \in OfDescriptor(image, offset, IsWhole(image, offset))
      BY <1>4, <3>1, PrintsDescribed
    <3> QED BY <1>1, <1>2, <1>3, <2>1, <2>2, <3>2, VerdictOfLast
  <2>3. CASE failures > 0
    <3>1. (failures = 0 /\ IsWhole(image, offset)) = FALSE
      BY <2>3
    <3>2. printed' \in OfDescriptor(image, offset, FALSE)
      BY <1>4, <3>1, PrintsDescribed
    <3> QED BY <1>1, <1>2, <2>1, <2>3, <3>2, HeldIsExcused
  <2> QED BY <1>1, <2>2, <2>3
<1>5. CASE NotRecognised
  <2>1. result.kind = "error" /\ printed' = Refused
    BY <1>5 DEF NotRecognised, End
  <2>2. CASE failures > 0
    BY <1>1, <1>2, <2>1, <2>2 DEF Excused
  <2>3. CASE failures = 0 /\ offset < 0
    BY <1>1, <1>2, <1>3, <2>1, <2>3, VerdictOfNone
  <2>4. CASE failures = 0 /\ offset >= 0
    <3>1. Descriptor(image, offset).RegionCount = 0
      BY <2>1, <2>4 DEF RInv, Outcome
    <3>2. Refused \in OfDescriptor(image, offset, IsWhole(image, offset))
      BY <3>1 DEF OfDescriptor
    <3> QED BY <1>1, <1>2, <1>3, <2>1, <2>4, <3>2, VerdictOfLast
  <2> QED BY <1>1, <2>2, <2>3, <2>4 DEF IInv, TypeOK
<1>6. CASE Crashed
  <2>1. result.kind = "panic" /\ printed' = Crash
    BY <1>6 DEF Crashed, End, Crash
  <2>2. offset \in Descriptors(image) /\ offset \in Nat
    BY <1>1, <2>1, FoundIsHeld
  <2>3. CASE failures = 0
    <3>1. Crash \in OfDescriptor(image, offset, IsWhole(image, offset))
      BY <1>6, CrashesWithoutHash
    <3> QED BY <1>1, <1>2, <1>3, <2>1, <2>2, <2>3, <3>1, VerdictOfLast
  <2>4. CASE failures > 0
    <3>1. Crash \in OfDescriptor(image, offset, FALSE)
      BY <1>6, CrashesWithoutHash
    <3> QED BY <1>1, <1>2, <2>1, <2>2, <2>4, <3>1, HeldIsExcused
  <2> QED BY <1>1, <2>3, <2>4
<1> QED BY <1>4, <1>5, <1>6

\* A command that begins is a report not yet made.
LEMMA PromiseInit == RunInit => Promise!Init
<1> SUFFICES ASSUME RunInit PROVE Promise!Init
  OBVIOUS
<1>1. image \in Images /\ failures = 0 /\ printed = [kind |-> "none"]
  BY DEF RunInit, Init
<1>2. (failures > 0) = FALSE
  BY <1>1
<1> QED BY <1>1, <1>2 DEF Promise!Init, Promise!NoReport

\* Steps that print nothing are failing calls there, or nothing.
LEMMA PromiseAside ==
  ASSUME RInv, printed' = printed, image' = image,
         failures' = failures \/ (failures' > 0 /\ step /= "ended")
  PROVE  [Promise!Next]_(Promise!vars)
<1>1. CASE (failures' > 0) = (failures > 0)
  BY <1>1 DEF Promise!vars
<1>2. CASE (failures' > 0) /= (failures > 0)
  <2>1. failures' > 0 /\ printed = [kind |-> "none"]
    BY <1>2 DEF RInv, Printed
  <2>2. (failures' > 0) = TRUE
    BY <2>1
  <2> QED BY <2>1, <2>2 DEF Promise!Next, Promise!Fail, Promise!NoReport
<1> QED BY <1>1, <1>2

\* Printing what the file allows, or an excuse after a failure, is a report.
LEMMA PromiseReport ==
  ASSUME printed = [kind |-> "none"], image' = image,
         \/ printed' \in Verdict(image) /\ failures' = failures
         \/ printed' \in Excused(image) /\ failures' > 0
  PROVE  [Promise!Next]_(Promise!vars)
<1>1. CASE printed' \in Verdict(image) /\ failures' = failures
  <2>1. (failures' > 0) = (failures > 0)
    BY <1>1
  <2> QED BY <1>1, <2>1 DEF Promise!Next, Promise!Report, Promise!NoReport
<1>2. CASE printed' \in Excused(image) /\ failures' > 0
  <2>1. (failures' > 0) = TRUE
    BY <1>2
  <2> QED BY <1>2, <2>1 DEF Promise!Next, Promise!Report, Promise!NoReport
<1> QED BY <1>1, <1>2

\* The calls of any step: none of them changes the file, and each that fails is
\* counted.
LEMMA CallsCounted ==
  ASSUME RInv, CallFails \/ CallsSucceed
  PROVE  image' = image /\ (failures' = failures \/ failures' > 0)
         /\ (CallFails => failures' > 0)
BY DEF CallFails, CallsSucceed, RInv, IInv, TypeOK

\* Every step of the command is a step of FirmwareReport or none.
LEMMA PromiseNext == RInv /\ [RunNext]_runVars => [Promise!Next]_(Promise!vars)
<1> SUFFICES ASSUME RInv, [RunNext]_runVars PROVE [Promise!Next]_(Promise!vars)
  OBVIOUS
<1>1. CASE UNCHANGED runVars
  BY <1>1, PromiseAside DEF runVars
<1>2. CASE Open \/ Rewind
  <2>1. printed' = printed /\ image' = image /\ failures' = failures
    BY <1>2 DEF Open, Rewind, Goto, CallsSucceed
  <2> QED BY <2>1, PromiseAside
<1>3. CASE OpenFails \/ RewindFails
  <2>1. printed = [kind |-> "none"]
    BY <1>3 DEF OpenFails, RewindFails, RInv, Printed
  <2>2. printed' = Refused /\ CallFails
    BY <1>3 DEF OpenFails, RewindFails, End
  <2>3. printed' \in Excused(image)
    BY <2>2 DEF Excused
  <2> QED BY <2>1, <2>2, <2>3, CallsCounted, PromiseReport
<1>4. CASE ScanForHeader \/ DropError
  <2>1. printed' = printed
    BY <1>4, ScanForHeaderKeeps, DropErrorKeeps
  <2>2. step /= "ended" /\ (CallFails \/ CallsSucceed)
    BY <1>4 DEF ScanForHeader, DropError
  <2> QED BY <2>1, <2>2, CallsCounted, PromiseAside
<1>5. CASE PrintBundle
  <2>1. step /= "ended"
    BY <1>5 DEF PrintBundle, HashBundle
  <2> QED BY <1>5, <2>1, ReportsBundle, PromiseReport
<1>6. CASE Extract
  <2>1. printed' = printed /\ step = "extract" /\ Next
    BY <1>6 DEF Extract
  <2>2. CallFails \/ CallsSucceed
    BY <2>1 DEF Next, Scan, ReadDescriptorParts, SeekEnd, SeekEndFails, NotFound, PassPage,
         ProbeFails, SeekBackFails, FindMagic, ReadImageDescriptor,
         ReadImageDescriptorRegions, ReadHash, ReadBlob, ReadSignature, GiveUpCandidate,
         KnowsOffset, WrongOffset, RefuseToWrite, Panic, HashImageDescriptor
  <2> QED BY <2>1, <2>2, CallsCounted, PromiseAside
<1>7. CASE PrintDescriptor \/ NotRecognised \/ Crashed
  BY <1>7, ReportsSearch, PromiseReport
<1> QED BY <1>1, <1>2, <1>3, <1>4, <1>5, <1>6, <1>7 DEF RunNext

\* What the command reports of any file, however the calls on it fail, is what
\* FirmwareReport allows.
THEOREM Reported == RunSpec => ReportsWhatItIs
<1>1. []RInv /\ RunInit /\ [][RunNext]_runVars => Promise!Spec
  BY PromiseInit, PromiseNext, PTL DEF Promise!Spec
<1> QED BY <1>1, RInvariant, PTL DEF RunSpec, ReportsWhatItIs

=============================================================================
