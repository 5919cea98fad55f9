# Verification of platform-attestation

TLA+ models of google/platform-attestation (`src/titan`), the Go library and tools with which a
verifier checks what a Titan root of trust says about a platform: that its certificates lead to a
trusted manufacturer, which firmware it measured, what its PCRs should hold, and how often its CPU
was warm reset. The models are checked with TLC on small instances; the main safety properties are
proved with TLAPS for every value of the constants.

## The system

| Component | Code | State | Operations |
| --- | --- | --- | --- |
| Keys and identifiers | `dice/titandice/key_utils.go`, `structures.go` | none | `ComputeKeyIDECDSA`, `ComputeKeyInfoTitan`, `VerifyECDSATitan` |
| Scribe certificates (the roots) | `scribe_certificate.go` | none | `ParseScribeCertificate`, `validateScribeCertificate` |
| Validator construction | `dice_certificate_validator.go:28-62`, `titancertutil/verify.go:38-53`, `scriberoots` | the `Validator`: a map of trusted roots by KeyID, a set of KeyInfos | `NewValidator` |
| DICE chain and EK validation | `dice_certificate_validator.go`, `templates.go`, `constants.go`, `errors.go` | none of its own; the caller's validator, chain and EK certificate | `ValidateScribeCertificateChain`, `ValidateEKCertificate` |
| Chain parser, `titancertutil` | `chain_parser.go`, `verify.go` | a reader's position | `ParseTitanDiceScribeCertificateChain`, `ParseEKCertificate`, `VerifyCertChainFromFile` |
| PCR bank | `measurements/pcr.go` | 24 digests | `NewPCRBank`, `Extend`, `Event`, `PerformSHRTM`, `PerformDRTM` |
| Warm reset counter | `measurements/nv.go` | none of its own; the TPM's counter and the caller's nonces | `VerifyWarmResetNVIndex` |
| Image descriptors | `descriptor/imagedescriptor.go`, `types.go` | a reader's position, the parts read so far | `ExtractAndHash`: `Extract` (scan), `ReadDescriptorParts`, `WriteDescriptorParts`, `HashImageDescriptor` |
| Descriptor cryptography | `descriptor/descriptorcrypto.go` | none | `NewSignature`, `NewDescriptorHash`, `Read` and `Write` of each structure, `SignatureValueSize` |
| Bundles V2, Titan headers | `bundlev2/`, `titanheader/` | a reader's position | `ScanHeader`, `HashSingleFirmwareV2`, `HashBundleV2` |
| `rimtool` | `cmd/rimtool` | the open file | `runGenerateHash`: try as a bundle, then as an image; print one measurement |

How they interact. The caller (or `titancertutil`) makes a validator once from the root files and
the trusted firmware signing keys, then validates any number of chains with it; the alias key
certificate of a chain is what an EK certificate is validated against, and the template returned
for the EK is what the caller then challenges a TPM with. The PCR bank replays what the Titan
measures, starting from the descriptor and bundle hashes that `rimtool` computes, so that the
digests can be compared with a quote; the warm reset counter is read from a certification made
under the TPM's attestation key. The library has no goroutines, locks or storage of its own. What
is hard in it is elsewhere:

* *combinations*: certificates of several devices, boots and generations that are each genuine and
  do not belong together, checked by functions that may be called in any order;
* *order inside a call*: Go's map iteration, the first error that is reported, roots accepted
  before a bad one;
* *the outside*: devices boot, TPMs count and certify, and messages are late, repeated, crossed or
  damaged while the verifier works;
* *widths and layouts*: identifiers of 4 and 16 bytes, coordinates with zero top bytes, optional
  fields that shift what follows, 32-bit offsets.

`PROJECT.json` lists each such hazard at its line with the properties that watch it.

What makes each component correct:

* *validator construction*: the map holds its own call's roots, all of them, under their KeyIDs; a
  bad root fails the call, which always ends;
* *chain and EK validation*: what is accepted is exactly what one genuine, covered device holds
  after one boot, and the error says where the fault is;
* *PCR bank*: equal digests mean equal histories; a digest is never lost except by a launch;
* *warm reset counter*: an accepted number is the challenged TPM's, of now, and whole;
* *chain parser*: what is read is what was written, or an error; nothing is read from beyond the part
  that was announced;
* *image descriptors*: the descriptor found is the last one in the image that stands where it says it
  does; what is hashed is the bytes that stand in the image, in order, without the signature value;
  the search ends;
* *bundles*: what is hashed lies in the file and is where the header says, whatever the 32-bit
  arithmetic does; the digest decides the version reported with it;
* *rimtool*: it reports what the file is, once, and when a call on the file fails no more than the
  file holds.

## Modules

Arrows are EXTENDS; the abstract specification is an instance.

    TitanKeys <- ScribeCertificates <- TrustStore <- MCTrustStore, TrustStore_proofs
    TitanKeys <- DiceCertificates <- DiceChain <- MCDiceChain
                                     DiceChain --(INSTANCE WITH)--> Attestation
                 DiceCertificates <- ChainStream <- MCChainStream
                 DiceCertificates <- MCFleet <- MCDiceChain, MCChainStream
                 DiceCertificates <- DiceCertificates_proofs
    DiceChain, DiceCertificates_proofs <- DiceChain_proofs
    ChainStream, DiceCertificates_proofs <- ChainStream_proofs
    PCRBank <- MCPCRBank, PCRBank_proofs
    WarmResetNV <- MCWarmResetNV, WarmResetNV_proofs

    FirmwareFile <- DescriptorCrypto <- DescriptorLayout
    DescriptorLayout <- ImageDescriptor <- MCImageDescriptor, ImageDescriptor_proofs
    FirmwareFile <- BundleV2
    DescriptorLayout, BundleV2 <- FirmwareVerdict
    ImageDescriptor, FirmwareVerdict <- Rimtool <- MCRimtool
    Rimtool, ImageDescriptor_proofs <- Rimtool_proofs
                 Rimtool --(INSTANCE WITH)--> FirmwareReport
    FirmwareFile <- MCFirmware <- MCImageDescriptor, MCRimtool

**TitanKeys.** A key is two coordinates of bytes, least significant first. SHA-256 is symbolic: a
KeyID is a record of the bytes it is the hash of, so two KeyIDs are equal exactly when the hashed
bytes are; a KeyInfo is `Prefix4` of a KeyID, a constant operator that may map two KeyIDs to one
value. `ComputeKeyIDECDSA` hashes what `big.Int.Bytes` leaves of the coordinates (`Significant`),
`ComputeKeyInfoTitan` all of them, as the code does. `DocumentedKeyID` is the KeyID the documents
define, the one that stands in certificates. `NewValidatorMaps` is what a `Validator` made from some
roots may hold, by KeyID: an interface, for DiceChain and ChainStream to start from.

**ScribeCertificates.** A root file is its magic, length, keys and signature; it parses to a
certificate or to `NotACertificate`. The signature of a root is range-checked only (lines 78-84).

**TrustStore.** `Call` enters `NewValidator`, `AddRoot` and `RejectRoot` are one iteration of its
loop (lines 44-51), `Return` builds the `Validator`. The map variable is `scribeCerts`; the validator
returned is kept in `validator` until the next call. Any pending file may be next.

**DiceCertificates.** Pure: the messages a signature covers, the TPM templates and qualified names,
and the checks. A validation function is a list of named checks in the order of the code;
`FirstError` returns the certificate and field of the first that fails, which stand for the `Err...`
variables of `errors.go`. It also defines the certificates a genuine device holds (`Akc`, `Didc`,
`Didsc`, `Ekc`), which no code in `src/` makes: they follow the structures of `structures.go` and
what `README.md` and `dice/README.md` say of the fields.

**DiceChain.** A session: `NewValidator`, `ValidateChain` and `ValidateEk` are the three exported
calls, `Receive` and `Forget` the caller taking up and dropping a chain, `Provision` and `Boot` the
fleet. A caller may hold an alias key certificate of any boot with DeviceID and DeviceIDScribe
certificates of any two devices, and one of them may have one damaged part: a header field, key,
hash or signature. `ValidateEk` may come before `ValidateChain` or without it, as the package
allows. `NewValidator` chooses any of `NewValidatorMaps`; that TrustStore's loop builds nothing else is
proved (`MapsAsDiceChainSupposes`).

**Attestation.** What a session promises without a certificate in it: at most one booted and
covered pair of device and firmware attested, then at most one of that pair's keys endorsed, until
the session ends. DiceChain maps to it by reading the pair off the accepted certificates; an
accepted chain that is no one's would map to the pair `Nobody`, which Attestation never attests.

**ChainStream.** A certificate file and the call that reads it: `Open` or `OpenFails`, then one
`ReadPart` or `ReadFails` for each `binary.Read` of `chain_parser.go`, `Parsed` where the parser
returns, `Validate` where `titancertutil` validates what it has, `Exit`. Every part is a multiple of
32 bytes, so the file is a sequence of 32-byte blocks, each tagged with what its writer meant; the
parser reads by position and a block that is not in its place becomes a part that nobody wrote.
`Layout` says how many blocks the next read takes and depends on the header read before it, which
is where the optional firmware hash comes in. The verdict is DiceCertificates'.

**MCFleet.** The two devices, two firmwares and two Scribes that all instances of the DICE modules
share.

**PCRBank.** Several banks, and `history`, an auxiliary variable that records what happened to each
PCR since it was made or launched. Digests are terms, so the digest and the history are two
independent accounts and the properties relate them. The doc comment in `PerformDRTM` (line 112)
says "extend PCR0" where the code extends PCR 17; the model follows the code.

**WarmResetNV.** `WarmReset`, `Challenge` and `Certify` are the TPMs and the caller, `Verify` is a
call of `VerifyWarmResetNVIndex` with any certification made so far, whole or with a damaged part,
or nil. `answers` records what was returned and what the counter was at that time.

**FirmwareFile.** A firmware file is a size and, at the byte offsets where a reader finds a field, the
value of that field: a text, a number or a hash; all other bytes are zero. Offsets and sizes are
those of the code, so what fits, what overlaps and what is cut off is decided as there. `Content` is
the bytes of a part of it, wherever in a file they are, and a hash is the bytes it is the hash of.

**DescriptorCrypto.** The signature and hash structures by the ends of their fields: `Read` of a
signature structure returns nil wherever it stops (`descriptorcrypto.go:57-85`), and `Filled` is the
set of places where it may.

**DescriptorLayout.** The fields of the base structure, `CalculateSize`, the checks of
`ReadImageDescriptor`, and, from the fields alone, where each structure of a descriptor lies and
when there is one (`IsDescriptor`).

**ImageDescriptor.** `ExtractAndHash`. `SeekEnd` sets the scan on the last boundary; `PassPage`,
`FindMagic` and `NotFound` are the iterations of the scan; `ReadImageDescriptor` to `ReadSignature`
are the reads of `ReadDescriptorParts`; `GiveUpCandidate` and `WrongOffset` go on at the boundary
below; `RefuseToWrite`, `Panic` and `HashImageDescriptor` are what the serialisation ends in. Every
seek and read may fail, at most `MaxFailures` times: failures during the scan are passed over, others
end it, and those of the signature go unnoticed, as in the code. `parts` holds the bytes each part
was read from, so that the digest is of spans of the image and its properties are about places.

**BundleV2.** `ScanHeader`, `HashSingleFirmwareV2` and `HashBundleV2` as operators on a file: they
return a digest or an error and keep nothing. `BodySize` and `alignUp` wrap around at `Word`, which
stands for 2^32.

**Rimtool.** `runGenerateHash`: `Open`, `ScanForHeader`, `PrintBundle` or `DropError`, `Rewind`, then
`Extract`, whose steps are ImageDescriptor's, and what is printed of its result. Every call on the
file may fail here too. A header that a failing read hides at offset 0 may be found at 12.

**FirmwareVerdict, FirmwareReport.** The abstract specification of the command and its parameters: the
reports a file allows (the bundle it is; else its last descriptor; else none) and those it allows
once a call has failed (anything it holds, or none). FirmwareReport reports once; Rimtool is mapped to
it by `faulty <- failures > 0` and `report <- printed`.

**MCFirmware.** The descriptors, whole and broken in each way a reader tells apart, that the instances
of ImageDescriptor and Rimtool share.

Abstractions common to all: cryptography is symbolic (a signature verifies under its key over its
message only; the twin `(r, n-s)` of an ECDSA signature `(r, s)` is the same value; hashes do not
collide beyond the stated prefixes); the text of errors, logging and printing is left out; constant
header fields are one sub-record.

## What TLC checks

| Run | Module | Instance | Shows |
| --- | --- | --- | --- |
| `TrustStore` | MCTrustStore | every set of at most 4 of 13 root files, every order | `TrustsOwnRoots`, `FailsOnBadRoot`; `CallsReturn` (liveness) |
| `DiceChain` | MCDiceChain | 2 devices, 2 firmwares, 2 Scribes, 3 policies, one damaged part | `ChainAuthentic`, `GenuineChainAccepted`, `FaultLocated`, and the inductive invariant `IInv` |
| `DiceEk` | MCDiceChain | the same fleet, 1 policy with two pairs of roots of one KeyID, EK and FEK certificates, damaged or not | `KeptRootDecides`, `EkAuthentic`, `EkKindDecided`, `ImplementsAttestation` (refinement) |
| `ChainStream` | MCChainStream | the same fleet's files, cut, spliced, holed, prolonged | `AcceptedFileGenuine`, `GenuineFileAccepted`, `NothingMadeUp`, `TypeOK` |
| `PCRBank` | MCPCRBank | 2 banks, 4 measurements, indices -1, 0, 17, 22, 24 | `ValueTellsHistory`, `HistoryKept`, `TypeOK` |
| `WarmResetNV` | MCWarmResetNV | 2 TPMs, 2 nonces, 2 resets each, 2 certifications held | `CountFresh`, `GenuineCounted`, and the inductive invariant `IInv` |
| `ImageScan` | MCImageDescriptor | 201 images of up to 3 boundaries, whole and cut short, 2 failing calls | `LastDescriptorFound`, `FoundIsDescriptor`, `FirmwareMeasure`, `MeasuredInOrder`, `AreaRoom`; `ScanEnds` (liveness) |
| `Rimtool` | MCRimtool | 358 files: bundles, images, both and neither; 1 failing call | `BundleInside`, `DigestDecidesVersion`, `ReportsWhatItIs` (refinement); `AlwaysReports` (liveness) |
| `DiceShortKey` | MCDiceChain | a payload key whose y has a zero top byte | violated: `GenuineChainAccepted` |
| `DiceGenerations` | MCDiceChain | both generations trusted | violated: `OneGeneration` |
| `SignatureRequired` | MCImageDescriptor | every image of `ImageScan`, no failing call | violated: `SignatureRequired` |
| `HashOptional` | MCImageDescriptor | the same | violated: `HashOptional` |

The bounds and why they are enough:

* `MaxFiles` = 4 root files: `TrustsOwnRoots` is about pairs of files (two
  with one KeyID, one good and one bad), four leave room for two of each and every order. Calls
  follow each other without a bound, so that what an earlier one leaves behind would show.
* Two devices and two firmwares: a mix-up has two sources, and the certificates of a chain are
  three, of which two may come from one device and one from the other. The devices share a
  KeyInfo, their Scribes share a payload key, one has a firmware hash, one firmware has major
  version 0: each of the near-misses the checks exist for is in the instance.
* Colliding roots (`DiceEk`): beside the payload root another one of the same key and the other type, and
  beside the RW root of `s2`, whose y has a zero top byte, its `Twin`: a key whose coordinates without their
  zero tops give the same bytes. The validator may hold any of the four choices. Every Dice run has this
  short RW key, and it hinders nothing elsewhere: only the KeyID of a payload key is written in a
  certificate.
* One damaged part: damage of several parts is caught by the check of any of them; the proofs have
  no such bound beyond the definition of the damaged certificates themselves.
* Files: the 4 chains and 8 EK certificates of the fleet; every one of them cut at every block, with
  every single block replaced, followed by another file, and spliced with every other at every
  block with up to two blocks lost or one written twice; chains put together of certificates of
  several devices; the hash announced or not. The parser keeps nothing but its position, so damage
  in two places is damage in one, twice.
* Four measurements (`MaxMeasurements`): enough for a launch between extensions in both banks.
* Two nonces, two TPMs, counters up to `MaxCount` = 2, `MaxCertified` = 2 certifications held: an old
  certification and a new one, or one of each TPM. `Limit` = 4 stands for 2^63. The symmetry of TPMs
  and nonces is used; no property of that run is a liveness property.

* Images: any of the descriptors of MCFirmware, good, large or with one thing wrong, at the second
  boundary, over none or a good one at the first: a scan that goes on and one that ends differ in
  what they find. Sizes of exactly two boundaries and of 8 bytes more put the last boundary on the
  end of the image and on its last 8 bytes. A good descriptor and a large one, which has every part,
  are cut off at the end of each of their structures and one byte before.
* `MaxFailures` = 2 in `ImageScan`: one failure makes the scan pass a descriptor, another may hit the
  one below it. In `Rimtool`, 1: it hits each call on the file in turn, in step A or in step B.
* `Word` = 8192 = 4 flash blocks, so that a file of 24576 bytes is longer than `Word` and a size
  that wraps around may lead to bytes that exist. `BundleInside` and `ReportsWhatItIs` are proved for
  any `Word` allowed by `WordAssumption`, 2^32 among them.
* Bundles: copies with one thing wrong, as the first, the second or both; image sizes of 0, below and
  at the tag offset, up to and over the major field, at a flash boundary and past it, and `Word - 1`;
  files cut at the end of the second metadata and a byte before; a header at 0, at 12, at both; each with
  and without a descriptor behind it; and a good descriptor below one that is good, has no hash or has
  no regions, where the search must not go back to the lower one.

Runs with `CHECK_DEADLOCK FALSE`: `ImageScan`, `Rimtool`, `SignatureRequired` and `HashOptional`. A
search and a command return, and nothing comes after. The other models can always go on.

Fairness. Weak fairness of the loop in TrustStore, of the search in ImageDescriptor and of the command
in Rimtool. Each is sequential code in one goroutine that nothing blocks but calls on a file, which
return, with an error or without; so it is always able to take its next step until it returns. None
of them is assumed to succeed. The others check safety only; nothing in the code promises that a
caller calls again.

### Findings

* `DiceShortKey`: a KeyID is computed over coordinates without their zero top bytes
  (`key_utils.go:56`), against `structures.go:17-20` and the titan README ("Key ID and Key Info"). A
  root whose key has such a coordinate (about 1 key in 128) is stored under an identifier that no
  certificate carries and all its devices are refused. None of the roots embedded today has one.
* `DiceGenerations`: the README's table of generations ("Mixing acceptable values between
  generations is not valid") is not enforced: a validator that trusts both firmware signing keys
  accepts a chain that mixes them. `titancertutil` trusts one key only and is not affected in that
  column.

* `SignatureRequired`: `imagedescriptor.go:387` says that a signature is required unless the scheme is
  none, and `descriptorcrypto.go:81` leaves it to the caller to notice that it is absent. The caller,
  `ReadDescriptorParts`, does not look: an image that ends in front of the signature, or has something
  else there, is measured, and the bytes of the signature structure that are hashed with the
  descriptor are then whatever the structure was filled with.
* `HashOptional`: the hash structure is optional in the comments (`imagedescriptor.go:316` and 355) and
  in `ReadDescriptorParts`, but not in what comes after: `WriteDescriptorParts` gives the nil hash to
  `binary.Write`, which panics. A descriptor of hash type none does not get that far:
  `NewDescriptorHash` refuses it, so no descriptor without a hash can be measured at all.

## What TLAPS proves

Every invariant and every safety property that a passing run checks is also a theorem, for every
value of the constants that the assumptions allow. A `*_proofs` module has a plan: `Init => IInv`, one
lemma for each action that it keeps `IInv`, `IInv => property`, and a theorem that puts them together
with PTL.

An *assumption* (`ASSUME` in the module of the model, checked by TLC in every run) is something the
code relies on or the outside guarantees. A *hypothesis* of a theorem is something that neither the
code checks nor the outside guarantees, so that the theorem says what is promised when it holds;
there are two, and another theorem says for each what becomes of the rest:

* `WholeKeys`: the payload keys of the Scribes have no zero top bytes. `ShortKeyRefused` proves that
  without it acceptance fails, whatever the validator trusts;
* `RootsDistinct`: no two roots of a policy have one KeyID. `NewValidator` keeps one of them;
  `KeptRootTold` proves, for any roots, that the one it kept decides the verdict and how.

Both are needed for what the validator must *accept* and for where it puts the blame; nothing about
what it must *not* accept depends on them.

### Certificates: DiceCertificates_proofs

The lemmas that the two modules below share, none of which is about a state.

* *Which check fails first* is a least natural number, which `LeastNatural` gets from the well-founded
  order of the naturals in the library, since no induction over data can be instantiated here. From
  it, `FirstErrorOK` (accepted means that every check held), `FirstErrorFirst` (the error is that of a
  check which fails while all before it hold).
* *Taking apart*: from an accepted certificate of each kind, the facts its checks established, and
  from a signature that verifies, who made it and over what. A signature over a header says in the
  header's purpose what it is for (`SignaturePurpose`), and a DeviceIDScribe message is of hashes, so
  no signature of one kind of certificate passes for one of another.
* *Putting together*: the genuine certificate of each kind passes each of its checks.
* `KeyIDAsDocumented`: `ComputeKeyIDECDSA` gives the documented KeyID exactly for keys without zero
  top bytes. `ShortKeyRefused` follows: the KeyID that Scribe wrote into a DeviceID certificate is
  then not the one the code finds for the key that signed it. It is the finding of `DiceShortKey` for
  every fleet and every set of roots.

Assumptions: `KeysAssumption` (no two devices share a DeviceID key, no two boots an alias key),
`KeysAreKeys` (a key is two non-empty sequences of bytes), `FleetAssumption` (no hardware ID is 0 and
no firmware hashes to zeros: values the validator takes for a corruption and for an absent hash).
KeyInfos may collide and Scribes may share keys.

### Sessions: DiceChain_proofs

`ChainAuthentic` is not inductive: an accepted chain says something only if every intact signature
was made by the fleet (`SignaturesIssued`), the certificates have the fields the model reads
(`ShapesKept`) and a verdict is about the certificates held now and not about ones held before
(`AnswersCurrent`). With them, `SessionInvariant` and `TypeCorrect`;

* `ChainAuthenticity`, `EkAuthenticity`: the certificates are taken apart, and the DeviceID key, the
  hash of the DeviceID certificate and the rule on firmware hashes tie them to one device and boot;
* `GenuineAccepts`, `EkKind`: put together again, they pass;
* `KeptRootTold`: what the map holds under the KeyID of a covered device's root is that root, or has another
  type or another key, on which the third or the fourth check fails after the first two held;
* `FaultIsLocated`: where two of three certificates are a covered device's, every check of the others
  holds, so the first that fails is of the third (or compares it with its neighbour). A hardware ID
  of 0 needs that all checks before that one hold;
* `Refinement` to Attestation, by cases of `Next`, with the two authenticity theorems deciding the
  pair. `PoliciesAssumption` (roots are records of a type and a subject), `KindsAssumption`.

### Construction: TrustStore_proofs

The invariant says that the map is `BuiltFrom` the files already passed, and all of those are well
formed: `LoopInvariant`, `TypeCorrect`, `OwnRootsOnly`, `BadRootFails`. `MapsAsDiceChainSupposes`
is the link between the components: what `NewValidator` returns is one of `NewValidatorMaps` of
its roots. No assumption.

### Files: ChainStream_proofs

`FollowsFile` is the invariant: the parts held are the file cut at the places the format gives
(`Cut`; the places of a chain depend on the header, which is in the first part), and the result tells the
stage the call is in (`Stage`). `TypeCorrect` follows, and `PartsOfTheFile`: that the parts put together are
the beginning of the file is about `FlattenSeq`, a recursion over the parts, and goes by the first
part at which it would not be so.

* *Completeness*, `GenuineFiles`: encodings are read back (`ChainBlocks`, `EkReadBack`, `ChainReadBack`): each
  encoded part is as long as the format says and its blocks decode to what it was made from; the
  validator then accepts by the lemmas of DiceCertificates_proofs. Hypothesis `WholeKeys`.
* *Soundness*, `AcceptedFiles`: an accepted chain is a genuine one of a boot (as in `ChainAuthenticity`),
  and a part that decodes to a genuine one is made of that one's blocks: `SignatureFrom`, `KeyFrom`, `HashFrom` and
  `HeaderFrom` for the parts, `ChainFrom` for the whole. This is where junk must be told
  from the genuine: bytes out of their place decode to a signature that does not verify, to a key and a hash
  that are no one's, and to a header with a wrong constant.

Assumptions: `FilesAssumption` (any blocks in any order, whose intact signatures were issued),
`ScribesAssumption` (the roots are what `NewValidator` leaves), `JunkAssumption` (the hash that junk
decodes to is no firmware's).

### PCR bank: PCRBank_proofs

`BankInvariant` and `TypeCorrect` (types and ranges), `PastIsKept` (`HistoryKept`). `ValueIsHistory` relates two
folds of the same calls. An induction over histories is out of reach, and `ValueTellsHistory` alone is not
inductive: after an extension of one bank its new value must be compared with that of a bank that got
there earlier by other steps. `LedgerInvariant` says that for each PCR there is a *ledger*: a set of
pairs of a history and a value, each of them the fresh pair, a launch, or one extension
longer than another in it, two of which have the same history exactly when the same value, and that
the pairs of all banks are in it. Each call adds at most one pair, and the new pair is told from
every one in the ledger by looking at the last step only. Assumption `CallsAssumption`: indices are
integers.

### Warm reset counter: WarmResetNV_proofs

`SessionInvariant`, `Freshness`, `Completeness`. `CountFresh` is strengthened by `CertifiedTruthful`: a
certification for a nonce that has been sent holds a number no smaller than the counter at the
challenge and no larger than the counter now. `GenuineCounted` follows from the same invariant: what
TPMs sign is intact and well formed, so none of the checks refuses it. `NVAssumption`: attestation
keys are distinct, other indices have other public areas, counters stay below 2^63. That nonces are
not reused is the caller's duty and is a guard of `Challenge`.

### Images: ImageDescriptor_proofs

`TypeCorrect`, `LastFound`, `OnlyDescriptors`, `Ordered`, `MeasuredWhole`, `Room`, for any images and any
number of failing calls. The properties are about the result; the invariant says how it comes about:
`Reading`, that each part read so far is where the layout of the candidate puts it and the reader
behind it; `Passed`, that without a failure no boundary above the scan holds a descriptor; `Returned`,
that a result is of the parts that were read. Each read keeps it because what it demands is what
`IsDescriptor` demands there. Assumptions: `ImagesAssumption` (sizes, offsets and numbers are
naturals), `FailuresAssumption`.

### rimtool: Rimtool_proofs

`RunTypeCorrect`, `CopiesInside`, `DigestTellsVersion`, `Reported`. The invariant is that of the search and
what the command knows at each step: nothing has been searched before `extract`, a file that gets to
`rewind` without a failure is no bundle (`Sniffed`), why the search ended as it did (`Outcome`), what has
been printed (`Printed`).

* `CopiesInside` needs arithmetic modulo `Word`: where `alignUp` wraps it gives 0, and the metadata
  would stand on the header's magic; where `BodySize` wraps, the body would contain the metadata that
  holds its own hash.
* `DigestTellsVersion`: equal digests are equal bodies of the copies, a body that reaches over the major
  field contains it, and what a place of a body holds is a field of `Content` (`NumberOfContent`,
  `DigestOfBodies`, `MajorInBody`).
* `Reported` is the whole of the safety refinement to FirmwareReport.

Assumptions: `BundlesAssumption` (size fields are below `Word`, as the four bytes they have, and no body
contains its own hash), `WordAssumption` (a multiple of the flash block, above two of them).

### Only model-checked

`CallsReturn`, `ScanEnds` and `AlwaysReports`, the liveness properties: what a step enables is out of
the prover's reach. The four runs that expect a violation show a counterexample each; the one of
`DiceShortKey` is proved as `ShortKeyRefused` as well.

## Not modelled

* Contents of the embedded roots, `Print`, `String` and `Hash` methods, command lines and
  `titancertutil`'s `parse` subcommand, a placeholder that prints a line: data and
  output. The validator's other panics (a nil validator) end the program; the model's caller has
  one.
* Of the firmware tools: setters, constructors and `String` methods that no reader calls;
  `ReadImageDescriptorFile` and the other entry points that open a file and call what is modelled;
  arguments and usage of `rimtool`, how a report is laid out. A `Denylist` is declared
  (`imagedescriptor.go:318`, `types.go:196`) and never read or written, so the code says nothing of where
  it would lie. How much memory a read may allocate for a size it takes from the file: the sizes are
  modelled, memory is not. What relation the hashes of the two copies of a bundle should have: the
  comment at `bundle.go:105` accepts either hash for either copy and nothing says more.
* Timing and concurrency: the code has no goroutines, timeouts or storage.

## Plan

Done: TitanKeys, ScribeCertificates, TrustStore; DiceCertificates, DiceChain, Attestation; PCRBank;
WarmResetNV; ChainStream; FirmwareFile, DescriptorCrypto, DescriptorLayout, ImageDescriptor; BundleV2;
FirmwareVerdict, FirmwareReport, Rimtool; the proof modules above. Every component that keeps state or
decides something is modelled.

Every invariant and safety property that a passing run checks has a theorem. Of use next:

1. `OneGeneration`, `SignatureRequired` and `HashOptional` in positive form: under which conditions on policy and
   image what the documents say does hold, and that the code needs them.
2. That ChainStream and DiceChain give the same answer for the same certificates, as a theorem.
3. Lemmas of `FirmwareFile` (`Content`, spans) that ImageDescriptor_proofs and Rimtool_proofs state each
   for themselves, in one place.
