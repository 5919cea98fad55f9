------------------------------ MODULE Rimtool ------------------------------
(***************************************************************************)
(* rimtool generate-hash: the command opens a firmware file, tries it as a *)
(* Titan V2 bundle and, when that fails for whatever reason, as a BIOS or  *)
(* BMC image with an image descriptor, and reports the first of the two it *)
(* could hash.  The image descriptor is searched for by ImageDescriptor,   *)
(* whose steps are this command's while it is being extracted.             *)
(***************************************************************************)
EXTENDS ImageDescriptor, FirmwareVerdict

\* Of the bundle at o in f: the size fields of its copies have four bytes, and
\* no hash in f is that of a body it lies in.
WidthAt(f, o) ==
  \A s \in {CopyA(f, o), CopyB(f, o)} : ImageSize(f, s) < Word

NoHashOfItself(f, o) ==
  \A s \in {CopyA(f, o), CopyB(f, o)}, p \in DOMAIN f.hash :
     BodyAt(s) <= p /\ p < BodyAt(s) + BodySize(ImageSize(f, s))
     => f.hash[p] /= CalculatedHash(f, s)

ASSUME BundlesAssumption ==
  \A f \in Images, o \in {0, 12} : WidthAt(f, o) /\ NoHashOfItself(f, o)

VARIABLES
  step,    \* where runGenerateHash is
  printed  \* what printCLIResult has printed, or how the command ended

runVars == <<step, printed, image, pc, offset, position, parts, failures, result>>
searchVars == <<pc, offset, position, parts, result>>

RunInit ==
  /\ Init
  /\ step = "open"
  /\ printed = [kind |-> "none"]

\* Mutant of End: what is printed is not the end of it.
EndWithoutReturn(outcome) ==
  /\ step' = "rewind"
  /\ printed' = outcome
  /\ UNCHANGED searchVars

End(outcome) ==
  /\ step' = "ended"
  /\ printed' = outcome
  /\ UNCHANGED searchVars

Goto(next) == step' = next /\ UNCHANGED <<searchVars, printed>>

Open == step = "open" /\ CallsSucceed /\ Goto("header")

OpenFails == step = "open" /\ CallFails /\ End(Refused)

\* Step A.  A header that a failing read hides at offset 0 may be found at 12.
FoundHeader(o) == Goto(IF o = NoHeader THEN "rewind" ELSE "bundle")

ScanForHeader ==
  /\ step = "header"
  /\ \/ CallsSucceed /\ FoundHeader(ScanHeader(image, {}))
     \/ CallFails /\ \E unread \in {{0}, {0, 12}} : FoundHeader(ScanHeader(image, unread))

TitanV2(o) ==
  [kind |-> "titan_v2", version |-> TitanImageMetadataV2(image, o).Major,
   digest |-> TitanImageMetadataV2(image, o).Digest]

\* HashBundleV2 scans for the header again.
HashBundle(o) ==
  step = "bundle" /\ HashBundleV2(image, o) /\ End(TitanV2(o))

PrintBundle ==
  \/ CallsSucceed /\ HashBundle(ScanHeader(image, {}))
  \/ CallFails /\ HashBundle(ScanHeader(image, {0}))

\* Mutants of DropError: the bundle is tried again; its error is the command's.
RetryBundle ==
  /\ step = "bundle"
  /\ \/ ~HashBundleV2(image, ScanHeader(image, {})) /\ CallsSucceed
     \/ CallFails
  /\ Goto("header")
ReturnError ==
  /\ step = "bundle"
  /\ \/ ~HashBundleV2(image, ScanHeader(image, {})) /\ CallsSucceed
     \/ CallFails
  /\ End(Refused)

\* Whatever was wrong with the bundle, its error is dropped.
DropError ==
  /\ step = "bundle"
  /\ \/ ~HashBundleV2(image, ScanHeader(image, {})) /\ CallsSucceed
     \/ CallFails
  /\ Goto("rewind")

\* Step B.
Rewind == step = "rewind" /\ CallsSucceed /\ Goto("extract")

RewindFails == step = "rewind" /\ CallFails /\ End(Refused)

Extract == step = "extract" /\ Next /\ UNCHANGED <<step, printed>>

PrintDescriptor ==
  /\ step = "extract"
  /\ result.kind = "hash"
  /\ CallsSucceed
  /\ End([kind |-> "image_descriptor", hashType |-> result.hashType,
          from |-> result.of.spans[1].from, to |-> result.of.spans[5].to,
          fill |-> result.of.fill])

NotRecognised ==
  step = "extract" /\ result.kind = "error" /\ CallsSucceed /\ End(Refused)

Crashed ==
  /\ step = "extract"
  /\ result.kind = "panic"
  /\ CallsSucceed
  /\ End([kind |-> "panic"])

RunNext ==
  \/ Open \/ OpenFails
  \/ ScanForHeader \/ PrintBundle \/ DropError
  \/ Rewind \/ RewindFails \/ Extract
  \/ PrintDescriptor \/ NotRecognised \/ Crashed

\* The command is one goroutine, which the scheduler keeps running.
RunSpec == RunInit /\ [][RunNext]_runVars /\ WF_runVars(RunNext)

-----------------------------------------------------------------------------
(* Properties. *)

Steps == {"open", "header", "bundle", "rewind", "extract", "ended"}

RunTypeOK ==
  /\ TypeOK
  /\ step \in Steps
  /\ printed.kind \in {"none", "error", "panic", "titan_v2", "image_descriptor"}
  /\ step = "ended" <=> printed.kind /= "none"

\* A copy lies in the file as its header says: no size that wraps around in
\* the body's length or in the metadata's place gets it accepted, and its
\* metadata is not part of its body.
CopyInside(f, s) ==
  /\ TagFieldOffset <= ImageSize(f, s)
  /\ s + ImageSize(f, s) <= f.size
  /\ s + ImageSize(f, s) <= MetadataAt(f, s)
  /\ MetadataAt(f, s) + UnsignedMetadataSize <= f.size

\* What is reported of a bundle is of copies that lie in the file.
BundleInside ==
  printed.kind = "titan_v2" =>
     \E o \in {0, 12} :
        /\ printed = TitanV2(o)
        /\ CopyInside(image, CopyA(image, o))
        /\ CopyInside(image, CopyB(image, o))

\* The image reaches over the header's major field.
CoversMajor(f, s) == ImageSize(f, s) >= MajorFieldOffset + 4

\* The digest reported decides the version reported with it, wherever the
\* copies reach over the field it is read from: no two bundles have the same
\* digest and another version.
DigestDecidesVersion ==
  printed.kind = "titan_v2" =>
     \A f \in Images, o \in {0, 12} :
        /\ HashBundleV2(f, o)
        /\ CoversMajor(f, CopyA(f, o))
        /\ TitanImageMetadataV2(f, o).Digest = printed.digest
        => Major(f, CopyA(f, o)) = printed.version

\* The command reports what the file is, or, when a call on it has failed, at
\* most what it holds, and it reports once.
Promise == INSTANCE FirmwareReport
             WITH Files <- Images, file <- image, faulty <- failures > 0, report <- printed

ReportsWhatItIs == Promise!Spec

\* Whatever the file is and however the calls on it fail, the command ends.
AlwaysReports == Promise!Reports

=============================================================================
