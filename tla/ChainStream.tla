----------------------------- MODULE ChainStream -----------------------------
(***************************************************************************)
(* Certificates as files: the parsers of titan/dice/titandice/             *)
(* chain_parser.go, which read one part after another from a stream, and   *)
(* titancertutil's verification of a chain file with the embedded roots    *)
(* (titan/dice/titancertutil/verify.go).                                   *)
(*                                                                         *)
(* Every part of a certificate is a multiple of 32 bytes long, so a file   *)
(* is a sequence of blocks of 32 bytes; bytes after the last whole block   *)
(* complete no read and are left out.  A block is tagged with what its     *)
(* writer meant: half of a header, a coordinate, half of a signature, a    *)
(* hash, or junk.  A parser does not see the tag: it reads by position, so *)
(* a block in the wrong place becomes a part that nobody wrote.  The one   *)
(* thing the parser decides by is the type of the header extension, and of *)
(* the blocks here only the first half of an alias key certificate's       *)
(* header has a 2 where it is.                                             *)
(***************************************************************************)
EXTENDS DiceCertificates, SequencesExt

CONSTANTS
  Files,    \* what the files hold, read as "chain" and as "ek"
  Scribes,  \* the validator's map, made of the embedded roots
  Infos     \* the trusted firmware signing KeyInfos

VARIABLES
  file,     \* the file being read
  target,   \* what it is read as: "chain" or "ek"
  pos,      \* blocks the reader has consumed
  parts,    \* the blocks of each part read so far
  parsed,   \* the certificates made of the parts, Nothing before
  result    \* "idle", "reading", "parsed", then the error, OK for none

vars == <<file, target, pos, parts, parsed, result>>

Nothing == [nothing |-> TRUE]
Missing == <<"file", "Missing">>
Idle    == <<"idle">>

------------------------------------------------------------------------------
(* Encodings: the parts of each certificate in the order of structures.go. *)

FirstHalf == {"SignatureVersion", "SignaturePurpose", "ExtensionHeaderType", "KeyType", "KeyOp",
              "KeyAlg", "KeyInfo", "CertValidity", "SignKeyInfo", "Validity"}

Fields(record, names) == Restrict(record, DOMAIN record \cap names)

HalfOf(header, names) ==
  [const |-> Fields(header.const, names), rest |-> Fields(header, names \ {"const"})]

AllFields(header) == DOMAIN header \cup DOMAIN header.const

\* The 64 bytes all headers start with; those of the kind are told by the tag.
EncodeHeader(kind, header) ==
  LET names == AllFields(header) \ {"RWHash", "QualifiedName"}
  IN  << <<kind, 1, HalfOf(header, names \cap FirstHalf)>>,
         <<kind, 2, HalfOf(header, names \ FirstHalf)>> >>

EncodeKey(key)  == << <<"coordinate", key.x>>, <<"coordinate", key.y>> >>
EncodeSig(sig)  == << <<"signature", 1, sig>>, <<"signature", 2, sig>> >>
EncodeHash(hash) == << <<"hash", hash>> >>

EncodeAkc(akc) ==
  EncodeHeader("akc", akc.header) \o EncodeKey(akc.pub) \o EncodeSig(akc.sig)
    \o (IF akc.header.ExtensionHeaderType = EHTFirmwareHash THEN EncodeHash(akc.fwHash) ELSE <<>>)
EncodeDidc(didc) ==
  EncodeHeader("didc", didc.header) \o EncodeKey(didc.key) \o EncodeSig(didc.sig)
EncodeDidsc(didsc) ==
  EncodeHash(didsc.certHash) \o EncodeKey(didsc.scribeRWKey) \o EncodeSig(didsc.sig)

EncodeChain(chain) == EncodeAkc(chain.akc) \o EncodeDidc(chain.didc) \o EncodeDidsc(chain.didsc)

EncodeEk(ekc) ==
  EncodeHeader("ek", ekc.header) \o EncodeHash(ekc.header.RWHash)
    \o EncodeHash(ekc.header.QualifiedName) \o EncodeKey(ekc.pub) \o EncodeSig(ekc.sig)

------------------------------------------------------------------------------
(* What the files are.                                                     *)

\* The constants of a header and its other fields, but for the two hashes that
\* an EK certificate's has in blocks of their own.
HeaderConst == [akc |-> AkcConst, didc |-> DidcConst, ek |-> EkConst]
HeaderFields ==
  [akc  |-> {"ExtensionHeaderType", "KeyInfo", "SignKeyInfo", "Validity", "HWID", "HWCat",
             "BootloaderTag", "FWEpoch", "FWMajorVersion"},
   didc |-> {"KeyInfo", "CertValidity", "ScribeKeyID", "HWID", "HWCat", "BootloaderTag"},
   ek   |-> {"KeyInfo", "CertValidity", "HWID", "HWCat", "BootloaderTag", "FWEpoch",
             "FWMajorVersion"}]

IsHalf(kind, n, half) ==
  LET part(names) == IF n = 1 THEN names \cap FirstHalf ELSE names \ FirstHalf
  IN  half = [const |-> Restrict(half.const, part(DOMAIN HeaderConst[kind])),
              rest  |-> Restrict(half.rest, part(HeaderFields[kind]))]

IsBlock(block) ==
  \/ \E kind \in DOMAIN HeaderConst, n \in 1 .. 2 :
       /\ block[1] = kind
       /\ block = <<kind, n, block[3]>>
       /\ IsHalf(kind, n, block[3])
  \/ \E n \in 1 .. 2 :
       /\ block[1] = "signature"
       /\ block = <<"signature", n, block[3]>>
       /\ block[3].intact => IsIssued(block[3])
  \/ \E tag \in {"coordinate", "hash", "junk"} : block[1] = tag /\ block = <<tag, block[2]>>

\* A file may hold any blocks in any order; what is tagged as half of a header has
\* the fields of one, and no signature that verifies is anyone else's.
ASSUME FilesAssumption ==
  \A what \in {"chain", "ek"} : \A f \in Files[what] :
     f \in Seq(Range(f)) /\ \A i \in DOMAIN f : IsBlock(f[i])

\* The embedded roots are under the KeyIDs of their subjects, as NewValidator
\* leaves them.
ASSUME ScribesAssumption ==
  /\ Scribes \in NewValidatorMaps(Range(Scribes))
  /\ \A id \in DOMAIN Scribes :
       Scribes[id] = [type |-> Scribes[id].type, subject |-> Scribes[id].subject]

------------------------------------------------------------------------------
(* Decoding.  Bytes that were not meant for their place make a key and a   *)
(* hash that are no one's, a signature that does not verify, and a header  *)
(* with a wrong constant: the purpose for another kind of header, the      *)
(* reserved bytes or a size for two halves that do not belong together.    *)
(* Which of the constants is wrong is not told apart.                      *)

JunkCoordinate == <<-1>>
JunkHash == [digest |-> <<0>>]
\* No firmware hashes to what junk is read as.
ASSUME JunkAssumption == \A f \in Firmware : FWHash[f] # JunkHash

JunkSig  == [key |-> JunkCoordinate, msg |-> <<>>, intact |-> FALSE]

Wrong == 255
JunkHeader(announced) ==
  [const |-> [c \in DOMAIN AkcConst \cup DOMAIN DidcConst \cup DOMAIN EkConst |-> Wrong],
   ExtensionHeaderType |-> IF announced THEN EHTFirmwareHash ELSE EHTNone,
   KeyInfo |-> Wrong, SignKeyInfo |-> Wrong, HWID |-> Wrong, HWCat |-> Wrong,
   BootloaderTag |-> Wrong, ScribeKeyID |-> KeyIDOf(JunkCoordinate)]

\* The halves of a header of this kind, of one certificate or of two.
IsHeader(kind, blocks) ==
  \A n \in 1 .. 2 : blocks[n][1] = kind /\ blocks[n][2] = n

Joined(a, b) == [f \in DOMAIN a \cup DOMAIN b |-> IF f \in DOMAIN a THEN a[f] ELSE b[f]]

\* The extension type is in the first block, whatever the second is.
AnnouncesHash(blocks) ==
  /\ blocks[1][1] = "akc" /\ blocks[1][2] = 1
  /\ blocks[1][3].rest.ExtensionHeaderType = EHTFirmwareHash

ReadHeader(kind, blocks) ==
  IF IsHeader(kind, blocks)
  THEN Joined([const |-> Joined(blocks[1][3].const, blocks[2][3].const)],
              Joined(blocks[1][3].rest, blocks[2][3].rest))
  ELSE JunkHeader(AnnouncesHash(blocks))

ReadCoordinate(block) == IF block[1] = "coordinate" THEN block[2] ELSE JunkCoordinate
ReadKey(blocks)  == [x |-> ReadCoordinate(blocks[1]), y |-> ReadCoordinate(blocks[2])]
ReadHash(block)  == IF block[1] = "hash" THEN block[2] ELSE JunkHash
ReadSig(blocks)  ==
  IF /\ IsHeader("signature", blocks)
     /\ blocks[1][3] = blocks[2][3]
  THEN blocks[1][3] ELSE JunkSig

\* What binary.Read is called for, in order: [cert, field, blocks].
Part(cert, field, blocks) == [cert |-> cert, field |-> field, blocks |-> blocks]

\* Mutant of AkcParts: the hash is read whether it was announced or not.
AkcPartsAlwaysHash(announced) ==
  <<Part("AKC", "header", 2), Part("AKC", "public key", 2), Part("AKC", "signature", 2),
    Part("AKC", "FWHash", 1)>>

AkcParts(announced) ==
  <<Part("AKC", "header", 2), Part("AKC", "public key", 2), Part("AKC", "signature", 2)>>
    \o (IF announced THEN <<Part("AKC", "FWHash", 1)>> ELSE <<>>)
DidcParts == <<Part("DIDC", "header", 2), Part("DIDC", "public key", 2), Part("DIDC", "signature", 2)>>
DidscParts == <<Part("DIDSC", "certificate", 5)>>
EkParts == <<Part("EK", "header", 4), Part("EK", "public key", 2), Part("EK", "signature", 2)>>

\* Until the first header is read it does not matter whether it announces a hash.
Layout(what, read) ==
  IF what = "ek" THEN EkParts
  ELSE AkcParts(read # <<>> /\ AnnouncesHash(read[1])) \o DidcParts \o DidscParts

ParsedAkc(read) ==
  [header |-> ReadHeader("akc", read[1]), pub |-> ReadKey(read[2]), sig |-> ReadSig(read[3]),
   fwHash |-> IF Len(AkcParts(AnnouncesHash(read[1]))) = 4 THEN ReadHash(read[4][1])
              ELSE ZeroHash]

ParsedDidc(read) ==
  [header |-> ReadHeader("didc", read[1]), key |-> ReadKey(read[2]), sig |-> ReadSig(read[3])]

ParsedDidsc(blocks) ==
  [certHash |-> ReadHash(blocks[1]), scribeRWKey |-> ReadKey(SubSeq(blocks, 2, 3)),
   sig |-> ReadSig(SubSeq(blocks, 4, 5))]

ParsedChain(read) ==
  LET n == Len(read)
  IN  [akc |-> ParsedAkc(read), didc |-> ParsedDidc(SubSeq(read, n - 3, n - 1)),
       didsc |-> ParsedDidsc(read[n])]

ParsedEk(read) ==
  [header |-> Joined(ReadHeader("ek", read[1]),
                     [RWHash |-> ReadHash(read[1][3]), QualifiedName |-> ReadHash(read[1][4])]),
   pub |-> ReadKey(read[2]), sig |-> ReadSig(read[3])]

------------------------------------------------------------------------------
Init ==
  /\ file = <<>>
  /\ target = "chain"
  /\ pos = 0
  /\ parts = <<>>
  /\ parsed = Nothing
  /\ result = Idle

\* The tool is started on a chain file, or a caller parses an EK certificate.
Open(what) ==
  /\ result = Idle
  /\ file' \in Files[what]
  /\ target' = what
  /\ result' = <<"reading">>
  /\ UNCHANGED <<pos, parts, parsed>>

\* os.ReadFile fails.
OpenFails ==
  /\ result = Idle
  /\ result' = Missing
  /\ UNCHANGED <<file, target, pos, parts, parsed>>

Remaining == result = <<"reading">> /\ Len(parts) < Len(Layout(target, parts))
Current   == Layout(target, parts)[Len(parts) + 1]

ReadPart ==
  /\ Remaining
  /\ pos + Current.blocks <= Len(file)
  /\ parts' = Append(parts, SubSeq(file, pos + 1, pos + Current.blocks))
  /\ pos' = pos + Current.blocks
  /\ UNCHANGED <<file, target, parsed, result>>

\* Mutant of ReadFails: what is missing reads as zeros.
ReadPads ==
  /\ Remaining
  /\ pos + Current.blocks > Len(file)
  /\ parts' = Append(parts, [i \in 1 .. Current.blocks |->
                               IF pos + i <= Len(file) THEN file[pos + i] ELSE <<"junk", 0>>])
  /\ pos' = Len(file)
  /\ UNCHANGED <<file, target, parsed, result>>

ReadFails ==
  /\ Remaining
  /\ pos + Current.blocks > Len(file)
  /\ result' = <<Current.cert, Current.field>>
  /\ UNCHANGED <<file, target, pos, parts, parsed>>

\* The parser returns; bytes that are left in the file are ignored.
Parsed ==
  /\ result = <<"reading">>
  /\ ~Remaining
  /\ parsed' = IF target = "ek" THEN ParsedEk(parts) ELSE ParsedChain(parts)
  /\ result' = IF target = "ek" THEN OK ELSE <<"parsed">>
  /\ UNCHANGED <<file, target, pos, parts>>

Validate ==
  /\ result = <<"parsed">>
  /\ result' = ValidateScribeCertificateChain(parsed, Scribes, Infos)
  /\ UNCHANGED <<file, target, pos, parts, parsed>>

Ended == result \notin {Idle, <<"reading">>, <<"parsed">>}

\* Mutant of Exit: the reader and what it has read are kept.
ExitKeepsReader ==
  /\ Ended
  /\ UNCHANGED <<file, target, pos, parts, parsed>>
  /\ result' = Idle

\* The call is over; nothing of it is left for the next one.
Exit ==
  /\ Ended
  /\ file' = <<>> /\ target' = "chain" /\ pos' = 0 /\ parts' = <<>> /\ parsed' = Nothing
  /\ result' = Idle

Next == ReadPart \/ ReadFails \/ Parsed \/ Validate \/ OpenFails \/ Exit
          \/ \E what \in {"chain", "ek"} : Open(what)

Spec == Init /\ [][Next]_vars

------------------------------------------------------------------------------
(* Properties.                                                             *)

StartsWith(encoded) == Len(encoded) <= Len(file) /\ SubSeq(file, 1, Len(encoded)) = encoded
CutShort(encoded)   == Len(encoded) > Len(file) /\ SubSeq(encoded, 1, Len(file)) = file

\* What the devices hold, by boot, and for EK certificates by kind, and the files of it.
Boots  == Device \X Firmware
Chains == [b \in Boots |-> Chain(b[1], b[2])]
Ekcs   == [e \in Device \X Firmware \X BOOLEAN |-> Ekc(e[1], e[2], e[3])]
ChainFile == [b \in Boots |-> EncodeChain(Chains[b])]
EkFile    == [e \in DOMAIN Ekcs |-> EncodeEk(Ekcs[e])]

Trusts(b) ==
  /\ CodeKeyInfo[b[2]] \in Infos
  /\ {PayloadCert(ScribeOf[b[1]]), RWCert(ScribeOf[b[1]])} \subseteq Range(Scribes)

\* Type correctness: what has been read is a number of whole parts, and
\* certificates are there once the parser has returned them.
TypeOK ==
  /\ target \in {"chain", "ek"}
  /\ result = Idle => file = <<>> /\ pos = 0 /\ parts = <<>>
  /\ pos \in 0 .. Len(file)
  /\ Len(parts) <= Len(Layout(target, parts))
  /\ parsed # Nothing => Len(parts) = Len(Layout(target, parts))
  /\ result \in {Idle, <<"reading">>, Missing} => parsed = Nothing

\* A file that titancertutil calls valid starts with the certificates of one
\* device after one boot, in order and complete: no dropped, doubled, foreign or
\* shifted block gets past parser and validator together (chain_parser.go:35 and
\* the checks of the validator).
AcceptedFileGenuine ==
  target = "chain" /\ result = OK =>
    \E b \in Boots : StartsWith(ChainFile[b]) /\ Trusts(b)

\* The file of a genuine chain or EK certificate is read back as what it encodes,
\* with or without a firmware hash and whatever follows it in the file, and the
\* chain is then called valid (chain_parser.go:65-107).
GenuineFileAccepted ==
  Ended /\ result # Missing =>
    IF target = "chain"
    THEN \A b \in Boots : StartsWith(ChainFile[b]) =>
           parsed = Chains[b] /\ (Trusts(b) => result = OK)
    ELSE \A e \in DOMAIN Ekcs : StartsWith(EkFile[e]) => parsed = Ekcs[e] /\ result = OK

\* The certificate of a chain that block n of its file is a part of.
CertAt(chain, n) ==
  LET akc == Len(EncodeAkc(chain.akc))
  IN  IF n <= akc THEN "AKC" ELSE IF n <= akc + Len(EncodeDidc(chain.didc)) THEN "DIDC" ELSE "DIDSC"

\* A parser makes nothing up: the parts are the beginning of the file, each block
\* once, and of a genuine file cut short nothing is returned and the error names
\* the certificate that the cut is in.
NothingMadeUp ==
  /\ FlattenSeq(parts) = SubSeq(file, 1, pos)
  /\ Ended /\ result # Missing =>
       IF target = "chain"
       THEN \A b \in Boots : CutShort(ChainFile[b]) =>
              parsed = Nothing /\ result[1] = CertAt(Chains[b], Len(file) + 1)
       ELSE \A e \in DOMAIN Ekcs : CutShort(EkFile[e]) => parsed = Nothing /\ result[1] = "EK"

=============================================================================
