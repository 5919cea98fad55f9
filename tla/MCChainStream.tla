---------------------------- MODULE MCChainStream ----------------------------
(***************************************************************************)
(* ChainStream over the fleet of MCFleet, with the embedded options of     *)
(* titancertutil: every root, the firmware signing key of generation 2.    *)
(***************************************************************************)
EXTENDS ChainStream, MCFleet

MCScribes ==
  LET id(c) == ComputeKeyIDECDSA(c.subject)
  IN  [i \in {id(c) : c \in AllRoots} |-> CHOOSE c \in AllRoots : id(c) = i]
MCInfos == {Gen2Info}

ChainFiles == Range(ChainFile)
EkFiles    == Range(EkFile)

\* Certificates of several devices, one after the other.
MixedFiles ==
  {EncodeAkc(Akc(b[1], b[2])) \o EncodeDidc(Didc(d)) \o EncodeDidsc(Didsc(e))
     : b \in Boots, d \in MCDevice, e \in MCDevice}

\* A file overwritten by another from block n on, with up to two blocks lost or
\* one written twice.
Spliced(a, b) ==
  UNION {{SubSeq(a, 1, n) \o SubSeq(b, m, Len(b)) : m \in (IF n = 0 THEN 1 ELSE n) .. n + 3}
         : n \in 0 .. Len(a)}

CutFiles(files)  == UNION {{SubSeq(a, 1, n) : n \in 0 .. Len(a) - 1} : a \in files}
LongFiles(files) == {a \o <<<<"junk", 0>>>> : a \in files} \cup {a \o a : a \in files}
HoledFiles(files) ==
  UNION {{[a EXCEPT ![n] = <<"junk", 0>>] : n \in DOMAIN a} : a \in files}

\* The byte that announces a firmware hash reads as another.
Misannounced ==
  UNION {{[a EXCEPT ![1][3].rest.ExtensionHeaderType = t] : t \in {0, 1, 2}} : a \in ChainFiles}

Damaged(files) ==
  files \cup CutFiles(files) \cup LongFiles(files) \cup HoledFiles(files)
    \cup UNION {Spliced(a, b) : a \in files, b \in files}

MCFiles ==
  [what \in {"chain", "ek"} |->
     IF what = "ek" THEN Damaged(EkFiles)
     ELSE Damaged(ChainFiles) \cup MixedFiles \cup Misannounced]

=============================================================================
