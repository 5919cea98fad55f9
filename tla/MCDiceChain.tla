----------------------------- MODULE MCDiceChain -----------------------------
(***************************************************************************)
(* DiceChain over the fleet of MCFleet.                                    *)
(***************************************************************************)
EXTENDS DiceChain, MCFleet

CONSTANT AllPolicies \* TRUE: three policies, FALSE: the first one

TrustAll == [roots |-> AllRoots, infos |-> {Gen1Info, Gen2Info}]
MCPolicies ==
  IF ~AllPolicies THEN {TrustAll} ELSE
  {TrustAll,
   [roots |-> AllRoots \ {RWCert(s2)}, infos |-> {Gen2Info}],
   [roots |-> {PayloadCert(s1), [RWCert(s1) EXCEPT !.type = SelfSignedScribeType]},
    infos |-> {Gen1Info}]}

\* Two pairs of roots with one KeyID: of one key, in either type, and of two keys that
\* differ in where a zero top byte is.
CollidingPolicies ==
  {[roots |-> AllRoots \cup {[PayloadCert(s1) EXCEPT !.type = TitanScribeType],
                            [RWCert(s2) EXCEPT !.subject = Twin]},
    infos |-> {Gen1Info, Gen2Info}]}

\* Where the theorems on genuine chains apply, their hypotheses hold here.
ASSUME GenuineHypotheses ==
  /\ Policies # CollidingPolicies => RootsDistinct
  /\ TopByte # 0 => WholeKeys

\* What a damaged field may read as: values of other certificates among them.
FieldValues(field) ==
  CASE field = "ExtensionHeaderType"  -> {0, 1, 2}
    [] field \in {"KeyInfo", "Validity", "FWEpoch"} -> {0, 7}
    [] field = "SignKeyInfo"          -> {Gen1Info, Gen2Info}
    [] field = "CertValidity"         -> {99}
    [] field = "HWID"                 -> {0, 101, 102}
    [] field = "HWCat"                -> {1, 4}
    [] field = "BootloaderTag"        -> {353304577}
    [] field = "FWMajorVersion"       -> {0, 1}
    [] field = "ScribeKeyID"          -> {KeyIDOf(<<0>>), DocumentedKeyID(K(31, 1))}
    [] field = "RWHash"               -> {ZeroHash}
    [] field = "QualifiedName"        -> {QualifiedName(l, K(20, 1)) : l \in BOOLEAN}

MCDamagedHeader(h) ==
  (({[h EXCEPT !.const[c] = 99] : c \in DOMAIN h.const}
     \cup UNION {{[h EXCEPT ![field] = v] : v \in FieldValues(field)}
                 : field \in DOMAIN h \ {"const"}})
   \ {h})
MCDamagedKey(k)  == {K(1, 1), K(31, 1)} \ {k}
MCDamagedHash(w) == {ZeroHash, SHA256(<<1>>)} \ {w}

\* README, "Combinations of allowed values in named fields".
Generations ==
  {[cat |-> 1, tag |-> 353304577, info |-> Gen1Info],
   [cat |-> 4, tag |-> 77005316, info |-> Gen2Info]}

\* An accepted device has a hardware category, a bootloader tag and a firmware
\* signing key of one generation: "Mixing acceptable values between
\* generations is not valid" (titan/README.md).
OneGeneration ==
  verdict = OK =>
    LET h == chain.akc.header
    IN  [cat |-> h.HWCat, tag |-> h.BootloaderTag, info |-> h.SignKeyInfo] \in Generations

=============================================================================
