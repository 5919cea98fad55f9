------------------------------- MODULE MCFleet -------------------------------
(***************************************************************************)
(* The fleet of the Dice instances: two devices, one of each generation of *)
(* the README, made by two Scribes that share a payload signing key as the *)
(* embedded roots do, and two firmwares, one of major version 0.           *)
(***************************************************************************)
EXTENDS DiceCertificates, TLC

CONSTANTS d1, d2, f1, f2, s1, s2,
          TopByte   \* most significant byte of the payload key's y coordinate

MCDevice   == {d1, d2}
MCFirmware == {f1, f2}
MCScribe   == {s1, s2}

\* The low byte of x numbers the key; KeyInfos of two keys may collide.
K(n, top)     == [x |-> <<n, 1>>, y |-> <<n, top>>]
MCPrefix4(id) == id.sha256[1] % 8

MCDeviceKey  == (d1 :> K(1, 1)) @@ (d2 :> K(9, 1))   \* one KeyInfo for both
MCAliasKey   == [df \in MCDevice \X MCFirmware |->
                   K(2 + (IF df[1] = d1 THEN 0 ELSE 2) + (IF df[2] = f1 THEN 0 ELSE 1), 1)]
\* The EK is the device's; the FEK also depends on the firmware.
MCEKKey      == [e \in MCDevice \X MCFirmware \X BOOLEAN |->
                   K(20 + (IF e[1] = d1 THEN 0 ELSE 1)
                        + (IF e[3] THEN (IF e[2] = f1 THEN 2 ELSE 4) ELSE 0), 1)]
MCPayloadKey == [s \in MCScribe |-> K(30, TopByte)]
\* s2's key has a zero top byte in y; its KeyID is also that of its twin.
MCRWKey      == (s1 :> K(31, 1)) @@ (s2 :> K(32, 0))
Twin         == [x |-> <<32, 0>>, y |-> <<1, 32>>]
MCScribeOf   == (d1 :> s1) @@ (d2 :> s2)

MCHWID           == (d1 :> 101) @@ (d2 :> 102)
MCHWCat          == (d1 :> 1) @@ (d2 :> 4)
MCBootloaderTag  == (d1 :> 353304577) @@ (d2 :> 77005316)  \* 0x150f0001, 0x04970204
MCHashesFirmware == (d1 :> FALSE) @@ (d2 :> TRUE)
MCFWHash         == (f1 :> SHA256(<<1>>)) @@ (f2 :> SHA256(<<2>>))
Gen1Info == 1   \* 0x5816db93
Gen2Info == 2   \* 0xc64d2247
MCCodeKeyInfo    == (f1 :> Gen1Info) @@ (f2 :> Gen2Info)
MCFWEpoch        == [f \in MCFirmware |-> 3]
MCFWMajorVersion == (f1 :> 0) @@ (f2 :> 1)

AllRoots == {PayloadCert(s) : s \in MCScribe} \cup {RWCert(s) : s \in MCScribe}

=============================================================================
