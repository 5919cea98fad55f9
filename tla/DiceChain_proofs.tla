-------------------------- MODULE DiceChain_proofs --------------------------
(***************************************************************************)
(* Proofs about DiceChain, for every fleet, every policy and every notion  *)
(* of damage.  They rest on KeysAssumption (no two devices share a         *)
(* DeviceID key, no two boots an alias key) and on signatures verifying    *)
(* only under the key and over the message they were made with.            *)
(*                                                                         *)
(* The argument: an accepted chain has three intact signatures, each of    *)
(* which the fleet made (SignaturesIssued); an intact signature fixes      *)
(* everything the certificate's message covers; and the DeviceID key, the  *)
(* hash of the DeviceID certificate and the rule on firmware hashes tie    *)
(* the three certificates to one device and one boot.                      *)
(*                                                                         *)
(* The converse, that the genuine is accepted and a fault blamed where it  *)
(* is, is about fleets whose payload keys have no zero top bytes           *)
(* (WholeKeys) and roots whose KeyIDs are their own (RootsDistinct).       *)
(* DiceShortKey shows what becomes of other keys, KeptRootTold of roots    *)
(* that hide each other.                                                   *)
(***************************************************************************)
EXTENDS DiceChain, DiceCertificates_proofs

------------------------------------------------------------------------------
(* Lemmas about the answers: they are about the certificates held now.     *)

\* A chain that was not checked yet is not an accepted one.
LEMMA UncheckedIsNoAnswer == Unchecked # OK
BY DEF Unchecked, OK

------------------------------------------------------------------------------
(* Lemmas about the certificates a caller can have: whatever part of one   *)
(* is damaged, its shape stays and a signature that is intact is issued.   *)

AkcFrom(c, df)   == AkcShape(c) /\ (c.sig.intact => c.sig = Akc(df[1], df[2]).sig)
DidcFrom(c, d)   == DidcShape(c) /\ (c.sig.intact => c.sig = Didc(d).sig)
DidscFrom(c, d)  == DidscShape(c) /\ (c.sig.intact => c.sig = Didsc(d).sig)
EkFrom(c, df, l) == EkShape(c) /\ (c.sig.intact => c.sig = Ekc(df[1], df[2], l).sig)

\* A damaged alias key certificate keeps its fields; an intact signature is an issued one.
LEMMA DamagedAkc ==
  ASSUME NEW df, NEW c \in {Akc(df[1], df[2])} \cup DamagedAkcs(Akc(df[1], df[2]))
  PROVE  AkcFrom(c, df)
<1> DEFINE good == Akc(df[1], df[2])
<1>1. AkcShape(good)
  BY DEF AkcShape, Akc
<1> HIDE DEF good
<1>2. c \in {good} \cup DamagedAkcs(good)
  BY DEF good
<1>3. CASE \E v : c = [good EXCEPT !.header = v]
  <2>1. PICK v : c = [good EXCEPT !.header = v]
    BY <1>3
  <2>2. AkcShape(c) /\ c.sig = good.sig
    BY <1>1, <2>1 DEF AkcShape
  <2> QED BY <2>2 DEF AkcFrom, good
<1>4. CASE \E v : c = [good EXCEPT !.pub = v]
  <2>1. PICK v : c = [good EXCEPT !.pub = v]
    BY <1>4
  <2>2. AkcShape(c) /\ c.sig = good.sig
    BY <1>1, <2>1 DEF AkcShape
  <2> QED BY <2>2 DEF AkcFrom, good
<1>5. CASE \E v : c = [good EXCEPT !.fwHash = v]
  <2>1. PICK v : c = [good EXCEPT !.fwHash = v]
    BY <1>5
  <2>2. AkcShape(c) /\ c.sig = good.sig
    BY <1>1, <2>1 DEF AkcShape
  <2> QED BY <2>2 DEF AkcFrom, good
<1>6. CASE c = [good EXCEPT !.sig = DamagedSig(good.sig)]
  <2>1. AkcShape(c) /\ c.sig = DamagedSig(good.sig)
    BY <1>1, <1>6 DEF AkcShape
  <2>2. c.sig.intact = FALSE
    BY <2>1 DEF DamagedSig, good, Akc, Sign
  <2> QED BY <2>1, <2>2 DEF AkcFrom
<1>7. CASE c = good
  BY <1>1, <1>7 DEF AkcFrom, good
<1> QED BY <1>2, <1>3, <1>4, <1>5, <1>6, <1>7 DEF DamagedAkcs

\* The same of a damaged DeviceID certificate.
LEMMA DamagedDidc ==
  ASSUME NEW d, NEW c \in {Didc(d)} \cup DamagedDidcs(Didc(d))
  PROVE  DidcFrom(c, d)
<1> DEFINE good == Didc(d)
<1>1. DidcShape(good)
  BY DEF DidcShape, Didc
<1> HIDE DEF good
<1>2. c \in {good} \cup DamagedDidcs(good)
  BY DEF good
<1>3. CASE \E v : c = [good EXCEPT !.header = v]
  <2>1. PICK v : c = [good EXCEPT !.header = v]
    BY <1>3
  <2>2. DidcShape(c) /\ c.sig = good.sig
    BY <1>1, <2>1 DEF DidcShape
  <2> QED BY <2>2 DEF DidcFrom, good
<1>4. CASE \E v : c = [good EXCEPT !.key = v]
  <2>1. PICK v : c = [good EXCEPT !.key = v]
    BY <1>4
  <2>2. DidcShape(c) /\ c.sig = good.sig
    BY <1>1, <2>1 DEF DidcShape
  <2> QED BY <2>2 DEF DidcFrom, good
<1>5. CASE c = [good EXCEPT !.sig = DamagedSig(good.sig)]
  <2>1. DidcShape(c) /\ c.sig = DamagedSig(good.sig)
    BY <1>1, <1>5 DEF DidcShape
  <2>2. c.sig.intact = FALSE
    BY <2>1 DEF DamagedSig, good, Didc, Sign
  <2> QED BY <2>1, <2>2 DEF DidcFrom
<1>6. CASE c = good
  BY <1>1, <1>6 DEF DidcFrom, good
<1> QED BY <1>2, <1>3, <1>4, <1>5, <1>6 DEF DamagedDidcs

\* The same of a damaged DeviceIDScribe certificate.
LEMMA DamagedDidsc ==
  ASSUME NEW d, NEW c \in {Didsc(d)} \cup DamagedDidscs(Didsc(d))
  PROVE  DidscFrom(c, d)
<1> DEFINE good == Didsc(d)
<1>1. DidscShape(good)
  BY DEF DidscShape, Didsc
<1> HIDE DEF good
<1>2. c \in {good} \cup DamagedDidscs(good)
  BY DEF good
<1>3. CASE \E v : c = [good EXCEPT !.certHash = v]
  <2>1. PICK v : c = [good EXCEPT !.certHash = v]
    BY <1>3
  <2>2. DidscShape(c) /\ c.sig = good.sig
    BY <1>1, <2>1 DEF DidscShape
  <2> QED BY <2>2 DEF DidscFrom, good
<1>4. CASE \E v : c = [good EXCEPT !.scribeRWKey = v]
  <2>1. PICK v : c = [good EXCEPT !.scribeRWKey = v]
    BY <1>4
  <2>2. DidscShape(c) /\ c.sig = good.sig
    BY <1>1, <2>1 DEF DidscShape
  <2> QED BY <2>2 DEF DidscFrom, good
<1>5. CASE c = [good EXCEPT !.sig = DamagedSig(good.sig)]
  <2>1. DidscShape(c) /\ c.sig = DamagedSig(good.sig)
    BY <1>1, <1>5 DEF DidscShape
  <2>2. c.sig.intact = FALSE
    BY <2>1 DEF DamagedSig, good, Didsc, Sign
  <2> QED BY <2>1, <2>2 DEF DidscFrom
<1>6. CASE c = good
  BY <1>1, <1>6 DEF DidscFrom, good
<1> QED BY <1>2, <1>3, <1>4, <1>5, <1>6 DEF DamagedDidscs

\* The same of a damaged EK certificate.
LEMMA DamagedEkc ==
  ASSUME NEW df, NEW l, NEW c \in {Ekc(df[1], df[2], l)} \cup DamagedEkcs(Ekc(df[1], df[2], l))
  PROVE  EkFrom(c, df, l)
<1> DEFINE good == Ekc(df[1], df[2], l)
<1>1. EkShape(good)
  BY DEF EkShape, Ekc
<1> HIDE DEF good
<1>2. c \in {good} \cup DamagedEkcs(good)
  BY DEF good
<1>3. CASE \E v : c = [good EXCEPT !.header = v]
  <2>1. PICK v : c = [good EXCEPT !.header = v]
    BY <1>3
  <2>2. EkShape(c) /\ c.sig = good.sig
    BY <1>1, <2>1 DEF EkShape
  <2> QED BY <2>2 DEF EkFrom, good
<1>4. CASE \E v : c = [good EXCEPT !.pub = v]
  <2>1. PICK v : c = [good EXCEPT !.pub = v]
    BY <1>4
  <2>2. EkShape(c) /\ c.sig = good.sig
    BY <1>1, <2>1 DEF EkShape
  <2> QED BY <2>2 DEF EkFrom, good
<1>5. CASE c = [good EXCEPT !.sig = DamagedSig(good.sig)]
  <2>1. EkShape(c) /\ c.sig = DamagedSig(good.sig)
    BY <1>1, <1>5 DEF EkShape
  <2>2. c.sig.intact = FALSE
    BY <2>1 DEF DamagedSig, good, Ekc, Sign
  <2> QED BY <2>1, <2>2 DEF EkFrom
<1>6. CASE c = good
  BY <1>1, <1>6 DEF EkFrom, good
<1> QED BY <1>2, <1>3, <1>4, <1>5, <1>6 DEF DamagedEkcs

\* Whatever chain a caller receives, its shape is that of a chain and its
\* intact signatures were made by the fleet.
ChainFrom(c) ==
  /\ c = [akc |-> c.akc, didc |-> c.didc, didsc |-> c.didsc]
  /\ \E df \in booted : AkcFrom(c.akc, df)
  /\ \E d \in provisioned : DidcFrom(c.didc, d)
  /\ \E d \in provisioned : DidscFrom(c.didsc, d)

\* Every chain a caller can hold has its fields, and intact signatures of the fleet only.
LEMMA ReceivedChain ==
  ASSUME NEW c \in IssuedChains \cup DamagedChains
  PROVE  ChainFrom(c)
<1>1. PICK g \in IssuedChains :
        \/ c = g
        \/ \E a \in DamagedAkcs(g.akc) : c = [g EXCEPT !.akc = a]
        \/ \E a \in DamagedDidcs(g.didc) : c = [g EXCEPT !.didc = a]
        \/ \E a \in DamagedDidscs(g.didsc) : c = [g EXCEPT !.didsc = a]
  <2>1. CASE c \in IssuedChains
    BY <2>1
  <2>2. CASE c \in DamagedChains
    BY <2>2 DEF DamagedChains
  <2> QED BY <2>1, <2>2
<1>2. PICK df \in booted, d1 \in provisioned, d2 \in provisioned :
        g = [akc |-> Akc(df[1], df[2]), didc |-> Didc(d1), didsc |-> Didsc(d2)]
  BY DEF IssuedChains
<1>3. /\ c = [akc |-> c.akc, didc |-> c.didc, didsc |-> c.didsc]
      /\ c.akc \in {Akc(df[1], df[2])} \cup DamagedAkcs(Akc(df[1], df[2]))
      /\ c.didc \in {Didc(d1)} \cup DamagedDidcs(Didc(d1))
      /\ c.didsc \in {Didsc(d2)} \cup DamagedDidscs(Didsc(d2))
  BY <1>1, <1>2
<1>4. AkcFrom(c.akc, df)
  BY <1>3, DamagedAkc
<1>5. DidcFrom(c.didc, d1)
  BY <1>3, DamagedDidc
<1>6. DidscFrom(c.didsc, d2)
  BY <1>3, DamagedDidsc
<1> QED BY <1>3, <1>4, <1>5, <1>6 DEF ChainFrom

\* The same of the EK certificate a caller presents.
LEMMA ReceivedEk ==
  ASSUME NEW c \in IssuedEkcs \cup AllDamagedEkcs
  PROVE  \E df \in booted, l \in EKKinds : EkFrom(c, df, l)
<1>1. PICK g \in IssuedEkcs : c \in {g} \cup DamagedEkcs(g)
  BY DEF AllDamagedEkcs
<1>2. PICK df \in booted, l \in EKKinds : g = Ekc(df[1], df[2], l)
  BY DEF IssuedEkcs
<1>3. EkFrom(c, df, l)
  BY <1>1, <1>2, DamagedEkc
<1> QED BY <1>3

------------------------------------------------------------------------------
(* The inductive invariant.                                                *)

\* A new session satisfies the invariant.
LEMMA InitIInv == Init => IInv
<1> SUFFICES ASSUME Init PROVE IInv
  OBVIOUS
<1>1. TypeOK
  <2>1. << >> \in NewValidatorMaps({})
    BY DEF NewValidatorMaps
  <2> QED BY <2>1 DEF Init, TypeOK, NoPolicy
<1>2. SignaturesIssued /\ ShapesKept
  BY DEF Init, SignaturesIssued, ShapesKept
<1>3. AnswersCurrent
  BY DEF Init, AnswersCurrent, Unchecked, OK
<1> QED BY <1>1, <1>2, <1>3 DEF IInv

\* The fleet only grows, and while no chain is in hand no answer depends on it.
LEMMA FleetStep ==
  ASSUME IInv, chain = NoChain,
         provisioned \subseteq provisioned', booted \subseteq booted',
         provisioned' \subseteq Device, booted' \subseteq provisioned' \X Firmware,
         UNCHANGED <<policy, scribes, chain, verdict, ek>>
  PROVE  IInv'
<1>1. TypeOK'
  BY DEF IInv, TypeOK, NewValidatorMaps
<1>2. SignaturesIssued'
  BY DEF IInv, SignaturesIssued, TypeOK
<1>3. ShapesKept'
  BY DEF IInv, ShapesKept
<1>4. AnswersCurrent'
  BY DEF IInv, AnswersCurrent
<1> QED BY <1>1, <1>2, <1>3, <1>4 DEF IInv

\* A device made keeps the invariant.
LEMMA ProvisionIInv == ASSUME IInv, NEW d \in Device, Provision(d) PROVE IInv'
<1>1. provisioned' \subseteq Device /\ booted' \subseteq provisioned' \X Firmware
  BY DEF IInv, TypeOK, Provision
<1> QED BY <1>1, FleetStep DEF Provision

\* A device booting a firmware keeps the invariant.
LEMMA BootIInv ==
  ASSUME IInv, NEW d \in Device, NEW f \in Firmware, Boot(d, f) PROVE IInv'
<1>1. provisioned' \subseteq Device /\ booted' \subseteq provisioned' \X Firmware
  BY DEF IInv, TypeOK, Boot
<1> QED BY <1>1, FleetStep DEF Boot

\* A new session keeps it: it holds no certificate and no answer.
LEMMA NewValidatorIInv == ASSUME IInv, NewValidator PROVE IInv'
<1>1. TypeOK'
  BY DEF IInv, TypeOK, NewValidator, NewValidatorMaps
<1>2. SignaturesIssued' /\ ShapesKept'
  BY DEF IInv, NewValidator, SignaturesIssued, ShapesKept
<1>3. AnswersCurrent'
  BY DEF IInv, NewValidator, AnswersCurrent
<1> QED BY <1>1, <1>2, <1>3 DEF IInv

\* A chain taken up keeps it: its intact signatures are the fleet's.
LEMMA ReceiveIInv == ASSUME IInv, Receive PROVE IInv'
<1>1. ek = NoEk
  BY DEF IInv, TypeOK, Receive
<1>2. TypeOK'
  BY <1>1 DEF IInv, TypeOK, Receive, NewValidatorMaps
<1>3. ChainFrom(chain')
  BY ReceivedChain DEF Receive
<1>4. SignaturesIssued'
  BY <1>1, <1>3 DEF Receive, SignaturesIssued, ChainFrom, AkcFrom, DidcFrom, DidscFrom
<1>5. ShapesKept'
  BY <1>1, <1>3 DEF Receive, ShapesKept, ChainFrom, AkcFrom, DidcFrom, DidscFrom
<1>6. AnswersCurrent'
  BY <1>1 DEF Receive, AnswersCurrent, Unchecked, OK
<1> QED BY <1>2, <1>4, <1>5, <1>6 DEF IInv

\* Validating a chain keeps it: the answer is about the chain held.
LEMMA ValidateChainIInv == ASSUME IInv, ValidateChain PROVE IInv'
<1>1. TypeOK' /\ SignaturesIssued' /\ ShapesKept'
  BY DEF IInv, TypeOK, SignaturesIssued, ShapesKept, ValidateChain, NewValidatorMaps
<1>2. AnswersCurrent'
  BY DEF IInv, AnswersCurrent, ValidateChain, OK
<1> QED BY <1>1, <1>2 DEF IInv

\* Validating an EK certificate keeps it, whichever certificate it is.
LEMMA ValidateEkIInv == ASSUME IInv, ValidateEk PROVE IInv'
<1>1. PICK limited \in EKKinds, c \in IssuedEkcs \cup AllDamagedEkcs :
        ek' = [cert |-> c, limited |-> limited,
               err |-> ValidateEKCertificate(c, chain.akc, limited).err,
               template |-> ValidateEKCertificate(c, chain.akc, limited).template]
  BY DEF ValidateEk
<1>2. UNCHANGED <<provisioned, booted, policy, scribes, chain, verdict>> /\ chain # NoChain
  BY DEF ValidateEk
<1>3. PICK df \in booted, l \in EKKinds : EkFrom(c, df, l)
  BY ReceivedEk
<1>4. TypeOK'
  BY <1>1, <1>2 DEF IInv, TypeOK, NewValidatorMaps
<1>5. SignaturesIssued'
  BY <1>1, <1>2, <1>3 DEF IInv, SignaturesIssued, EkFrom
<1>6. ShapesKept'
  BY <1>1, <1>2, <1>3 DEF IInv, ShapesKept, EkFrom
<1>7. AnswersCurrent'
  BY <1>1, <1>2 DEF IInv, AnswersCurrent
<1> QED BY <1>4, <1>5, <1>6, <1>7 DEF IInv

\* Dropping the chain keeps it: its answers go with it.
LEMMA ForgetIInv == ASSUME IInv, Forget PROVE IInv'
<1>1. TypeOK' /\ SignaturesIssued' /\ ShapesKept'
  BY DEF IInv, TypeOK, SignaturesIssued, ShapesKept, Forget, NewValidatorMaps
<1>2. AnswersCurrent'
  BY DEF Forget, AnswersCurrent, Unchecked, OK
<1> QED BY <1>1, <1>2 DEF IInv

\* So does a step that changes nothing.
LEMMA StutterIInv == ASSUME IInv, UNCHANGED vars PROVE IInv'
BY DEF IInv, TypeOK, SignaturesIssued, ShapesKept, AnswersCurrent, vars, NewValidatorMaps

\* The invariant of every session: the state is well typed, intact signatures
\* are the fleet's, and the answers kept are those of the certificates at hand.
THEOREM SessionInvariant == Spec => []IInv
<1>1. Init => IInv
  BY InitIInv
<1>2. IInv /\ [Next]_vars => IInv'
  <2> SUFFICES ASSUME IInv, [Next]_vars PROVE IInv'
    OBVIOUS
  <2>1. CASE \E d \in Device : Provision(d)
    BY <2>1, ProvisionIInv
  <2>2. CASE \E d \in Device, f \in Firmware : Boot(d, f)
    BY <2>2, BootIInv
  <2>3. CASE NewValidator
    BY <2>3, NewValidatorIInv
  <2>4. CASE Receive
    BY <2>4, ReceiveIInv
  <2>5. CASE ValidateChain
    BY <2>5, ValidateChainIInv
  <2>6. CASE ValidateEk
    BY <2>6, ValidateEkIInv
  <2>7. CASE Forget
    BY <2>7, ForgetIInv
  <2>8. CASE UNCHANGED vars
    BY <2>8, StutterIInv
  <2> QED BY <2>1, <2>2, <2>3, <2>4, <2>5, <2>6, <2>7, <2>8 DEF Next
<1> QED BY <1>1, <1>2, PTL DEF Spec

\* Type correctness, for every fleet and policy.
THEOREM TypeCorrect == Spec => []TypeOK
<1>1. IInv => TypeOK
  BY DEF IInv
<1> QED BY <1>1, SessionInvariant, PTL

------------------------------------------------------------------------------
(* Authenticity.                                                           *)

\* What the map of a validator holds under a KeyID is a root of its policy, of a
\* type and a subject.
LEMMA TrustedRoot ==
  ASSUME TypeOK, NEW id \in DOMAIN scribes
  PROVE  /\ scribes[id] \in policy.roots
         /\ scribes[id] = [type |-> scribes[id].type, subject |-> scribes[id].subject]
<1>1. scribes[id] \in policy.roots
  BY DEF TypeOK, NewValidatorMaps
<1>2. policy \in Policies
  BY <1>1 DEF TypeOK, NoPolicy
<1> QED BY <1>1, <1>2, PoliciesAssumption

\* An accepted chain is in hand, and it is the one that was accepted.
LEMMA AcceptedChain ==
  ASSUME IInv, verdict = OK
  PROVE  chain # NoChain /\ ValidateScribeCertificateChain(chain, scribes, policy.infos) = OK
BY UncheckedIsNoAnswer DEF IInv, AnswersCurrent, NilChain, OK

\* An accepted DeviceID certificate is a provisioned device's.
LEMMA DidcAuthentic ==
  ASSUME IInv, chain # NoChain, validateDeviceIDCertificate(chain.didc, scribes) = OK
  PROVE  \E d \in provisioned :
           chain.didc = Didc(d) /\ PayloadCert(ScribeOf[d]) \in policy.roots
<1>1. DidcShape(chain.didc)
      /\ (chain.didc.sig.intact => \E d \in provisioned : chain.didc.sig = Didc(d).sig)
  BY DEF IInv, ShapesKept, SignaturesIssued
<1>2. PICK d \in provisioned : /\ chain.didc = Didc(d)
                               /\ \E id \in DOMAIN scribes :
                                    /\ scribes[id].type = SelfSignedScribeType
                                    /\ scribes[id].subject = PayloadKey[ScribeOf[d]]
  BY <1>1, AuthenticDidc
<1>3. PayloadCert(ScribeOf[d]) \in policy.roots
  BY <1>2, TrustedRoot DEF PayloadCert, IInv
<1> QED BY <1>2, <1>3

\* Its alias key certificate is that of a boot of this same device.
LEMMA AkcAuthentic ==
  ASSUME IInv, verdict = OK, NEW d \in provisioned, chain.didc = Didc(d)
  PROVE  \E df \in booted :
           /\ df[1] = d
           /\ chain.akc = Akc(df[1], df[2])
           /\ CodeKeyInfo[df[2]] \in policy.infos
<1>1. /\ AkcShape(chain.akc)
      /\ chain.akc.sig.intact => \E df \in booted : chain.akc.sig = Akc(df[1], df[2]).sig
  BY AcceptedChain DEF IInv, ShapesKept, SignaturesIssued
<1>2. validateAliasKeyCertificate(chain.akc, Didc(d), policy.infos) = OK
  BY ChainAccepted, AcceptedChain
<1>3. d \in Device /\ booted \subseteq Device \X Firmware
  BY DEF IInv, TypeOK
<1> QED BY <1>1, <1>2, <1>3, AuthenticAkc

\* And its DeviceIDScribe certificate, which names no device, is this one's.
LEMMA DidscAuthentic ==
  ASSUME IInv, verdict = OK, NEW d \in provisioned, chain.didc = Didc(d)
  PROVE  chain.didsc = Didsc(d) /\ RWCert(ScribeOf[d]) \in policy.roots
<1>1. /\ DidscShape(chain.didsc)
      /\ chain.didsc.sig.intact => \E e \in provisioned : chain.didsc.sig = Didsc(e).sig
  BY AcceptedChain DEF IInv, ShapesKept, SignaturesIssued
<1>2. validateDeviceIDScribeCertificate(chain.didsc, Didc(d), scribes) = OK
  BY ChainAccepted, AcceptedChain
<1>3. d \in Device /\ provisioned \subseteq Device
  BY DEF IInv, TypeOK
<1>4. /\ chain.didsc = Didsc(d)
      /\ \E id \in DOMAIN scribes : /\ scribes[id].type = TitanScribeType
                                    /\ scribes[id].subject = RWKey[ScribeOf[d]]
  BY <1>1, <1>2, <1>3, AuthenticDidsc
<1>5. RWCert(ScribeOf[d]) \in policy.roots
  BY <1>4, TrustedRoot DEF RWCert, IInv
<1> QED BY <1>4, <1>5

\* The invariant decides whose an accepted chain is.
LEMMA IInvChainAuthentic == IInv => ChainAuthentic
<1> SUFFICES ASSUME IInv, verdict = OK
             PROVE  \E df \in booted : chain = Chain(df[1], df[2]) /\ Covered(df[1], df[2])
  BY DEF ChainAuthentic
<1>1. PICK d \in provisioned :
        chain.didc = Didc(d) /\ PayloadCert(ScribeOf[d]) \in policy.roots
  BY AcceptedChain, ChainAccepted, DidcAuthentic
<1>2. PICK df \in booted : /\ df[1] = d
                           /\ chain.akc = Akc(df[1], df[2])
                           /\ CodeKeyInfo[df[2]] \in policy.infos
  BY <1>1, AkcAuthentic
<1>3. chain.didsc = Didsc(d) /\ RWCert(ScribeOf[d]) \in policy.roots
  BY <1>1, DidscAuthentic
<1>4. chain = [akc |-> chain.akc, didc |-> chain.didc, didsc |-> chain.didsc]
  BY AcceptedChain DEF IInv, ShapesKept
<1>5. chain = Chain(df[1], df[2])
  BY <1>1, <1>2, <1>3, <1>4 DEF Chain
<1> QED BY <1>1, <1>2, <1>3, <1>5 DEF Covered

\* A chain ValidateScribeCertificateChain accepts is that of one provisioned
\* device and one firmware it booted, both covered by the policy, whatever
\* certificates are mixed and however one of them is damaged.
THEOREM ChainAuthenticity == Spec => []ChainAuthentic
BY SessionInvariant, IInvChainAuthentic, PTL

\* And whose an accepted EK certificate is, and of which kind.
LEMMA IInvEkAuthentic == IInv => EkAuthentic
<1> SUFFICES ASSUME IInv, verdict = OK, ek.err = OK
             PROVE  \E df \in booted :
                      /\ chain = Chain(df[1], df[2])
                      /\ ek.cert = Ekc(df[1], df[2], ek.limited)
                      /\ ek.template = Template(ek.limited, EKKey[<<df[1], df[2], ek.limited>>])
  BY DEF EkAuthentic
<1>1. PICK df \in booted : chain = Chain(df[1], df[2])
  BY IInvChainAuthentic DEF ChainAuthentic
<1>2. ek # NoEk
  BY UncheckedIsNoAnswer DEF NoEk
<1>3. /\ VerifyECDSATitan(AliasKey[<<df[1], df[2]>>], serializeEKCertificate(ek.cert), ek.cert.sig)
      /\ ek.cert.header.QualifiedName = QualifiedName(ek.limited, ek.cert.pub)
      /\ ek.template = Template(ek.limited, ek.cert.pub)
  <2>1. chain.akc.pub = AliasKey[<<df[1], df[2]>>]
    BY <1>1 DEF Chain, Akc
  <2> DEFINE result == ValidateEKCertificate(ek.cert, chain.akc, ek.limited)
  <2>2. result.err = OK /\ ek.template = result.template
    BY <1>2 DEF IInv, AnswersCurrent
  <2>3. /\ VerifyECDSATitan(chain.akc.pub, serializeEKCertificate(ek.cert), ek.cert.sig)
        /\ ek.cert.header.QualifiedName = QualifiedName(ek.limited, ek.cert.pub)
        /\ result.template = Template(ek.limited, ek.cert.pub)
    BY <2>2, EkAccepted
  <2> QED BY <2>1, <2>2, <2>3
<1>4. PICK eg \in booted, kind \in EKKinds : ek.cert.sig = Ekc(eg[1], eg[2], kind).sig
  BY <1>2, <1>3 DEF IInv, SignaturesIssued, VerifyECDSATitan
<1>5. /\ AliasKey[<<eg[1], eg[2]>>] = AliasKey[<<df[1], df[2]>>]
      /\ <<ek.cert.header, ek.cert.pub>>
           = <<EkHeader(eg[1], eg[2], kind), EKKey[<<eg[1], eg[2], kind>>]>>
  <2>1. /\ ek.cert.sig.key = AliasKey[<<eg[1], eg[2]>>]
        /\ ek.cert.sig.msg = <<EkHeader(eg[1], eg[2], kind), EKKey[<<eg[1], eg[2], kind>>]>>
    <3>1. Ekc(eg[1], eg[2], kind).sig
            = Sign(AliasKey[<<eg[1], eg[2]>>],
                   <<EkHeader(eg[1], eg[2], kind), EKKey[<<eg[1], eg[2], kind>>]>>)
      BY DEF Ekc
    <3> QED BY <1>4, <3>1, SignedBy
  <2> QED BY <1>3, <2>1 DEF VerifyECDSATitan, serializeEKCertificate
<1>6. eg = df
  <2>1. booted \subseteq Device \X Firmware
    BY DEF IInv, TypeOK
  <2>2. df = <<df[1], df[2]>> /\ eg = <<eg[1], eg[2]>>
    BY <2>1
  <2>3. AliasKey[eg] = AliasKey[df]
    BY <1>5, <2>2
  <2> QED BY <2>1, <2>3, KeysAssumption
<1>7. kind = ek.limited
  <2>1. QualifiedName(kind, ek.cert.pub) = QualifiedName(ek.limited, ek.cert.pub)
    <3>1. ek.cert.header = EkHeader(eg[1], eg[2], kind) /\ ek.cert.pub = EKKey[<<eg[1], eg[2], kind>>]
      BY <1>5
    <3>2. EkHeader(eg[1], eg[2], kind).QualifiedName
            = QualifiedName(kind, EKKey[<<eg[1], eg[2], kind>>])
      BY DEF EkHeader
    <3> QED BY <1>3, <3>1, <3>2
  <2>2. kind \in BOOLEAN /\ ek.limited \in BOOLEAN
    BY <1>2, KindsAssumption DEF IInv, TypeOK
  <2>3. (IF kind THEN "FWEndorsement" ELSE "Endorsement")
          = (IF ek.limited THEN "FWEndorsement" ELSE "Endorsement")
    BY <2>1 DEF QualifiedName, computePrimaryQualifiedName, SHA256
  <2> QED BY <2>2, <2>3
<1>8. ek.cert = Ekc(df[1], df[2], ek.limited)
  <2>1. ek.cert = [header |-> ek.cert.header, pub |-> ek.cert.pub, sig |-> ek.cert.sig]
    BY <1>2 DEF IInv, ShapesKept, EkShape
  <2>2. Ekc(eg[1], eg[2], kind) = [header |-> EkHeader(eg[1], eg[2], kind),
                                   pub |-> EKKey[<<eg[1], eg[2], kind>>],
                                   sig |-> Ekc(eg[1], eg[2], kind).sig]
    BY DEF Ekc
  <2>3. ek.cert.header = EkHeader(eg[1], eg[2], kind) /\ ek.cert.pub = EKKey[<<eg[1], eg[2], kind>>]
    BY <1>5
  <2>4. ek.cert = Ekc(eg[1], eg[2], kind)
    BY <1>4, <2>1, <2>2, <2>3
  <2> QED BY <1>6, <1>7, <2>4
<1>9. ek.cert.pub = EKKey[<<df[1], df[2], ek.limited>>]
  <2>1. Ekc(df[1], df[2], ek.limited).pub = EKKey[<<df[1], df[2], ek.limited>>]
    BY DEF Ekc
  <2> QED BY <1>8, <2>1
<1> QED BY <1>1, <1>3, <1>8, <1>9

\* The key template ValidateEKCertificate returns along with an accepted chain
\* is the EK's or FEK's of the device and firmware that chain attests, and of
\* the kind the caller asked for.
THEOREM EkAuthenticity == Spec => []EkAuthentic
BY SessionInvariant, IInvEkAuthentic, PTL

------------------------------------------------------------------------------
(* Completeness: what is genuine is accepted, and what is not is blamed on *)
(* the certificate at fault.                                               *)

\* An answer about an EK certificate is the one ValidateEKCertificate gave.
LEMMA IInvEkKindDecided == IInv => EkKindDecided
<1> SUFFICES ASSUME IInv, NEW df \in booted, NEW l \in EKKinds, ek # NoEk,
                    chain.akc = Akc(df[1], df[2]), ek.cert = Ekc(df[1], df[2], l)
             PROVE  (ek.err = OK) = (ek.limited = l)
  BY DEF EkKindDecided
<1>1. ek.err = ValidateEKCertificate(Ekc(df[1], df[2], l), Akc(df[1], df[2]), ek.limited).err
  BY DEF IInv, AnswersCurrent
<1>2. l \in BOOLEAN /\ ek.limited \in BOOLEAN
  BY KindsAssumption DEF IInv, TypeOK
<1>3. ek.err = OK => ek.limited = l
  BY <1>1, <1>2, OtherEkRefused
<1>4. ek.limited = l => ek.err = OK
  BY <1>1, GenuineEkAccepted
<1> QED BY <1>3, <1>4

\* Of a genuine certificate of a device's EK or FEK, ValidateEKCertificate
\* accepts the kind it is asked for and no other, whatever the version.
THEOREM EkKind == Spec => []EkKindDecided
BY SessionInvariant, IInvEkKindDecided, PTL

\* A root is found under the KeyID of its subject when no other has that KeyID.
LEMMA RootFound ==
  ASSUME TypeOK, RootsDistinct, NEW c \in policy.roots
  PROVE  /\ ComputeKeyIDECDSA(c.subject) \in DOMAIN scribes
         /\ scribes[ComputeKeyIDECDSA(c.subject)] = c
<1>1. policy \in Policies
  BY DEF TypeOK, NoPolicy
<1> DEFINE id == ComputeKeyIDECDSA(c.subject)
<1>2. id \in DOMAIN scribes /\ scribes[id] \in policy.roots
  BY DEF TypeOK, NewValidatorMaps
<1>3. ComputeKeyIDECDSA(scribes[id].subject) = id
  BY <1>2 DEF TypeOK, NewValidatorMaps
<1> QED BY <1>1, <1>2, <1>3 DEF RootsDistinct

\* The certificates of a booted, covered device, each accepted by its function.
LEMMA GenuineAccepted ==
  ASSUME TypeOK, WholeKeys, RootsDistinct,
         NEW df \in booted, Covered(df[1], df[2])
  PROVE  /\ validateAliasKeyCertificate(Akc(df[1], df[2]), Didc(df[1]), policy.infos) = OK
         /\ validateDeviceIDCertificate(Didc(df[1]), scribes) = OK
         /\ validateDeviceIDScribeCertificate(Didsc(df[1]), Didc(df[1]), scribes) = OK
<1> DEFINE payload == PayloadKey[ScribeOf[df[1]]]
           rw == RWKey[ScribeOf[df[1]]]
<1>1. df[1] \in Device /\ df[2] \in Firmware
  BY DEF TypeOK
<1>2. ComputeKeyIDECDSA(payload) = DocumentedKeyID(payload)
  <2>1. IsCoordinate(payload.x) /\ IsCoordinate(payload.y) /\ WholeKey(payload)
    BY <1>1, KeysAreKeys DEF WholeKeys, IsKey
  <2> HIDE DEF payload
  <2> QED BY <2>1, KeyIDAsDocumented
<1>3. /\ ComputeKeyIDECDSA(payload) \in DOMAIN scribes
      /\ scribes[ComputeKeyIDECDSA(payload)] = PayloadCert(ScribeOf[df[1]])
  <2>1. PayloadCert(ScribeOf[df[1]]) \in policy.roots
    BY DEF Covered
  <2>2. PayloadCert(ScribeOf[df[1]]).subject = payload
    BY DEF PayloadCert
  <2> QED BY <2>1, <2>2, RootFound
<1>4. /\ ComputeKeyIDECDSA(rw) \in DOMAIN scribes
      /\ scribes[ComputeKeyIDECDSA(rw)] = RWCert(ScribeOf[df[1]])
  <2>1. RWCert(ScribeOf[df[1]]) \in policy.roots
    BY DEF Covered
  <2>2. RWCert(ScribeOf[df[1]]).subject = rw
    BY DEF RWCert
  <2> QED BY <2>1, <2>2, RootFound
<1>5. CodeKeyInfo[df[2]] \in policy.infos
  BY DEF Covered
<1> QED BY <1>1, <1>2, <1>3, <1>4, <1>5,
           GenuineAkcAccepted, GenuineDidcAccepted, GenuineDidscAccepted

\* The answer about a chain in hand is that of ValidateScribeCertificateChain.
LEMMA VerdictCurrent ==
  ASSUME IInv, verdict # Unchecked, chain # NoChain
  PROVE  verdict = ValidateScribeCertificateChain(chain, scribes, policy.infos)
BY DEF IInv, AnswersCurrent

\* A genuine chain is not the nil one.
LEMMA GenuineIsNotNil ==
  ASSUME NEW d, NEW f
  PROVE  Chain(d, f) # NoChain
<1>1. DOMAIN Chain(d, f) = {"akc", "didc", "didsc"}
  BY DEF Chain
<1>2. DOMAIN NoChain = {"akc"}
  BY DEF NoChain
<1> QED BY <1>1, <1>2

\* A genuine chain a policy covers gets no error.
LEMMA IInvGenuineChainAccepted ==
  ASSUME WholeKeys, RootsDistinct
  PROVE  IInv => GenuineChainAccepted
<1> SUFFICES ASSUME IInv, NEW df \in booted, chain = Chain(df[1], df[2]),
                    verdict # Unchecked, Covered(df[1], df[2])
             PROVE  verdict = OK
  BY DEF GenuineChainAccepted
<1>1. verdict = ValidateScribeCertificateChain(chain, scribes, policy.infos)
  BY GenuineIsNotNil, VerdictCurrent
<1>2. /\ chain.akc = Akc(df[1], df[2])
      /\ chain.didc = Didc(df[1])
      /\ chain.didsc = Didsc(df[1])
  BY DEF Chain
<1>3. /\ validateAliasKeyCertificate(chain.akc, chain.didc, policy.infos) = OK
      /\ validateDeviceIDCertificate(chain.didc, scribes) = OK
      /\ validateDeviceIDScribeCertificate(chain.didsc, chain.didc, scribes) = OK
  BY <1>2, GenuineAccepted DEF IInv
<1> QED BY <1>1, <1>3, OrElseOK DEF ValidateScribeCertificateChain

\* ValidateScribeCertificateChain accepts every genuine chain its options cover,
\* of a device that hashes its firmware or of one that does not, as long as the
\* payload keys have no zero top byte and no root hides another.
THEOREM GenuineAccepts ==
  ASSUME WholeKeys, RootsDistinct
  PROVE  Spec => []GenuineChainAccepted
BY SessionInvariant, IInvGenuineChainAccepted, PTL

\* What a validator holds under the KeyID of one of its roots.
LEMMA KeptRoot ==
  ASSUME TypeOK, NEW root \in policy.roots
  PROVE  LET id == ComputeKeyIDECDSA(root.subject)
         IN  /\ id \in DOMAIN scribes
             /\ scribes[id] = [type |-> scribes[id].type, subject |-> scribes[id].subject]
<1> DEFINE id == ComputeKeyIDECDSA(root.subject)
<1>1. id \in DOMAIN scribes
  BY DEF TypeOK, NewValidatorMaps
<1> QED BY <1>1, TrustedRoot

\* Where another root hides a covered device's payload root, its DeviceID certificate
\* names that other root, which has another type or another key.
LEMMA HiddenPayloadBlamed ==
  ASSUME WholeKeys, TypeOK, NEW d \in Device,
         PayloadCert(ScribeOf[d]) \in policy.roots, Hidden(PayloadCert(ScribeOf[d]))
  PROVE  validateDeviceIDCertificate(Didc(d), scribes) \in {"DIDC"} \X {"ScribeType", "Signature"}
<1> DEFINE key == PayloadKey[ScribeOf[d]]
           didc == Didc(d)
           id == didc.header.ScribeKeyID
           checks == DidcChecks(didc, scribes)
<1>1. /\ id = DocumentedKeyID(key)
      /\ Prefix4(id) = didc.header.KeyInfo
      /\ didc.header.const = DidcConst
      /\ didc.sig.key = key
  BY DEF Didc, DidcHeader, Sign
<1>2. ComputeKeyIDECDSA(key) = DocumentedKeyID(key)
  BY KeysAreKeys, KeyIDAsDocumented DEF IsKey, WholeKeys
<1>3. /\ id \in DOMAIN scribes
      /\ scribes[id] = [type |-> scribes[id].type, subject |-> scribes[id].subject]
      /\ scribes[id] # [type |-> SelfSignedScribeType, subject |-> key]
  <2>1. PayloadCert(ScribeOf[d]) = [type |-> SelfSignedScribeType, subject |-> key]
    BY DEF PayloadCert
  <2> QED BY <1>1, <1>2, <2>1, KeptRoot DEF Hidden
<1> HIDE DEF key, didc
<1>4. DOMAIN checks = 1 .. 4 /\ checks[1].holds /\ checks[2].holds
  <2>1. DOMAIN checks = 1 .. 4
    BY DEF DidcChecks
  <2>2. checks[1].holds /\ checks[2].holds
    BY <1>1, <1>3 DEF DidcChecks, Check
  <2> QED BY <2>1, <2>2
<1>5. ~(checks[3].holds /\ checks[4].holds)
  BY <1>1, <1>3 DEF DidcChecks, Check, VerifyECDSATitan
<1>6. FirstError(checks) \in {"DIDC"} \X {"ScribeType", "Signature"}
  <2>1. ~AllHold(checks)
    BY <1>4, <1>5 DEF AllHold
  <2>2. PICK i \in 1 .. 4 : ~checks[i].holds
                           /\ FirstError(checks) = <<checks[i].cert, checks[i].field>>
    <3> HIDE DEF checks
    <3> QED BY <1>4, <2>1, FirstErrorFirst
  <2>3. i \in {3, 4}
    BY <1>4, <2>2
  <2>4. checks[i].cert = "DIDC" /\ checks[i].field \in {"ScribeType", "Signature"}
    BY <2>3 DEF DidcChecks, Check
  <2> QED BY <2>2, <2>4
<1>7. ConstError("DIDC", DidcConstOrder, DidcConst, didc.header.const) = OK
  BY <1>1, ConstantsRight
<1> QED BY <1>6, <1>7, OrElseEither DEF validateDeviceIDCertificate, didc

\* And likewise its DeviceIDScribe certificate where the RW root is hidden.
LEMMA HiddenRWBlamed ==
  ASSUME TypeOK, NEW d \in Device,
         RWCert(ScribeOf[d]) \in policy.roots, Hidden(RWCert(ScribeOf[d]))
  PROVE  validateDeviceIDScribeCertificate(Didsc(d), Didc(d), scribes)
           \in {"DIDSC"} \X {"ScribeType", "Signature"}
<1> DEFINE key == RWKey[ScribeOf[d]]
           didsc == Didsc(d)
           didc == Didc(d)
           id == ComputeKeyIDECDSA(didsc.scribeRWKey)
           checks == DidscChecks(didsc, didc, scribes)
<1>1. /\ didsc.scribeRWKey = key
      /\ didsc.sig.key = key
      /\ SHA256(serializeDeviceIDCertificate(didc)) = didsc.certHash
  BY DEF Didsc, Sign
<1>2. /\ id \in DOMAIN scribes
      /\ scribes[id] = [type |-> scribes[id].type, subject |-> scribes[id].subject]
      /\ scribes[id] # [type |-> TitanScribeType, subject |-> key]
  <2>1. RWCert(ScribeOf[d]) = [type |-> TitanScribeType, subject |-> key]
    BY DEF RWCert
  <2> QED BY <1>1, <2>1, KeptRoot DEF Hidden
<1> HIDE DEF key, didsc, didc
<1>3. DOMAIN checks = 1 .. 4 /\ checks[1].holds /\ checks[2].holds
  <2>1. DOMAIN checks = 1 .. 4
    BY DEF DidscChecks
  <2>2. checks[1].holds /\ checks[2].holds
    BY <1>1, <1>2 DEF DidscChecks, Check
  <2> QED BY <2>1, <2>2
<1>4. ~(checks[3].holds /\ checks[4].holds)
  BY <1>1, <1>2 DEF DidscChecks, Check, VerifyECDSATitan
<1>5. ~AllHold(checks)
  BY <1>3, <1>4 DEF AllHold
<1>6. PICK i \in 1 .. 4 : ~checks[i].holds
                         /\ FirstError(checks) = <<checks[i].cert, checks[i].field>>
  <2> HIDE DEF checks
  <2> QED BY <1>3, <1>5, FirstErrorFirst
<1>7. i \in {3, 4}
  BY <1>3, <1>6
<1>8. checks[i].cert = "DIDSC" /\ checks[i].field \in {"ScribeType", "Signature"}
  BY <1>7 DEF DidscChecks, Check
<1> QED BY <1>6, <1>8 DEF validateDeviceIDScribeCertificate, didsc, didc

\* The three certificates of a genuine chain, checked in turn, give the verdict.
LEMMA IInvKeptRootDecides ==
  ASSUME WholeKeys
  PROVE  IInv => KeptRootDecides
<1> SUFFICES ASSUME IInv, NEW df \in booted, chain = Chain(df[1], df[2]),
                    verdict # Unchecked, Covered(df[1], df[2])
             PROVE  LET payload == Hidden(PayloadCert(ScribeOf[df[1]]))
                        rw      == Hidden(RWCert(ScribeOf[df[1]]))
                    IN  /\ payload => verdict \in {"DIDC"} \X {"ScribeType", "Signature"}
                        /\ ~payload /\ rw => verdict \in {"DIDSC"} \X {"ScribeType", "Signature"}
                        /\ ~payload /\ ~rw => verdict = OK
  BY DEF KeptRootDecides
<1> DEFINE d == df[1]
           f == df[2]
           payload == PayloadCert(ScribeOf[d])
           rw      == RWCert(ScribeOf[d])
           didcErr  == validateDeviceIDCertificate(Didc(d), scribes)
           didscErr == validateDeviceIDScribeCertificate(Didsc(d), Didc(d), scribes)
<1>1. /\ d \in Device /\ f \in Firmware
      /\ payload \in policy.roots /\ rw \in policy.roots
      /\ CodeKeyInfo[f] \in policy.infos
  BY DEF IInv, TypeOK, Covered
<1>2. verdict = OrElse(didcErr, didscErr)
  <2>1. verdict = ValidateScribeCertificateChain(chain, scribes, policy.infos)
    BY GenuineIsNotNil, VerdictCurrent
  <2>2. /\ chain.akc = Akc(d, f)
        /\ chain.didc = Didc(d)
        /\ chain.didsc = Didsc(d)
    BY DEF Chain
  <2>3. validateAliasKeyCertificate(chain.akc, chain.didc, policy.infos) = OK
    BY <1>1, <2>2, GenuineAkcAccepted
  <2> QED BY <2>1, <2>2, <2>3, OrElseEither DEF ValidateScribeCertificateChain
<1>3. ASSUME Hidden(payload) PROVE verdict \in {"DIDC"} \X {"ScribeType", "Signature"}
  <2>1. didcErr \in {"DIDC"} \X {"ScribeType", "Signature"}
    BY <1>1, <1>3, HiddenPayloadBlamed DEF IInv
  <2>2. didcErr # OK
    <3>1. PICK field \in {"ScribeType", "Signature"} : didcErr = <<"DIDC", field>>
      BY <2>1
    <3> HIDE DEF didcErr
    <3> QED BY <3>1 DEF OK
  <2> QED BY <1>2, <2>1, <2>2, OrElseEither
<1>4. ASSUME ~Hidden(payload) PROVE verdict = didscErr
  <2>1. didcErr = OK
    <3>1. payload.subject = PayloadKey[ScribeOf[d]]
      BY DEF PayloadCert
    <3>2. ComputeKeyIDECDSA(PayloadKey[ScribeOf[d]]) = DocumentedKeyID(PayloadKey[ScribeOf[d]])
      BY <1>1, KeysAreKeys, KeyIDAsDocumented DEF IsKey, WholeKeys
    <3>3. ComputeKeyIDECDSA(payload.subject) \in DOMAIN scribes
      BY <1>1, KeptRoot DEF IInv
    <3>4. scribes[ComputeKeyIDECDSA(payload.subject)] = payload
      BY <1>4 DEF Hidden
    <3> QED BY <3>1, <3>2, <3>3, <3>4, GenuineDidcAccepted
  <2> QED BY <1>2, <2>1, OrElseEither
<1>5. ASSUME Hidden(rw) PROVE didscErr \in {"DIDSC"} \X {"ScribeType", "Signature"}
  BY <1>1, <1>5, HiddenRWBlamed DEF IInv
<1>6. ASSUME ~Hidden(rw) PROVE didscErr = OK
  <2>1. rw.subject = RWKey[ScribeOf[d]]
    BY DEF RWCert
  <2>2. ComputeKeyIDECDSA(rw.subject) \in DOMAIN scribes
    BY <1>1, KeptRoot DEF IInv
  <2>3. scribes[ComputeKeyIDECDSA(rw.subject)] = rw
    BY <1>6 DEF Hidden
  <2> QED BY <2>1, <2>2, <2>3, GenuineDidscAccepted
<1> QED BY <1>3, <1>4, <1>5, <1>6

\* Whatever roots a policy has and whichever of those with one KeyID the map of
\* NewValidator kept, a covered device's chain is accepted exactly when the map holds
\* both its roots, and refused because of the certificate whose root it does not.
THEOREM KeptRootTold ==
  ASSUME WholeKeys
  PROVE  Spec => []KeptRootDecides
BY SessionInvariant, IInvKeptRootDecides, PTL

\* When the DeviceID certificate passes its own check, and the genuine alias key
\* certificate of a device passes next to it, it is that device's own.
LEMMA DidcOfAkc ==
  ASSUME IInv, chain # NoChain, NEW df \in booted, chain.akc = Akc(df[1], df[2]),
         validateAliasKeyCertificate(chain.akc, chain.didc, policy.infos) = OK,
         validateDeviceIDCertificate(chain.didc, scribes) = OK
  PROVE  chain.didc = Didc(df[1])
<1>1. PICK e \in provisioned : chain.didc = Didc(e)
  BY DidcAuthentic
<1>2. VerifyECDSATitan(chain.didc.key, serializeAliasKeyCertificate(chain.akc), chain.akc.sig)
  BY AkcAccepted
<1>3. chain.akc.sig.key = DeviceKey[df[1]]
  BY DEF Akc, Sign
<1>4. DeviceKey[e] = DeviceKey[df[1]]
  <2>1. chain.didc.key = DeviceKey[e]
    BY <1>1 DEF Didc
  <2> QED BY <1>2, <1>3, <2>1 DEF VerifyECDSATitan
<1>5. e = df[1]
  BY <1>4, KeysAssumption DEF IInv, TypeOK
<1> QED BY <1>1, <1>5

\* Which of three answers is the chain's, and so which certificate is blamed.
LEMMA IInvFaultLocated ==
  ASSUME WholeKeys, RootsDistinct
  PROVE  IInv => FaultLocated
<1> SUFFICES ASSUME IInv, chain # NoChain, verdict \notin {Unchecked, OK},
                    NEW df \in booted, Covered(df[1], df[2])
             PROVE  LET good == Chain(df[1], df[2])
                        akc   == chain.akc = good.akc
                        didc  == chain.didc = good.didc
                        didsc == chain.didsc = good.didsc
                    IN  /\ didc /\ didsc => verdict[1] = "AKC"
                        /\ akc /\ didc => verdict[1] = "DIDSC"
                        /\ akc /\ didsc => verdict[1] \in {"AKC", "DIDC"}
                        /\ akc /\ didsc /\ chain.didc.header.HWID = 0
                             => verdict = <<"DIDC", "HWID0">>
  BY DEF FaultLocated
<1> DEFINE d == df[1]
           f == df[2]
           akcErr   == validateAliasKeyCertificate(chain.akc, chain.didc, policy.infos)
           didcErr  == validateDeviceIDCertificate(chain.didc, scribes)
           didscErr == validateDeviceIDScribeCertificate(chain.didsc, chain.didc, scribes)
<1>1. d \in Device /\ f \in Firmware /\ CodeKeyInfo[f] \in policy.infos
  BY DEF IInv, TypeOK, Covered
<1>2. /\ Chain(d, f).akc = Akc(d, f)
      /\ Chain(d, f).didc = Didc(d)
      /\ Chain(d, f).didsc = Didsc(d)
  BY DEF Chain
<1>3. /\ verdict # OK
      /\ verdict = OrElse(akcErr, OrElse(didcErr, didscErr))
  BY VerdictCurrent DEF ValidateScribeCertificateChain
<1>4. /\ validateAliasKeyCertificate(Akc(d, f), Didc(d), policy.infos) = OK
      /\ validateDeviceIDCertificate(Didc(d), scribes) = OK
      /\ validateDeviceIDScribeCertificate(Didsc(d), Didc(d), scribes) = OK
  BY GenuineAccepted DEF IInv
<1>5. Didc(d).header.HWID # 0
  BY <1>1, FleetAssumption DEF Didc, DidcHeader
<1>6. ASSUME chain.didc = Didc(d), chain.didsc = Didsc(d) PROVE verdict[1] = "AKC"
  <2>1. verdict = akcErr
    BY <1>3, <1>4, <1>6, OrElseEither
  <2> QED BY <1>3, <1>5, <1>6, <2>1, AkcBlame
<1>7. ASSUME chain.akc = Akc(d, f), chain.didc = Didc(d) PROVE verdict[1] = "DIDSC"
  <2>1. verdict = didscErr
    BY <1>3, <1>4, <1>7, OrElseEither
  <2> QED BY <1>3, <2>1, DidscBlame
<1>8. ASSUME chain.akc = Akc(d, f), chain.didsc = Didsc(d), chain.didc.header.HWID = 0
      PROVE  verdict = <<"DIDC", "HWID0">>
  <2>1. akcErr = <<"DIDC", "HWID0">>
    BY <1>1, <1>8, AkcBlamesFlash
  <2>2. akcErr # OK
    BY <2>1 DEF OK
  <2> QED BY <1>3, <2>1, <2>2, OrElseEither
<1>9. ASSUME chain.akc = Akc(d, f), chain.didsc = Didsc(d) PROVE verdict[1] \in {"AKC", "DIDC"}
  <2>1. CASE chain.didc.header.HWID = 0
    BY <1>8, <1>9, <2>1
  <2>2. CASE akcErr # OK /\ chain.didc.header.HWID # 0
    BY <1>3, <2>2, AkcBlame, OrElseEither
  <2>3. CASE akcErr = OK
    <3>1. didcErr # OK
      <4> SUFFICES ASSUME didcErr = OK PROVE FALSE
        OBVIOUS
      <4>1. chain.didc = Didc(d)
        BY <1>9, <2>3, DidcOfAkc
      <4> QED BY <1>3, <1>4, <1>9, <4>1, OrElseOK
    <3>2. verdict = didcErr
      BY <1>3, <2>3, <3>1, OrElseEither
    <3> QED BY <3>1, <3>2, DidcBlame
  <2> QED BY <2>1, <2>2, <2>3
<1> HIDE DEF d, f
<1> QED BY <1>2, <1>6, <1>7, <1>8, <1>9 DEF d, f

\* The error of ValidateScribeCertificateChain names the certificate at fault
\* when the other two are a covered device's, under the same hypotheses as the
\* acceptance of genuine chains.
THEOREM FaultIsLocated ==
  ASSUME WholeKeys, RootsDistinct
  PROVE  Spec => []FaultLocated
BY SessionInvariant, IInvFaultLocated, PTL

------------------------------------------------------------------------------
(* Refinement: DiceChain implements Attestation.                           *)

\* A genuine chain is that of one pair only.
LEMMA OneSubject ==
  ASSUME NEW p \in Pairs, NEW q \in Pairs, Chain(p[1], p[2]) = Chain(q[1], q[2])
  PROVE  p = q
<1>1. Akc(p[1], p[2]).pub = Akc(q[1], q[2]).pub
  BY DEF Chain
<1>2. AliasKey[<<p[1], p[2]>>] = AliasKey[<<q[1], q[2]>>]
  BY <1>1 DEF Akc
<1>3. p = <<p[1], p[2]>> /\ q = <<q[1], q[2]>>
  BY DEF Pairs
<1> QED BY <1>2, <1>3, KeysAssumption DEF Pairs

\* The pair read off an accepted chain is the pair it is authentic for.
LEMMA AttestedPair ==
  ASSUME IInv, verdict = OK
  PROVE  \E df \in Pairs : df \in booted \cap CoveredPairs /\ Subjects = {df}
<1>1. PICK df \in booted : chain = Chain(df[1], df[2]) /\ Covered(df[1], df[2])
  BY IInvChainAuthentic DEF ChainAuthentic
<1>2. df \in Pairs
  BY DEF IInv, TypeOK, Pairs
<1>3. {e \in Pairs : chain = Chain(e[1], e[2])} = {df}
  BY <1>1, <1>2, OneSubject
<1>4. Subjects = {df}
  BY <1>3 DEF Subjects
<1> QED BY <1>1, <1>2, <1>4 DEF CoveredPairs

\* And the key read off an accepted EK certificate is a key of this pair.
LEMMA EndorsedKey ==
  ASSUME IInv, verdict = OK, ek.err = OK, NEW df \in Pairs, Subjects = {df}
  PROVE  ek.limited \in EKKinds /\ Keys = {<<df, ek.limited>>}
<1>1. PICK eg \in booted : chain = Chain(eg[1], eg[2]) /\ ek.cert = Ekc(eg[1], eg[2], ek.limited)
  BY IInvEkAuthentic DEF EkAuthentic
<1>2. eg \in Pairs
  BY DEF IInv, TypeOK, Pairs
<1>3. eg = df
  BY <1>1, <1>2 DEF Subjects
<1>4. ek.limited \in EKKinds
  <2>1. ek # NoEk
    BY UncheckedIsNoAnswer DEF NoEk
  <2> QED BY <2>1 DEF IInv, TypeOK
<1>5. df # Nobody
  BY DEF Pairs, Nobody
<1>6. {dfk \in Subjects \X EKKinds :
         dfk[1] # Nobody /\ ek.cert = Ekc(dfk[1][1], dfk[1][2], dfk[2]) /\ ek.limited = dfk[2]}
        = {<<df, ek.limited>>}
  BY <1>1, <1>3, <1>4, <1>5
<1> QED BY <1>4, <1>6 DEF Keys

\* A new session maps to an initial state of Attestation.
LEMMA AbstractInit == Init => Abstract!Init
<1> SUFFICES ASSUME Init PROVE Abstract!Init
  OBVIOUS
<1>1. CoveredPairs = {}
  BY DEF Init, CoveredPairs, Covered, NoPolicy
<1>2. Attested = {} /\ Endorsed = {}
  BY UncheckedIsNoAnswer DEF Init, Attested, Endorsed
<1> QED BY <1>1, <1>2 DEF Init, Abstract!Init

\* The views of Attestation depend on this part of the state only.
LEMMA ViewsUnchanged ==
  /\ UNCHANGED policy => UNCHANGED CoveredPairs
  /\ UNCHANGED <<chain, verdict, ek>> => UNCHANGED <<Attested, Endorsed>>
BY DEF CoveredPairs, Covered, Attested, Endorsed, Subjects, Keys

\* Without an accepted chain a session has attested and endorsed nothing.
LEMMA NothingAttested == verdict # OK => Attested = {} /\ Endorsed = {}
BY DEF Attested, Endorsed

\* Without a chain nothing is accepted.
LEMMA NoChainNoVerdict == IInv /\ chain = NoChain => verdict # OK
BY AcceptedChain

\* What an accepted chain has attested, and what has been endorsed with it.
SessionView ==
  \E df \in Pairs :
    /\ df \in booted \cap CoveredPairs
    /\ Attested = {df}
    /\ Endorsed \in {{}} \cup {{<<df, kind>>} : kind \in EKKinds}
    /\ ek.err = OK => Endorsed = {<<df, ek.limited>>} /\ ek.limited \in EKKinds
    /\ ek.err # OK => Endorsed = {}

\* Of an accepted chain, Attestation sees its pair and, if accepted, its key.
LEMMA SessionViews == IInv /\ verdict = OK => SessionView
<1> SUFFICES ASSUME IInv, verdict = OK PROVE SessionView
  OBVIOUS
<1>1. PICK df \in Pairs : df \in booted \cap CoveredPairs /\ Subjects = {df}
  BY AttestedPair
<1>2. ek.err = OK => Endorsed = {<<df, ek.limited>>} /\ ek.limited \in EKKinds
  BY <1>1, EndorsedKey DEF Endorsed
<1>3. ek.err # OK => Endorsed = {}
  BY DEF Endorsed
<1>4. Attested = {df}
  BY <1>1 DEF Attested
<1> QED BY <1>1, <1>2, <1>3, <1>4 DEF SessionView

\* Every step is a step of Attestation or one it does not see.
LEMMA AbstractNext == IInv /\ IInv' /\ [Next]_vars => [Abstract!Next]_(Abstract!vars)
<1> SUFFICES ASSUME IInv, IInv', [Next]_vars PROVE [Abstract!Next]_(Abstract!vars)
  OBVIOUS
<1> USE DEF Abstract!vars
<1>1. ASSUME NEW d \in Device, Provision(d) PROVE UNCHANGED Abstract!vars
  BY <1>1, ViewsUnchanged DEF Provision
<1>2. ASSUME NEW d \in Device, NEW f \in Firmware, Boot(d, f)
      PROVE  Abstract!Boot(<<d, f>>) /\ <<d, f>> \in Device \X Firmware
  <2>1. Attested = {}
    BY <1>2, NoChainNoVerdict, NothingAttested DEF Boot
  <2>2. UNCHANGED <<CoveredPairs, Attested, Endorsed>>
    BY <1>2, ViewsUnchanged DEF Boot
  <2> QED BY <1>2, <2>1, <2>2 DEF Boot, Abstract!Boot
<1>3. ASSUME NewValidator
      PROVE  Abstract!SetPolicy(CoveredPairs') /\ CoveredPairs' \in SUBSET (Device \X Firmware)
  <2>1. Attested = {}
    BY <1>3, NoChainNoVerdict, NothingAttested DEF NewValidator
  <2>2. UNCHANGED <<booted, Attested, Endorsed>>
    BY <1>3, ViewsUnchanged DEF NewValidator
  <2>3. CoveredPairs' \in SUBSET (Device \X Firmware)
    BY DEF CoveredPairs, Pairs
  <2> QED BY <2>1, <2>2, <2>3 DEF Abstract!SetPolicy
<1>4. ASSUME Receive PROVE UNCHANGED Abstract!vars
  <2>1. Attested = {} /\ Endorsed = {}
    BY <1>4, NoChainNoVerdict, NothingAttested DEF Receive
  <2>2. (Attested = {} /\ Endorsed = {})'
    <3>1. (verdict # OK)'
      BY <1>4, UncheckedIsNoAnswer DEF Receive
    <3> QED BY <3>1, NothingAttested, PTL
  <2> QED BY <1>4, <2>1, <2>2, ViewsUnchanged DEF Receive
<1>5. ASSUME ValidateChain
      PROVE  \/ UNCHANGED Abstract!vars
             \/ \E df \in Device \X Firmware : Abstract!Attest(df)
  <2>1. Attested = {} /\ Endorsed = {}
    BY <1>5, UncheckedIsNoAnswer, NothingAttested DEF ValidateChain
  <2>2. UNCHANGED <<booted, CoveredPairs>>
    BY <1>5, ViewsUnchanged DEF ValidateChain
  <2>3. CASE verdict' # OK
    <3>1. (verdict # OK)'
      BY <2>3
    <3>2. (Attested = {} /\ Endorsed = {})'
      BY <3>1, NothingAttested, PTL
    <3> QED BY <2>1, <2>2, <3>2
  <2>4. CASE verdict' = OK
    <3>1. SessionView'
      <4>1. (verdict = OK)'
        BY <2>4
      <4> QED BY <4>1, SessionViews, PTL
    <3>2. PICK df \in Pairs :
             /\ df \in booted' \cap CoveredPairs'
             /\ Attested' = {df}
             /\ Endorsed' \in {{}} \cup {{<<df, kind>>} : kind \in EKKinds}
      BY <3>1 DEF SessionView
    <3>3. Abstract!Attest(df)
      BY <2>1, <2>2, <3>2 DEF Abstract!Attest
    <3> QED BY <3>3 DEF Pairs
  <2> QED BY <2>3, <2>4
<1>6. ASSUME ValidateEk
      PROVE  \/ UNCHANGED Abstract!vars
             \/ \E df \in Device \X Firmware, kind \in EKKinds : Abstract!Endorse(df, kind)
  <2>1. UNCHANGED <<booted, CoveredPairs, chain, verdict>>
    BY <1>6, ViewsUnchanged DEF ValidateEk
  <2>2. UNCHANGED Attested
    BY <2>1 DEF Attested, Subjects
  <2>3. CASE verdict # OK
    <3>1. Endorsed = {} /\ Endorsed' = {}
      BY <2>1, <2>3 DEF Endorsed
    <3> QED BY <2>1, <2>2, <3>1
  <2>4. CASE verdict = OK
    <3>1. PICK df \in Pairs : Attested = {df}
      BY <2>4, SessionViews DEF SessionView
    <3>2. Endorsed = {}
      BY <1>6, UncheckedIsNoAnswer DEF ValidateEk, NoEk, Endorsed
    <3>3. CASE ek'.err # OK
      BY <2>1, <2>2, <3>2, <3>3 DEF Endorsed
    <3>4. CASE ek'.err = OK
      <4>1. SessionView'
        <5>1. (verdict = OK)'
          BY <2>1, <2>4
        <5> QED BY <5>1, SessionViews, PTL
      <4>2. PICK e \in Pairs : /\ Attested' = {e}
                               /\ Endorsed' = {<<e, ek'.limited>>}
                               /\ ek'.limited \in EKKinds
        BY <3>4, <4>1 DEF SessionView
      <4>3. e = df
        BY <2>2, <3>1, <4>2
      <4>4. Abstract!Endorse(df, ek'.limited)
        BY <2>1, <2>2, <3>1, <3>2, <4>2, <4>3 DEF Abstract!Endorse
      <4> QED BY <4>2, <4>4 DEF Pairs
    <3> QED BY <3>3, <3>4
  <2> QED BY <2>3, <2>4
<1>7. ASSUME Forget PROVE Abstract!Forget
  <2>1. (verdict # OK)'
    BY <1>7, UncheckedIsNoAnswer DEF Forget
  <2>2. (Attested = {} /\ Endorsed = {})'
    BY <2>1, NothingAttested, PTL
  <2> QED BY <1>7, <2>2, ViewsUnchanged DEF Forget, Abstract!Forget
<1>8. ASSUME UNCHANGED vars PROVE UNCHANGED Abstract!vars
  BY <1>8, ViewsUnchanged DEF vars
<1> QED BY <1>1, <1>2, <1>3, <1>4, <1>5, <1>6, <1>7, <1>8 DEF Next, Abstract!Next

\* Every session is one Attestation allows: the two answers together only ever
\* speak of one booted, covered pair of a device and a firmware, and of a key
\* of that pair, until the caller ends the session.
THEOREM Refinement == Spec => ImplementsAttestation
<1>1. Spec => []IInv
  BY SessionInvariant
<1>2. []IInv /\ Init /\ [][Next]_vars => Abstract!Spec
  BY AbstractInit, AbstractNext, PTL DEF Abstract!Spec
<1> QED BY <1>1, <1>2, PTL DEF Spec, ImplementsAttestation

=============================================================================
