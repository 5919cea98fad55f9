------------------------- MODULE WarmResetNV_proofs -------------------------
(***************************************************************************)
(* Proofs about WarmResetNV, for any TPMs, nonces, indices, signature      *)
(* schemes, damages and bounds.                                            *)
(***************************************************************************)
EXTENDS WarmResetNV, TLAPS

\* A sent challenge has a TPM and a count.
LEMMA SentTyped ==
  ASSUME TypeOK, NEW n \in Nonce, challenges[n] # Unsent
  PROVE  challenges[n].tpm \in Tpm /\ challenges[n].count \in Nat
  BY DEF TypeOK

\* A public area that passes the checks is the counter's.
LEMMA PublicChecked ==
  ASSUME NEW p \in OtherPublic \cup {WarmResetPublic}, cpuWarmResetNvPublicName(p)
  PROVE  p = WarmResetPublic
  BY NVAssumption DEF cpuWarmResetNvPublicName, WarmResetPublic

\* A certification received with an intact signature says what its signer
\* signed, whatever was replaced on its way.
LEMMA IntactReceived ==
  ASSUME CertifiedTruthful, NEW c \in Received, c # NoCertify,
         c.sig.intact, c.sig.msg = c.attest
  PROVE  /\ \E g \in certified : g.attest = c.attest /\ g.sig = c.sig
         /\ c.public \in OtherPublic \cup {WarmResetPublic}
<1>1. CASE c \in certified
  BY <1>1 DEF CertifiedTruthful
<1>2. ASSUME NEW g \in certified, c \in Damaged(g)
      PROVE  /\ g.attest = c.attest /\ g.sig = c.sig
             /\ c.public \in OtherPublic \cup {WarmResetPublic}
  <2> USE <1>2 DEF CertifiedTruthful
  <2>1. CASE c \in {[g EXCEPT !.attest = a] : a \in DamagedAttest(g.attest)}
    <3>1. PICK a \in DamagedAttest(g.attest) : c = [g EXCEPT !.attest = a]
      BY <2>1
    <3>2. c.sig = g.sig /\ c.public = g.public
      BY <3>1
    <3> QED BY <3>2
  <2>2. CASE c \in {[g EXCEPT !.public = p] : p \in OtherPublic \cup {WarmResetPublic}}
    BY <2>2
  <2>3. CASE c \in {[g EXCEPT !.sig = [g.sig EXCEPT !.intact = FALSE]]}
    <3>1. c.sig = [g.sig EXCEPT !.intact = FALSE] /\ c.attest = g.attest /\ c.public = g.public
      BY <2>3
    <3> QED BY <3>1
  <2> QED BY <2>1, <2>2, <2>3 DEF Damaged
<1> QED BY <1>1, <1>2 DEF Received

\* What is accepted for a nonce is the truth of the TPM it was sent to.
LEMMA AcceptedFresh ==
  ASSUME IInv, NEW n \in Nonce, NEW c \in Received, challenges[n] # Unsent,
         VerifyWarmResetNVIndex(c, n, AK[challenges[n].tpm]).ok
  PROVE  LET count == VerifyWarmResetNVIndex(c, n, AK[challenges[n].tpm]).count
         IN  /\ count \in Int
             /\ challenges[n].count <= count
             /\ count <= counter[challenges[n].tpm]
<1> DEFINE t == challenges[n].tpm
<1>1. t \in Tpm /\ challenges[n].count \in Nat /\ counter[t] \in 0 .. MaxCount
  BY SentTyped DEF IInv, TypeOK
<1>2. /\ c # NoCertify
      /\ verifySig(c, AK[t])
      /\ extractCpuWarmResetNV(c.attest, n)
      /\ cpuWarmResetNvPublicName(c.public)
      /\ c.attest.IndexName = NVName(c.public)
      /\ c.attest.Offset = warmResetOffset
      /\ c.attest.size = warmResetSize
      /\ VerifyWarmResetNVIndex(c, n, AK[t]).count = int64(c.attest.number)
  BY DEF VerifyWarmResetNVIndex, Failed
<1>3. PICK g \in certified : g.attest = c.attest /\ g.sig = c.sig
  BY <1>2, IntactReceived DEF IInv, verifySig
<1>4. c.public = WarmResetPublic
  BY <1>2, IntactReceived, PublicChecked DEF IInv, verifySig
<1>5. OfCounter(c.attest) /\ c.attest.ExtraData = n
  BY <1>2, <1>4 DEF OfCounter, extractCpuWarmResetNV
<1>6. Truthful(c.attest, t)
  BY <1>1, <1>2, <1>3 DEF IInv, CertifiedTruthful, verifySig
<1>7. c.attest.number \in 0 .. counter[t] /\ challenges[n].count <= c.attest.number
  BY <1>5, <1>6 DEF Truthful
<1>8. int64(c.attest.number) = c.attest.number
  BY <1>1, <1>7, NVAssumption DEF int64
<1> QED BY <1>1, <1>2, <1>7, <1>8

\* Nothing is certified, sent or answered at first.
LEMMA InitHolds == Init => IInv
  BY NVAssumption
     DEF Init, IInv, TypeOK, ChallengesPast, CertifiedTruthful, CountFresh, NoAnswer, Unsent

\* A counter that goes on makes no one a liar.
LEMMA WarmResetKeeps == ASSUME IInv, NEW t \in Tpm, WarmReset(t) PROVE IInv'
<1> USE DEF WarmReset
<1>1. TypeOK'
  BY NVAssumption DEF IInv, TypeOK
<1>2. \A u \in Tpm : counter[u] \in Nat /\ counter'[u] \in Nat /\ counter[u] <= counter'[u]
  BY NVAssumption DEF IInv, TypeOK
<1>3. ChallengesPast'
  BY <1>2, SentTyped DEF IInv, ChallengesPast
<1>4. ASSUME NEW a, NEW u \in Tpm, Truthful(a, u)
      PROVE  Truthful(a, u)'
  BY <1>2, <1>4 DEF Truthful, OfCounter
<1>5. CertifiedTruthful'
  BY <1>4 DEF IInv, CertifiedTruthful, Known
<1>6. CountFresh'
  BY DEF IInv, CountFresh
<1> QED BY <1>1, <1>3, <1>5, <1>6 DEF IInv

\* A nonce that is sent now is in no certification yet.
LEMMA ChallengeKeeps == ASSUME IInv, NEW n \in Nonce, NEW t \in Tpm, Challenge(n, t) PROVE IInv'
<1> USE DEF Challenge
<1>1. TypeOK'
  BY NVAssumption DEF IInv, TypeOK
<1>2. \A m \in Nonce : challenges'[m] = IF m = n THEN [tpm |-> t, count |-> counter[t]]
                                         ELSE challenges[m]
  BY DEF IInv, TypeOK
<1>3. counter[t] \in Nat
  BY NVAssumption DEF IInv, TypeOK
<1>4. ChallengesPast'
  BY <1>2, <1>3 DEF IInv, ChallengesPast
<1>5. n \notin Known
  BY NVAssumption DEF Known
<1>6. ASSUME NEW a, NEW u \in Tpm, a.ExtraData \in Known, Truthful(a, u)
      PROVE  Truthful(a, u)'
  BY <1>2, <1>5, <1>6 DEF Truthful, OfCounter
<1>7. Known \subseteq Known'
  BY <1>2 DEF Known
<1>8. CertifiedTruthful'
  BY <1>6, <1>7 DEF IInv, CertifiedTruthful
<1>9. CountFresh'
  BY <1>2 DEF IInv, CountFresh
<1> QED BY <1>1, <1>4, <1>8, <1>9 DEF IInv

\* TPMs certify what is so.
LEMMA CertifyKeeps == ASSUME IInv, NEW t \in Tpm, NEW s \in Scheme, Certify(t, s) PROVE IInv'
<1> DEFINE Genuine(c) ==
      /\ c = [attest |-> c.attest, public |-> c.public, sig |-> c.sig]
      /\ c.public \in OtherPublic \cup {WarmResetPublic}
      /\ c.sig.intact /\ c.sig.msg = c.attest
      /\ c.attest.Magic = "TPMGenerated"
      /\ c.attest.ExtraData \in Known
      /\ c.sig.key = AK[t]
      /\ Truthful(c.attest, t)
<1>1. PICK n \in Known :
        \/ \E part \in Parts :
             certified' = certified \cup
               {Certification(t, s, WarmResetPublic,
                              NVAttest(WarmResetPublic, n, part, counter[t]))}
        \/ \E p \in OtherPublic, number \in OtherNumber :
             certified' = certified \cup
               {Certification(t, s, p, NVAttest(p, n, Whole, number))}
        \/ certified' = certified \cup {Certification(t, s, WarmResetPublic, QuoteAttest(n))}
  BY DEF Certify
<1>2. ASSUME NEW p, p \in OtherPublic \cup {WarmResetPublic}, NEW a,
             a.ExtraData = n, a.Magic = "TPMGenerated", Truthful(a, t)
      PROVE  Genuine(Certification(t, s, p, a))
  BY <1>2 DEF Certification, Sign
<1>3. ASSUME NEW part \in Parts
      PROVE  Truthful(NVAttest(WarmResetPublic, n, part, counter[t]), t)
  <2> DEFINE a == NVAttest(WarmResetPublic, n, part, counter[t])
  <2>1. CASE part = Whole
    <3>1. a.number = counter[t]
      BY <2>1 DEF NVAttest, Whole
    <3>2. counter[t] \in Nat
      BY DEF IInv, TypeOK
    <3> QED BY <3>1, <3>2 DEF Truthful, IInv, ChallengesPast
  <2>2. CASE part # Whole
    <3>1. a.size # warmResetSize
      BY <2>2 DEF Parts, NVAttest, warmResetSize
    <3> QED BY <3>1 DEF Truthful, OfCounter
  <2> QED BY <2>1, <2>2
<1>4. ASSUME NEW p \in OtherPublic, NEW number
      PROVE  Truthful(NVAttest(p, n, Whole, number), t)
  <2>1. NVAttest(p, n, Whole, number).IndexName # NVName(WarmResetPublic)
    BY NVAssumption DEF NVAttest, NVName
  <2> QED BY <2>1 DEF Truthful, OfCounter
<1>5. Truthful(QuoteAttest(n), t)
  BY DEF Truthful, OfCounter, QuoteAttest
<1>6. /\ \A p, part, number : /\ NVAttest(p, n, part, number).ExtraData = n
                               /\ NVAttest(p, n, part, number).Magic = "TPMGenerated"
      /\ QuoteAttest(n).ExtraData = n /\ QuoteAttest(n).Magic = "TPMGenerated"
  BY DEF NVAttest, QuoteAttest
<1>7. \E c : certified' = certified \cup {c} /\ Genuine(c)
  BY <1>1, <1>2, <1>3, <1>4, <1>5, <1>6
<1>8. PICK c : certified' = certified \cup {c} /\ Genuine(c)
  BY <1>7
<1>9. UNCHANGED <<counter, challenges, answers>>
  BY DEF Certify
<1>10. \A u \in Tpm : c.sig.key = AK[u] => Truthful(c.attest, u)
  BY <1>8, NVAssumption
<1>11. \A a, u : Truthful(a, u) => Truthful(a, u)'
  BY <1>9 DEF Truthful, OfCounter
<1>12. CertifiedTruthful'
  BY <1>8, <1>9, <1>10, <1>11 DEF IInv, CertifiedTruthful, Known
<1>13. TypeOK' /\ ChallengesPast' /\ CountFresh'
  BY <1>9 DEF IInv, TypeOK, ChallengesPast, CountFresh
<1> QED BY <1>12, <1>13 DEF IInv

\* Whatever certification is received, the answer is fresh.
LEMMA VerifyKeeps == ASSUME IInv, NEW n \in Nonce, NEW c \in Received, Verify(n, c) PROVE IInv'
<1> DEFINE t == challenges[n].tpm
           r == VerifyWarmResetNVIndex(c, n, AK[t])
           answer == IF r.ok THEN [ok |-> TRUE, count |-> r.count, seen |-> counter[t]]
                     ELSE NoAnswer
<1>1. /\ challenges[n] # Unsent
      /\ answers' = [answers EXCEPT ![n] = answer]
      /\ UNCHANGED <<counter, certified, challenges>>
  BY DEF Verify
<1>2. r.ok => /\ r.count \in Int
              /\ challenges[n].count <= r.count
              /\ r.count <= counter[t]
  BY <1>1, AcceptedFresh
<1>3. counter[t] \in Nat
  BY <1>1, SentTyped DEF IInv, TypeOK
<1>4. answer \in [ok : BOOLEAN, count : Int, seen : Nat]
  BY <1>2, <1>3 DEF NoAnswer
<1>5. TypeOK'
  BY <1>1, <1>4 DEF IInv, TypeOK
<1>6. answer.ok => challenges[n].count <= answer.count /\ answer.count <= answer.seen
  BY <1>2 DEF NoAnswer
<1>7. CountFresh'
  <2> SUFFICES ASSUME NEW m \in Nonce, answers'[m].ok
               PROVE  /\ challenges[m] # Unsent
                      /\ challenges[m].count <= answers'[m].count
                      /\ answers'[m].count <= answers'[m].seen
    BY <1>1 DEF CountFresh
  <2>1. CASE m = n
    <3>1. answers'[m] = answer
      BY <1>1, <2>1 DEF IInv, TypeOK
    <3> QED BY <1>1, <1>6, <2>1, <3>1
  <2>2. CASE m # n
    <3>1. answers'[m] = answers[m]
      BY <1>1, <2>2 DEF IInv, TypeOK
    <3> QED BY <3>1 DEF IInv, CountFresh
  <2> QED BY <2>1, <2>2
<1>8. ChallengesPast' /\ CertifiedTruthful'
  BY <1>1 DEF IInv, ChallengesPast, CertifiedTruthful, Known, Truthful, OfCounter
<1> QED BY <1>5, <1>7, <1>8 DEF IInv

\* Nor does anything change of itself.
LEMMA StutterKeeps == IInv /\ UNCHANGED vars => IInv'
  BY DEF vars, IInv, TypeOK, ChallengesPast, CertifiedTruthful, CountFresh, Known, Truthful,
         OfCounter

\* The inductive invariant holds in every state.
THEOREM SessionInvariant == Spec => []IInv
<1>1. IInv /\ [Next]_vars => IInv'
  BY WarmResetKeeps, ChallengeKeeps, CertifyKeeps, VerifyKeeps, StutterKeeps DEF Next
<1> QED BY InitHolds, <1>1, PTL DEF Spec

\* Every count VerifyWarmResetNVIndex returns is one the challenged TPM's
\* counter had between the challenge and the answer.
THEOREM Freshness == Spec => []CountFresh
<1>1. IInv => CountFresh
  BY DEF IInv
<1> QED BY SessionInvariant, <1>1, PTL

\* Every certification of the whole counter for a nonce the TPM was sent is
\* accepted by VerifyWarmResetNVIndex, with the number that stands in it.
THEOREM Completeness == Spec => []GenuineCounted
<1>1. ASSUME IInv, NEW n \in Nonce, NEW c \in certified, challenges[n] # Unsent,
             c.sig.key = AK[challenges[n].tpm], c.sig.key.ecdsa,
             c.sig.alg = "ECDSA", c.sig.hash = "SHA256", c.public = WarmResetPublic,
             OfCounter(c.attest), c.attest.ExtraData = n
      PROVE  VerifyWarmResetNVIndex(c, n, AK[challenges[n].tpm])
               = [ok |-> TRUE, count |-> c.attest.number]
  <2> USE <1>1
  <2> DEFINE t == challenges[n].tpm
  <2>1. t \in Tpm /\ counter[t] \in 0 .. MaxCount
    BY SentTyped DEF IInv, TypeOK
  <2>2. /\ c = [attest |-> c.attest, public |-> c.public, sig |-> c.sig]
        /\ c.sig.intact /\ c.sig.msg = c.attest
        /\ c.attest.Magic = "TPMGenerated"
        /\ Truthful(c.attest, t)
    BY <2>1 DEF IInv, CertifiedTruthful
  <2>3. int64(c.attest.number) = c.attest.number
    BY <2>1, <2>2, NVAssumption DEF Truthful, int64
  <2>4. c # NoCertify
    BY <2>2 DEF NoCertify
  <2>5. verifySig(c, AK[t]) /\ extractCpuWarmResetNV(c.attest, n)
    BY <2>2 DEF verifySig, extractCpuWarmResetNV, OfCounter
  <2>6. cpuWarmResetNvPublicName(c.public)
    BY DEF cpuWarmResetNvPublicName, WarmResetPublic
  <2> QED BY <2>3, <2>4, <2>5, <2>6 DEF VerifyWarmResetNVIndex, OfCounter
<1>2. IInv => GenuineCounted
  BY <1>1 DEF GenuineCounted
<1> QED BY SessionInvariant, <1>2, PTL

=============================================================================
