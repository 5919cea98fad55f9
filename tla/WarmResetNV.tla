----------------------------- MODULE WarmResetNV -----------------------------
(***************************************************************************)
(* How a verifier learns how often a CPU was warm reset                    *)
(* (titan/measurements/nv.go): it sends a TPM a nonce, the TPM certifies   *)
(* the NV counter that holds the number, and VerifyWarmResetNVIndex says   *)
(* what the number is.                                                     *)
(*                                                                         *)
(* TPMs, the network and the caller are external to the code: a TPM        *)
(* certifies any part of any of its NV indices for anyone, with any nonce  *)
(* it is sent, and the verifier may be handed any certification made so    *)
(* far, also one of an earlier challenge or of another TPM, and with a     *)
(* part replaced.  Names and signatures are free of collisions.            *)
(***************************************************************************)
EXTENDS Integers

CONSTANTS
  Tpm,
  AK,              \* a TPM's attestation key, with a field "ecdsa": is it ECDSA?
  Nonce,           \* nonces the verifier draws, none of them twice
  OldNonce,        \* a nonce that is none of these
  OtherPublic,     \* public areas of other indices of the TPMs,
  OtherNumber,     \* and numbers stored there
  Scheme,          \* the signature schemes of the TPMs: [alg, hash]
  DamagedAttest(_),\* what a TPMS_ATTEST may read as when a field of it is damaged
  Limit,           \* a number of 8 bytes is below 2 * Limit: 2^63 in the code
  MaxCount,        \* bound on the counters
  Bounded(_)       \* bound on the set of certifications made

warmResetSize   == 8
warmResetOffset == 0

\* The public area of the counter: its handle, name algorithm, size,
\* attributes (expectedNVAttributes, the set of those that are on) and policy.
WarmResetPublic ==
  [NVIndex |-> "01C10005", NameAlg |-> "SHA256", DataSize |-> warmResetSize,
   Attributes |-> {"Counter", "PolicyDelete", "WriteLocked", "WriteDefine",
                   "AuthRead", "NoDA", "Written"},
   AuthPolicy |-> "empty"]

ASSUME NVAssumption ==
  /\ OldNonce \notin Nonce
  /\ \A t, u \in Tpm : AK[t] = AK[u] => t = u
  /\ \A p \in OtherPublic :
       /\ p = [NVIndex |-> p.NVIndex, NameAlg |-> p.NameAlg, DataSize |-> p.DataSize,
               Attributes |-> p.Attributes, AuthPolicy |-> p.AuthPolicy]
       /\ p # WarmResetPublic
  /\ MaxCount \in Nat /\ Limit \in Nat /\ MaxCount < Limit

Failed    == [ok |-> FALSE, count |-> -1]
NoCertify == [nil |-> TRUE]
NoAnswer  == [ok |-> FALSE, count |-> -1, seen |-> 0]
Unsent    == [tpm |-> NoCertify, count |-> 0]

VARIABLES
  counter,    \* the warm resets of each TPM's CPU, as its counter has them
  certified,  \* certifications made
  challenges, \* by nonce, the TPM it was sent to and the counter at that time
  answers     \* by nonce, what VerifyWarmResetNVIndex last returned (ok is a nil
              \* error) and the counter at that time

vars == <<counter, certified, challenges, answers>>

------------------------------------------------------------------------------
(* VerifyWarmResetNVIndex.                                                 *)

NVName(public) == [nvName |-> public]

Sign(scheme, key, msg) ==
  [alg |-> scheme.alg, hash |-> scheme.hash, key |-> key, msg |-> msg, intact |-> TRUE]

\* Eight bytes are read into a signed integer.
int64(number) == IF number < Limit THEN number ELSE number - 2 * Limit

\* Mutant of verifySig: a signature of any attestation key will do.
verifySigAnyKey(certify, ak) ==
  /\ ak.ecdsa
  /\ certify.sig.intact
  /\ certify.sig.msg = certify.attest

verifySig(certify, ak) ==
  /\ ak.ecdsa
  /\ certify.sig.alg = "ECDSA"
  /\ certify.sig.hash = "SHA256"
  /\ certify.sig.intact
  /\ certify.sig.key = ak
  /\ certify.sig.msg = certify.attest

\* Mutant of extractCpuWarmResetNV: the nonce is not compared.
extractWithoutNonce(attest, nonce) ==
  attest.Type = "NV" /\ attest.Magic = "TPMGenerated"

extractCpuWarmResetNV(attest, nonce) ==
  /\ attest.Type = "NV"
  /\ attest.Magic = "TPMGenerated"
  /\ attest.ExtraData = nonce

\* Mutant of cpuWarmResetNvPublicName: an index that was never written is wanted.
UnwrittenPublicName(public) ==
  public = [WarmResetPublic EXCEPT !.Attributes = @ \ {"Written"}]

cpuWarmResetNvPublicName(public) ==
  /\ public.NVIndex = WarmResetPublic.NVIndex
  /\ public.NameAlg = WarmResetPublic.NameAlg
  /\ public.DataSize = warmResetSize
  /\ public.Attributes = WarmResetPublic.Attributes
  /\ public.AuthPolicy = WarmResetPublic.AuthPolicy

\* The code returns at the first conjunct that fails, with a count of -1.
VerifyWarmResetNVIndex(certify, nonce, ak) ==
  IF /\ certify # NoCertify
     /\ verifySig(certify, ak)
     /\ extractCpuWarmResetNV(certify.attest, nonce)
     /\ cpuWarmResetNvPublicName(certify.public)
     /\ certify.attest.IndexName = NVName(certify.public)
     /\ certify.attest.Offset = warmResetOffset
     /\ certify.attest.size = warmResetSize
  THEN [ok |-> TRUE, count |-> int64(certify.attest.number)]
  ELSE Failed

------------------------------------------------------------------------------
(* TPMs.  A part of an index is certified as the bytes from an offset on;  *)
(* the number is at the end of its 8 bytes.                                *)

Whole == [offset |-> 0, size |-> 8]
Parts == {Whole, [offset |-> 0, size |-> 4], [offset |-> 4, size |-> 4]}

NVAttest(public, nonce, part, number) ==
  [Type |-> "NV", Magic |-> "TPMGenerated", ExtraData |-> nonce, IndexName |-> NVName(public),
   Offset |-> part.offset, size |-> part.size,
   number |-> IF part.offset + part.size = 8 THEN number ELSE 0]

QuoteAttest(nonce) == [Type |-> "Quote", Magic |-> "TPMGenerated", ExtraData |-> nonce]

Certification(t, scheme, public, attest) ==
  [attest |-> attest, public |-> public, sig |-> Sign(scheme, AK[t], attest)]

\* What may become of a certification on its way.
Damaged(c) ==
  {[c EXCEPT !.attest = a] : a \in DamagedAttest(c.attest)}
    \cup {[c EXCEPT !.public = p] : p \in OtherPublic \cup {WarmResetPublic}}
    \cup {[c EXCEPT !.sig = [c.sig EXCEPT !.intact = FALSE]]}

Init ==
  /\ counter = [t \in Tpm |-> 0]
  /\ certified = {}
  /\ challenges = [n \in Nonce |-> Unsent]
  /\ answers = [n \in Nonce |-> NoAnswer]

WarmReset(t) ==
  /\ counter[t] < MaxCount
  /\ counter' = [counter EXCEPT ![t] = @ + 1]
  /\ UNCHANGED <<certified, challenges, answers>>

Challenge(n, t) ==
  /\ challenges[n] = Unsent
  /\ challenges' = [challenges EXCEPT ![n] = [tpm |-> t, count |-> counter[t]]]
  /\ UNCHANGED <<counter, certified, answers>>

\* Nobody knows a nonce before it is sent.
Known == {OldNonce} \cup {n \in Nonce : challenges[n] # Unsent}

Certify(t, scheme) ==
  /\ \E n \in Known :
       \/ \E part \in Parts :
            certified' = certified \cup
              {Certification(t, scheme, WarmResetPublic,
                             NVAttest(WarmResetPublic, n, part, counter[t]))}
       \/ \E p \in OtherPublic, number \in OtherNumber :
            certified' = certified \cup
              {Certification(t, scheme, p, NVAttest(p, n, Whole, number))}
       \/ certified' = certified \cup
            {Certification(t, scheme, WarmResetPublic, QuoteAttest(n))}
  /\ Bounded(certified')
  /\ UNCHANGED <<counter, challenges, answers>>

Received == {NoCertify} \cup certified \cup UNION {Damaged(c) : c \in certified}

\* A caller may call again, with the same certification or another.
Verify(n, c) ==
  LET t == challenges[n].tpm
      r == VerifyWarmResetNVIndex(c, n, AK[t])
  IN  /\ challenges[n] # Unsent
      /\ answers' = [answers EXCEPT ![n] =
                         IF r.ok THEN [ok |-> TRUE, count |-> r.count, seen |-> counter[t]]
                         ELSE NoAnswer]
      /\ UNCHANGED <<counter, certified, challenges>>

Next ==
  \/ \E t \in Tpm : WarmReset(t)
  \/ \E n \in Nonce, t \in Tpm : Challenge(n, t)
  \/ \E t \in Tpm, scheme \in Scheme : Certify(t, scheme)
  \/ \E n \in Nonce, c \in Received : Verify(n, c)

Spec == Init /\ [][Next]_vars

------------------------------------------------------------------------------
(* Properties.                                                             *)

\* A count that VerifyWarmResetNVIndex returns without an error is one that the
\* counter of the challenged TPM had at some time between the challenge and the
\* answer: not one of an earlier certification, of another TPM or of another
\* index, and not half a number.  So of two challenges in turn the second count
\* shows every warm reset between them.
CountFresh ==
  \A n \in Nonce :
    answers[n].ok =>
      /\ challenges[n] # Unsent
      /\ challenges[n].count <= answers[n].count
      /\ answers[n].count <= answers[n].seen

\* Does this TPMS_ATTEST certify the counter whole?
OfCounter(a) ==
  /\ a.Type = "NV"
  /\ a.IndexName = NVName(WarmResetPublic)
  /\ a.Offset = warmResetOffset
  /\ a.size = warmResetSize

\* What the TPM t says in a TPMS_ATTEST of its counter: a number the counter
\* has had, and when the nonce is one of a challenge, since that challenge.
Truthful(a, t) ==
  OfCounter(a) =>
    /\ a.number \in 0 .. counter[t]
    /\ \A n \in Nonce :
         a.ExtraData = n /\ challenges[n] # Unsent /\ challenges[n].tpm = t
           => challenges[n].count <= a.number

\* The shape of the state.
TypeOK ==
  /\ counter \in [Tpm -> 0 .. MaxCount]
  /\ challenges \in [Nonce -> {Unsent} \cup [tpm : Tpm, count : Nat]]
  /\ answers \in [Nonce -> [ok : BOOLEAN, count : Int, seen : Nat]]

\* A challenge does not record more warm resets than there were.
ChallengesPast ==
  \A n \in Nonce : challenges[n] # Unsent => challenges[n].count <= counter[challenges[n].tpm]

\* Certifications are signed as they are made, by a TPM that tells the truth,
\* and nobody has certified anything for a nonce before it was sent.
CertifiedTruthful ==
  \A c \in certified :
    /\ c = [attest |-> c.attest, public |-> c.public, sig |-> c.sig]
    /\ c.public \in OtherPublic \cup {WarmResetPublic}
    /\ c.sig.intact /\ c.sig.msg = c.attest
    /\ c.attest.Magic = "TPMGenerated"
    /\ c.attest.ExtraData \in Known
    /\ \A t \in Tpm : c.sig.key = AK[t] => Truthful(c.attest, t)

\* The inductive invariant the theorems of WarmResetNV_proofs rest on.
IInv == TypeOK /\ ChallengesPast /\ CertifiedTruthful /\ CountFresh

\* When a TPM with an ECDSA key has certified the whole counter for a nonce it
\* was sent, VerifyWarmResetNVIndex returns the number the TPM certified, whatever
\* other certifications, TPMs and calls there have been.
GenuineCounted ==
  \A n \in Nonce, c \in certified :
    /\ challenges[n] # Unsent
    /\ c.sig.key = AK[challenges[n].tpm] /\ c.sig.key.ecdsa
    /\ c.sig.alg = "ECDSA" /\ c.sig.hash = "SHA256"
    /\ c.public = WarmResetPublic
    /\ OfCounter(c.attest) /\ c.attest.ExtraData = n
    => VerifyWarmResetNVIndex(c, n, AK[challenges[n].tpm])
         = [ok |-> TRUE, count |-> c.attest.number]

=============================================================================
