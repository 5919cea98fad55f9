\* Two TPMs, two nonces, two warm resets each, at most two certifications.
CONSTANTS
  t1 = t1
  t2 = t2
  n1 = n1
  n2 = n2
  OldNonce = OldNonce
  MaxCount = 2
  MaxCertified = 2
  Limit = 4
  Tpm <- MCTpm
  AK <- MCAK
  Nonce <- MCNonce
  OtherPublic <- MCOtherPublic
  OtherNumber <- MCOtherNumber
  Scheme <- MCScheme
  DamagedAttest <- MCDamagedAttest
  Bounded <- MCBounded
SPECIFICATION Spec
SYMMETRY Symmetry
INVARIANTS
  IInv
  CountFresh
  GenuineCounted
