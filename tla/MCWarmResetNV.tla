---------------------------- MODULE MCWarmResetNV ----------------------------
(***************************************************************************)
(* WarmResetNV for two TPMs that sign with ECDSA, and two nonces; every    *)
(* TPM has another counter, which is ahead, at another handle.             *)
(***************************************************************************)
EXTENDS WarmResetNV, FiniteSets, TLC

CONSTANTS t1, t2, n1, n2, MaxCertified

MCTpm   == {t1, t2}
MCNonce == {n1, n2}
MCAK    == [t \in MCTpm |-> [ecdsa |-> TRUE, owner |-> t]]
MCOtherPublic == {[WarmResetPublic EXCEPT !.NVIndex = "01C10006"]}
MCOtherNumber == {MaxCount + 1}
MCScheme == {[alg |-> "ECDSA", hash |-> "SHA256"], [alg |-> "ECDSA", hash |-> "SHA384"]}

MCDamagedAttest(a) ==
  {[a EXCEPT !.ExtraData = n] : n \in {n1, n2} \ {a.ExtraData}}
    \cup (IF a.Type = "NV"
          THEN {[a EXCEPT !.number = number] : number \in 0 .. MaxCount}
          ELSE {})

Symmetry == Permutations(MCTpm) \cup Permutations(MCNonce)

MCBounded(set) == Cardinality(set) <= MaxCertified

=============================================================================
