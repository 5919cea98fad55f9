---------------------------- MODULE Attestation ----------------------------
(***************************************************************************)
(* What a session with the validator promises, without a certificate in    *)
(* it: it attests at most one pair of a device and a firmware at a time,   *)
(* only one that the device has really booted and that the policy covers,  *)
(* endorses at most one key of that pair and no other, and gives up the    *)
(* pair only when the caller ends the session.                             *)
(***************************************************************************)
CONSTANTS Device, Firmware, EKKinds

VARIABLES
  booted,    \* pairs of a device and a firmware it has booted
  covered,   \* the pairs the policy in force covers
  attested,  \* the pair the session has attested: one or none
  endorsed   \* the pair and kind of the key it has endorsed: one or none

vars == <<booted, covered, attested, endorsed>>

Init ==
  /\ booted = {}
  /\ covered = {}
  /\ attested = {}
  /\ endorsed = {}

Boot(df) ==
  /\ attested = {}
  /\ booted' = booted \cup {df}
  /\ UNCHANGED <<covered, attested, endorsed>>

SetPolicy(pairs) ==
  /\ attested = {}
  /\ covered' = pairs
  /\ UNCHANGED <<booted, attested, endorsed>>

\* A key whose certificate came first is endorsed along with the pair.
Attest(df) ==
  /\ attested = {}
  /\ df \in booted \cap covered
  /\ attested' = {df}
  /\ endorsed' \in {{}} \cup {{<<df, kind>>} : kind \in EKKinds}
  /\ UNCHANGED <<booted, covered>>

Endorse(df, kind) ==
  /\ attested = {df}
  /\ endorsed = {}
  /\ endorsed' = {<<df, kind>>}
  /\ UNCHANGED <<booted, covered, attested>>

Forget ==
  /\ attested' = {}
  /\ endorsed' = {}
  /\ UNCHANGED <<booted, covered>>

Next ==
  \/ \E df \in Device \X Firmware : Boot(df) \/ Attest(df)
  \/ \E df \in Device \X Firmware, kind \in EKKinds : Endorse(df, kind)
  \/ \E pairs \in SUBSET (Device \X Firmware) : SetPolicy(pairs)
  \/ Forget

Spec == Init /\ [][Next]_vars

=============================================================================
