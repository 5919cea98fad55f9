--------------------------- MODULE FirmwareReport ---------------------------
(***************************************************************************)
(* What rimtool generate-hash promises of a firmware file, without how it  *)
(* reads it.  It reports once, and what it reports is decided by the file. *)
(* Only when a call on the file has failed may it report less than the     *)
(* file holds; it still makes nothing up.                                  *)
(***************************************************************************)
CONSTANTS
  Files,
  Verdict(_),  \* the reports a file allows
  Excused(_)   \* the reports it allows once a call on it has failed

VARIABLES
  file,    \* the file it is given
  faulty,  \* a call on the file has failed
  report   \* what it reports

vars == <<file, faulty, report>>

NoReport == [kind |-> "none"]

-----------------------------------------------------------------------------
Init ==
  /\ file \in Files
  /\ faulty = FALSE
  /\ report = NoReport

Fail ==
  /\ report = NoReport
  /\ faulty' = TRUE
  /\ UNCHANGED <<file, report>>

Report ==
  /\ report = NoReport
  /\ \/ report' \in Verdict(file) /\ UNCHANGED faulty
     \/ report' \in Excused(file) /\ faulty' = TRUE
  /\ UNCHANGED file

Next == Fail \/ Report

Spec == Init /\ [][Next]_vars

\* It always reports.
Reports == <>(report /= NoReport)

=============================================================================
