------------------------------- MODULE PCRBank -------------------------------
(***************************************************************************)
(* Banks of simulated SHA-256 PCRs (titan/measurements/pcr.go): a caller   *)
(* extends them and performs the two launches, S-HRTM into PCR 0 and DRTM  *)
(* into PCR 17, in any order.  There are several banks because a bank is   *)
(* made to be compared with another: the one a verifier replays and the    *)
(* one that was quoted.                                                    *)
(*                                                                         *)
(* Bytes are tuples: <<name>> for bytes written out, <<"sha256", msg>> for *)
(* the digest of the concatenation msg, whose parts all but the last have  *)
(* 32 bytes.  SHA-256 has no collisions and hits none of the start values. *)
(***************************************************************************)
EXTENDS Integers, Sequences

CONSTANTS
  Bank,
  Index,     \* the indices Extend and Event are called with, any integers
  Data,      \* the bytes a caller extends with or measures
  MaxMeasurements   \* bound on the extensions and launches of a behaviour

ASSUME CallsAssumption == Index \subseteq Int /\ MaxMeasurements \in Nat

NumPCRs == 24
sHrtmPcrIndex == 0
drtmPcrIndex  == 17
PCRIndex == 0 .. NumPCRs - 1

SHA256(msg) == <<"sha256", msg>>

Zeros == <<"00..00">>
Ones  == <<"ff..ff">>
Locality4 == <<"00..04">>

VARIABLES
  pcrs,     \* the digest of each PCR of each bank
  err,      \* did the last call return an error?
  history,  \* what happened to each PCR since NewPCRBank or its last launch:
            \* whether it was launched, and the data extended into it in order
  measurements   \* the number of extensions and launches so far

vars == <<pcrs, err, history, measurements>>

------------------------------------------------------------------------------
\* Mutant of NewPCRBank: PCR 17 starts like the PCRs before it.
NewPCRBankFrom18 == [i \in PCRIndex |-> IF i \in 18 .. 22 THEN Ones ELSE Zeros]

\* PCRs 17-22 start from all ones, as in the TCG PC Client profile.
NewPCRBank == [i \in PCRIndex |-> IF i \in 17 .. 22 THEN Ones ELSE Zeros]

Fresh == [launched |-> FALSE, measured |-> << >>]

\* Mutant of Extended: the data takes the place of the digest.
Overwritten(digest, data) == data

Extended(digest, data) == SHA256(<<digest, data>>)

Measured(past, data) == [past EXCEPT !.measured = Append(@, data)]

Launched(data) == [launched |-> TRUE, measured |-> <<data>>]

Init ==
  /\ pcrs = [b \in Bank |-> NewPCRBank]
  /\ err = FALSE
  /\ history = [b \in Bank |-> [i \in PCRIndex |-> Fresh]]
  /\ measurements = 0

Count == measurements < MaxMeasurements /\ measurements' = measurements + 1

Create(b) ==
  /\ pcrs' = [pcrs EXCEPT ![b] = NewPCRBank]
  /\ history' = [history EXCEPT ![b] = [i \in PCRIndex |-> Fresh]]
  /\ err' = FALSE
  /\ UNCHANGED measurements

Extend(b, i, data) ==
  IF i < 0 \/ i >= NumPCRs
  THEN err' = TRUE /\ UNCHANGED <<pcrs, history, measurements>>
  ELSE /\ Count
       /\ pcrs' = [pcrs EXCEPT ![b][i] = Extended(@, data)]
       /\ history' = [history EXCEPT ![b][i] = Measured(@, data)]
       /\ err' = FALSE

Event(b, i, data) == Extend(b, i, SHA256(<<data>>))

\* Locality 4 is the start value of an S-HRTM measurement of Titan.
PerformSHRTM(b, data) ==
  /\ Count
  /\ pcrs' = [pcrs EXCEPT ![b][sHrtmPcrIndex] = Extended(Locality4, SHA256(<<data>>))]
  /\ history' = [history EXCEPT ![b][sHrtmPcrIndex] = Launched(SHA256(<<data>>))]
  /\ err' = FALSE

\* Mutant of PerformDRTM: the measurement goes to PCR 0.
PerformDRTMInto0(b, data) ==
  /\ Count
  /\ pcrs' = [pcrs EXCEPT ![b][sHrtmPcrIndex] = Extended(Zeros, SHA256(<<data>>))]
  /\ history' = [history EXCEPT ![b][sHrtmPcrIndex] = Launched(SHA256(<<data>>))]
  /\ err' = FALSE

PerformDRTM(b, data) ==
  /\ Count
  /\ pcrs' = [pcrs EXCEPT ![b][drtmPcrIndex] = Extended(Zeros, SHA256(<<data>>))]
  /\ history' = [history EXCEPT ![b][drtmPcrIndex] = Launched(SHA256(<<data>>))]
  /\ err' = FALSE

Next ==
  \E b \in Bank :
    \/ Create(b)
    \/ \E i \in Index, data \in Data : Extend(b, i, data) \/ Event(b, i, data)
    \/ \E data \in Data : PerformSHRTM(b, data) \/ PerformDRTM(b, data)

Spec == Init /\ [][Next]_vars

------------------------------------------------------------------------------
(* Properties.                                                             *)

IsDigest(bytes) == bytes \in {Zeros, Ones, Locality4} \/ Len(bytes) = 2

\* Each bank has its 24 PCRs and each PCR holds 32 bytes, whatever it was
\* extended with.
TypeOK ==
  /\ \A b \in Bank : DOMAIN pcrs[b] = PCRIndex /\ DOMAIN history[b] = PCRIndex
  /\ \A b \in Bank, i \in PCRIndex : IsDigest(pcrs[b][i])
  /\ measurements \in 0 .. MaxMeasurements

\* A PCR has the same value in two banks exactly when the same happened to it
\* in both: it was launched in both or in neither, and the same data followed
\* in the same order.  So a replayed bank matches a quote only of a device that
\* did what was replayed, a launch cannot be imitated by extending, and Event
\* is told from Extend of the same data.
ValueTellsHistory ==
  \A b, c \in Bank, i \in PCRIndex :
    pcrs[b][i] = pcrs[c][i] <=> history[b][i] = history[c][i]

Extends(new, old) == Len(new) = 2 /\ Len(new[2]) = 2 /\ new[2][1] = old

\* A call that fails changes nothing, and one that succeeds changes one PCR and
\* loses none of what it held: only S-HRTM starts PCR 0 again and only DRTM PCR
\* 17, from a value that says so, and only NewPCRBank any other.
HistoryKept ==
  [][ /\ err' => pcrs' = pcrs
      /\ \A b \in Bank, i \in PCRIndex :
           pcrs'[b][i] # pcrs[b][i] /\ pcrs'[b] # NewPCRBank =>
             /\ pcrs' = [pcrs EXCEPT ![b][i] = pcrs'[b][i]]
             /\ \/ Extends(pcrs'[b][i], pcrs[b][i])
                \/ i = sHrtmPcrIndex /\ Extends(pcrs'[b][i], Locality4)
                \/ i = drtmPcrIndex /\ Extends(pcrs'[b][i], Zeros) ]_vars

=============================================================================
