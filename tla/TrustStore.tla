----------------------------- MODULE TrustStore -----------------------------
(***************************************************************************)
(* NewValidator (titan/dice/titandice/dice_certificate_validator.go) and   *)
(* the calls titancertutil makes of it: each call parses the root files    *)
(* one at a time into a map from KeyID to certificate, and either returns  *)
(* a validator or fails.                                                   *)
(*                                                                         *)
(* titancertutil collects the embedded roots by ranging over a Go map, so  *)
(* the files come in an order that differs from one call to the next: the  *)
(* loop here takes any file that is left.                                  *)
(***************************************************************************)
EXTENDS ScribeCertificates

CONSTANT Options    \* the options NewValidator is called with, NoOptions included

NoOptions   == [files |-> {}, infos |-> {}, nil |-> TRUE]
NoValidator == [files |-> {}, scribeCerts |-> << >>, infos |-> {}]

VARIABLES
  options,      \* the options of the call in progress, or of the last one
  pending,      \* its files the loop has not reached
  scribeCerts,  \* the map the loop has built so far
  outcome,      \* "none" before the first call, then "running", "ok" or "error"
  validator     \* the validator it returned, NoValidator for nil

vars == <<options, pending, scribeCerts, outcome, validator>>

------------------------------------------------------------------------------
\* Mutant of SubjectID: the identifier is of whole coordinates, leading zeros too.
SubjectIDWhole(file) == DocumentedKeyID(ParseScribeCertificate(file).subject)

SubjectID(file) == ComputeKeyIDECDSA(ParseScribeCertificate(file).subject)

WellFormed(file) == ParseScribeCertificate(file) # NotACertificate

\* Assignment to a map: the entry of the key is added or overwritten.
Put(map, key, value) ==
  [k \in DOMAIN map \cup {key} |-> IF k = key THEN value ELSE map[k]]

Init ==
  /\ options = NoOptions
  /\ pending = {}
  /\ scribeCerts = << >>
  /\ outcome = "none"
  /\ validator = NoValidator

\* Mutant of Call: the map of the last call is not emptied.
CallKeepsMap ==
  /\ outcome # "running"
  /\ \E o \in Options :
       /\ options' = o
       /\ pending' = o.files
       /\ outcome' = IF o.nil THEN "error" ELSE "running"
  /\ validator' = NoValidator
  /\ UNCHANGED scribeCerts

Call ==
  /\ outcome # "running"
  /\ \E o \in Options :
       /\ options' = o
       /\ pending' = o.files
       /\ scribeCerts' = << >>
       /\ outcome' = IF o.nil THEN "error" ELSE "running"
  /\ validator' = NoValidator

AddRoot(file) ==
  /\ outcome = "running"
  /\ file \in pending
  /\ WellFormed(file)
  /\ pending' = pending \ {file}
  /\ scribeCerts' = Put(scribeCerts, SubjectID(file), ParseScribeCertificate(file))
  /\ UNCHANGED <<options, outcome, validator>>

\* Mutants of RejectRoot: the loop goes on to the next file; it tries again.
SkipRoot(file) ==
  /\ outcome = "running"
  /\ file \in pending
  /\ ~WellFormed(file)
  /\ pending' = pending \ {file}
  /\ UNCHANGED <<options, scribeCerts, outcome, validator>>
RetryRoot(file) ==
  /\ outcome = "running"
  /\ file \in pending
  /\ ~WellFormed(file)
  /\ UNCHANGED vars

RejectRoot(file) ==
  /\ outcome = "running"
  /\ file \in pending
  /\ ~WellFormed(file)
  /\ outcome' = "error"
  /\ UNCHANGED <<options, pending, scribeCerts, validator>>

Return ==
  /\ outcome = "running"
  /\ pending = {}
  /\ outcome' = "ok"
  /\ validator' = [files |-> options.files, scribeCerts |-> scribeCerts,
                   infos |-> options.infos]
  /\ UNCHANGED <<options, pending, scribeCerts>>

Loop == Return \/ \E file \in pending : AddRoot(file) \/ RejectRoot(file)

Next == Call \/ Loop

\* A call runs to its end: the loop is sequential code that nothing blocks.
Spec == Init /\ [][Next]_vars /\ WF_vars(Loop)

------------------------------------------------------------------------------
(* Properties.                                                             *)

\* The state's shape: the map of the call in progress is a map from KeyIDs.
TypeOK ==
  /\ options \in Options \cup {NoOptions}
  /\ pending \subseteq options.files
  /\ outcome \in {"none", "running", "ok", "error"}
  /\ \A id \in DOMAIN scribeCerts : id = ComputeKeyIDECDSA(scribeCerts[id].subject)

\* A map built from these files holds, under the identifier of each of them,
\* one of those that have this identifier, and nothing else.
BuiltFrom(map, files) ==
  /\ DOMAIN map = {SubjectID(f) : f \in files}
  /\ \A id \in DOMAIN map :
       \E f \in files : SubjectID(f) = id /\ map[id] = ParseScribeCertificate(f)

\* What a validator trusts is what its call was given and nothing left over
\* from an earlier or failed call: every entry of its map is one of its own
\* files, all of them parsed, whatever the order of the loop.
TrustsOwnRoots ==
  /\ \A f \in validator.files : WellFormed(f)
  /\ BuiltFrom(validator.scribeCerts, validator.files)

\* A call fails exactly when its options are nil or one of its files is not a
\* certificate, whatever the loop had accepted before it got there.
FailsOnBadRoot ==
  /\ outcome = "error" => options.nil \/ \E f \in options.files : ~WellFormed(f)
  /\ outcome = "ok" => ~options.nil /\ \A f \in options.files : WellFormed(f)

\* Every call returns, with a validator or an error.
CallsReturn == outcome = "running" ~> outcome \in {"ok", "error"}

=============================================================================
