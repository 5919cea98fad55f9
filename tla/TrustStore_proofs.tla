-------------------------- MODULE TrustStore_proofs --------------------------
(***************************************************************************)
(* Proofs about TrustStore, for any options, any files and any order of    *)
(* the loop, any curve and any hash.                                       *)
(***************************************************************************)
EXTENDS TrustStore, TLAPS

\* The inductive invariant: the map under construction is built from exactly
\* the files the loop has reached, all of them certificates; the validator
\* from all files of its call.
Progress ==
  outcome = "running" =>
    /\ ~options.nil
    /\ \A f \in options.files \ pending : WellFormed(f)
    /\ BuiltFrom(scribeCerts, options.files \ pending)

IsMap(m) == m = [k \in DOMAIN m |-> m[k]]

MapsKept == IsMap(scribeCerts) /\ IsMap(validator.scribeCerts)

IInv == TypeOK /\ MapsKept /\ Progress /\ TrustsOwnRoots /\ FailsOnBadRoot

USE DEF NoOptions, NoValidator

\* The empty map is built from no files.
LEMMA EmptyMap == BuiltFrom(<< >>, {}) /\ IsMap(<< >>)
  BY DEF BuiltFrom, IsMap

\* One more file put under its identifier, over an earlier one perhaps: the
\* map is built from the files before and this one.
LEMMA PutBuilds ==
  ASSUME NEW map, NEW files, NEW file, BuiltFrom(map, files)
  PROVE  BuiltFrom(Put(map, SubjectID(file), ParseScribeCertificate(file)), files \cup {file})
<1> DEFINE new == Put(map, SubjectID(file), ParseScribeCertificate(file))
<1>1. DOMAIN new = DOMAIN map \cup {SubjectID(file)}
  BY DEF Put
<1>2. \A id \in DOMAIN new :
         new[id] = IF id = SubjectID(file) THEN ParseScribeCertificate(file) ELSE map[id]
  BY DEF Put
<1>3. DOMAIN new = {SubjectID(f) : f \in files \cup {file}}
  BY <1>1 DEF BuiltFrom
<1>4. ASSUME NEW id \in DOMAIN new
      PROVE  \E f \in files \cup {file} :
               SubjectID(f) = id /\ new[id] = ParseScribeCertificate(f)
  <2>1. CASE id = SubjectID(file)
    BY <1>2, <2>1
  <2>2. CASE id # SubjectID(file)
    <3>1. id \in DOMAIN map /\ new[id] = map[id]
      BY <1>1, <1>2, <2>2
    <3>2. PICK f \in files : SubjectID(f) = id /\ map[id] = ParseScribeCertificate(f)
      BY <3>1 DEF BuiltFrom
    <3> QED BY <3>1, <3>2
  <2> QED BY <2>1, <2>2
<1> QED BY <1>3, <1>4 DEF BuiltFrom

\* In a map built from files each certificate stands under its own identifier.
LEMMA BuiltIsKeyed ==
  ASSUME NEW map, NEW files, BuiltFrom(map, files)
  PROVE  \A id \in DOMAIN map : id = ComputeKeyIDECDSA(map[id].subject)
  BY DEF BuiltFrom, SubjectID

\* Before the first call nothing is pending; each action keeps the invariant.
LEMMA InitHolds == Init => IInv
<1> SUFFICES ASSUME Init PROVE IInv
  OBVIOUS
<1>1. TypeOK
  BY DEF Init, TypeOK
<1>2. TrustsOwnRoots
  BY EmptyMap DEF Init, TrustsOwnRoots
<1>3. MapsKept
  BY EmptyMap DEF Init, MapsKept
<1> QED BY <1>1, <1>2, <1>3 DEF IInv, Progress, FailsOnBadRoot, Init

\* Entering NewValidator keeps the invariant: the map is empty.
LEMMA CallKeeps == IInv /\ Call => IInv'
<1> SUFFICES ASSUME IInv, Call PROVE IInv'
  OBVIOUS
<1>1. PICK o \in Options : /\ options' = o /\ pending' = o.files /\ scribeCerts' = << >>
                           /\ outcome' = IF o.nil THEN "error" ELSE "running"
  BY DEF Call
<1>2. validator' = NoValidator
  BY DEF Call
<1>3. TypeOK'
  BY <1>1 DEF TypeOK
<1>4. Progress'
  <2>1. (options.files \ pending)' = {}
    BY <1>1
  <2> QED BY <1>1, <2>1, EmptyMap DEF Progress
<1>5. TrustsOwnRoots'
  BY <1>2, EmptyMap DEF TrustsOwnRoots
<1>6. FailsOnBadRoot'
  BY <1>1 DEF FailsOnBadRoot
<1>7. MapsKept'
  BY <1>1, <1>2, EmptyMap DEF MapsKept
<1> QED BY <1>3, <1>4, <1>5, <1>6, <1>7 DEF IInv

\* Adding a root keeps it: the map is built from one file more.
LEMMA AddRootKeeps == ASSUME NEW file PROVE IInv /\ AddRoot(file) => IInv'
<1> SUFFICES ASSUME IInv, AddRoot(file) PROVE IInv'
  OBVIOUS
<1> USE DEF AddRoot
<1>1. (options.files \ pending)' = (options.files \ pending) \cup {file}
  BY DEF IInv, TypeOK
<1>2. BuiltFrom(scribeCerts', (options.files \ pending)')
  BY <1>1, PutBuilds DEF IInv, Progress
<1>3. Progress'
  BY <1>1, <1>2 DEF IInv, Progress
<1>4. TypeOK'
  BY <1>2, BuiltIsKeyed DEF IInv, TypeOK
<1>5. TrustsOwnRoots' /\ FailsOnBadRoot'
  BY DEF IInv, TrustsOwnRoots, FailsOnBadRoot
<1>6. MapsKept'
  BY DEF IInv, MapsKept, IsMap, Put
<1> QED BY <1>3, <1>4, <1>5, <1>6 DEF IInv

\* Failing on a bad root keeps it.
LEMMA RejectRootKeeps == ASSUME NEW file PROVE IInv /\ RejectRoot(file) => IInv'
  BY DEF RejectRoot, IInv, TypeOK, MapsKept, Progress, TrustsOwnRoots, FailsOnBadRoot

\* Returning keeps it: the map has passed every file of the call.
LEMMA ReturnKeeps == IInv /\ Return => IInv'
<1> SUFFICES ASSUME IInv, Return PROVE IInv'
  OBVIOUS
<1> USE DEF Return
<1>1. /\ \A f \in options.files : WellFormed(f)
      /\ BuiltFrom(scribeCerts, options.files)
      /\ ~options.nil
  <2>1. options.files \ pending = options.files
    OBVIOUS
  <2> QED BY <2>1 DEF IInv, Progress
<1>2. TrustsOwnRoots' /\ FailsOnBadRoot'
  BY <1>1 DEF TrustsOwnRoots, FailsOnBadRoot
<1>3. TypeOK' /\ Progress' /\ MapsKept'
  BY DEF IInv, TypeOK, Progress, MapsKept
<1> QED BY <1>2, <1>3 DEF IInv

\* So does a step that changes nothing.
LEMMA StutterKeeps == IInv /\ UNCHANGED vars => IInv'
  BY DEF vars, IInv, TypeOK, MapsKept, Progress, TrustsOwnRoots, FailsOnBadRoot

\* The inductive invariant holds in every state of every session.
THEOREM LoopInvariant == Spec => []IInv
<1>1. IInv /\ [Next]_vars => IInv'
  BY CallKeeps, AddRootKeeps, RejectRootKeeps, ReturnKeeps, StutterKeeps DEF Next, Loop
<1> QED BY InitHolds, <1>1, PTL DEF Spec

\* Type correctness: whatever the loop of NewValidator has read, each
\* certificate of its map stands under the KeyID of its own subject.
THEOREM TypeCorrect == Spec => []TypeOK
<1>1. IInv => TypeOK
  BY DEF IInv
<1> QED BY LoopInvariant, <1>1, PTL

\* A validator trusts its own root files and nothing else, in whatever order
\* the loop of NewValidator met them.
THEOREM OwnRootsOnly == Spec => []TrustsOwnRoots
<1>1. IInv => TrustsOwnRoots
  BY DEF IInv
<1> QED BY LoopInvariant, <1>1, PTL

\* The roots of a call: what its files parse to.
Roots(files) == {ParseScribeCertificate(f) : f \in files}

\* The map of a validator is one of those that DiceChain supposes NewValidator to
\* make of the roots it was given: the sessions of DiceChain start from what the
\* loop really builds.
THEOREM MapsAsDiceChainSupposes ==
  Spec => [](validator.scribeCerts \in NewValidatorMaps(Roots(validator.files)))
<1>1. ASSUME IInv
      PROVE  validator.scribeCerts \in NewValidatorMaps(Roots(validator.files))
  <2> DEFINE map   == validator.scribeCerts
             files == validator.files
             ids   == {ComputeKeyIDECDSA(c.subject) : c \in Roots(files)}
  <2>1. BuiltFrom(map, files)
    BY <1>1 DEF IInv, TrustsOwnRoots
  <2>2. DOMAIN map = ids
    BY <2>1 DEF BuiltFrom, SubjectID, Roots
  <2>3. \A id \in DOMAIN map : map[id] \in Roots(files)
    BY <2>1 DEF BuiltFrom, Roots
  <2>4. \A id \in DOMAIN map : ComputeKeyIDECDSA(map[id].subject) = id
    BY <2>1, BuiltIsKeyed
  <2>5. map = [id \in DOMAIN map |-> map[id]]
    BY <1>1 DEF IInv, MapsKept, IsMap
  <2> HIDE DEF map, files
  <2>6. map \in [ids -> Roots(files)]
    BY <2>2, <2>3, <2>5
  <2> QED BY <2>2, <2>4, <2>6 DEF NewValidatorMaps, map, files
<1> QED BY <1>1, LoopInvariant, PTL

\* A call fails for a bad root and for nothing else, and succeeds only when it
\* has none.
THEOREM BadRootFails == Spec => []FailsOnBadRoot
<1>1. IInv => FailsOnBadRoot
  BY DEF IInv
<1> QED BY LoopInvariant, <1>1, PTL

=============================================================================
