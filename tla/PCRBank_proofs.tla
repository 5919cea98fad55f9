--------------------------- MODULE PCRBank_proofs ---------------------------
(***************************************************************************)
(* Proofs about PCRBank, for any banks, indices, data and bound.           *)
(***************************************************************************)
EXTENDS PCRBank, SequenceTheorems, TLAPS

\* The banks and their histories are functions, of as many PCRs as there are.
Shape ==
  /\ pcrs = [b \in Bank |-> [i \in PCRIndex |-> pcrs[b][i]]]
  /\ history = [b \in Bank |-> [i \in PCRIndex |-> history[b][i]]]

IInv == Shape /\ TypeOK

\* The indices Extend accepts are those of PCRs.
LEMMA CheckedIndex ==
  ASSUME NEW i \in Index, ~(i < 0 \/ i >= NumPCRs)
  PROVE  i \in PCRIndex
  BY CallsAssumption DEF PCRIndex, NumPCRs

\* The indices of the two launches are those of PCRs.
LEMMA LaunchIndex == sHrtmPcrIndex \in PCRIndex /\ drtmPcrIndex \in PCRIndex
  BY DEF sHrtmPcrIndex, drtmPcrIndex, PCRIndex, NumPCRs

\* An extension has 32 bytes and keeps the digest it extends.
LEMMA ExtendedExtends ==
  ASSUME NEW digest, NEW data
  PROVE  IsDigest(Extended(digest, data)) /\ Extends(Extended(digest, data), digest)
  BY DEF Extended, Extends, SHA256, IsDigest

\* What a call that changes one PCR does to the state.
Sets(b, i, digest, past) ==
  /\ pcrs' = [pcrs EXCEPT ![b][i] = digest]
  /\ history' = [history EXCEPT ![b][i] = past]
  /\ measurements' = measurements + 1
  /\ measurements < MaxMeasurements
  /\ err' = FALSE

\* Extend fails and changes nothing, or extends the one PCR it names.
LEMMA ExtendSets ==
  ASSUME IInv, NEW b \in Bank, NEW i \in Index, NEW data, Extend(b, i, data)
  PROVE  \/ err' = TRUE /\ UNCHANGED <<pcrs, history, measurements>>
         \/ /\ i \in PCRIndex
            /\ Sets(b, i, Extended(pcrs[b][i], data), Measured(history[b][i], data))
<1>1. CASE i < 0 \/ i >= NumPCRs
  BY <1>1 DEF Extend
<1>2. CASE ~(i < 0 \/ i >= NumPCRs)
  BY <1>2, CheckedIndex DEF Extend, Sets, Count, IInv, Shape
<1> QED BY <1>1, <1>2

\* A launch sets its own PCR to an extension of its own start value.
LEMMA LaunchSets ==
  ASSUME NEW b, NEW data
  PROVE  /\ PerformSHRTM(b, data) =>
              Sets(b, sHrtmPcrIndex, Extended(Locality4, SHA256(<<data>>)),
                   Launched(SHA256(<<data>>)))
         /\ PerformDRTM(b, data) =>
              Sets(b, drtmPcrIndex, Extended(Zeros, SHA256(<<data>>)),
                   Launched(SHA256(<<data>>)))
  BY DEF PerformSHRTM, PerformDRTM, Sets, Count

\* Setting one PCR to a digest keeps the invariant.
LEMMA SetsKeeps ==
  ASSUME IInv, NEW b \in Bank, NEW i \in PCRIndex, NEW digest, NEW past,
         IsDigest(digest), Sets(b, i, digest, past)
  PROVE  IInv'
<1> USE DEF Sets
<1>1. Shape'
  BY DEF IInv, Shape
<1>2. \A c \in Bank : DOMAIN pcrs'[c] = PCRIndex /\ DOMAIN history'[c] = PCRIndex
  BY <1>1 DEF Shape
<1>3. \A c \in Bank, j \in PCRIndex : IsDigest(pcrs'[c][j])
  BY DEF IInv, Shape, TypeOK
<1>4. measurements' \in 0 .. MaxMeasurements
  BY CallsAssumption DEF IInv, TypeOK
<1> QED BY <1>1, <1>2, <1>3, <1>4 DEF IInv, TypeOK

\* Setting one PCR to an extension of what it held, or of its launch's start
\* value, is what HistoryKept allows.
LEMMA SetsAllowed ==
  ASSUME IInv, NEW b \in Bank, NEW i \in PCRIndex, NEW digest, NEW past,
         Sets(b, i, digest, past),
         \/ Extends(digest, pcrs[b][i])
         \/ i = sHrtmPcrIndex /\ Extends(digest, Locality4)
         \/ i = drtmPcrIndex /\ Extends(digest, Zeros)
  PROVE  /\ err' => pcrs' = pcrs
         /\ \A c \in Bank, j \in PCRIndex :
              pcrs'[c][j] # pcrs[c][j] /\ pcrs'[c] # NewPCRBank =>
                /\ pcrs' = [pcrs EXCEPT ![c][j] = pcrs'[c][j]]
                /\ \/ Extends(pcrs'[c][j], pcrs[c][j])
                   \/ j = sHrtmPcrIndex /\ Extends(pcrs'[c][j], Locality4)
                   \/ j = drtmPcrIndex /\ Extends(pcrs'[c][j], Zeros)
<1> USE DEF Sets
<1>1. ASSUME NEW c \in Bank, NEW j \in PCRIndex, pcrs'[c][j] # pcrs[c][j]
      PROVE  c = b /\ j = i /\ pcrs'[c][j] = digest
  BY <1>1 DEF IInv, Shape
<1> QED BY <1>1

\* The invariant holds of new banks, at the start and later.
LEMMA InitHolds == Init => IInv
  BY CallsAssumption DEF Init, IInv, Shape, TypeOK, NewPCRBank, IsDigest

\* NewPCRBank keeps the invariant.
LEMMA CreateKeeps == ASSUME NEW b \in Bank PROVE IInv /\ Create(b) => IInv'
<1> SUFFICES ASSUME IInv, Create(b) PROVE IInv'
  OBVIOUS
<1> USE DEF Create
<1>1. Shape'
  BY DEF IInv, Shape, NewPCRBank
<1>2. \A i \in PCRIndex : IsDigest(NewPCRBank[i])
  BY DEF NewPCRBank, IsDigest
<1>3. TypeOK'
  BY <1>1, <1>2 DEF IInv, Shape, TypeOK
<1> QED BY <1>1, <1>3 DEF IInv

\* NewPCRBank does not fail, and any PCR that it changes is of the new bank.
LEMMA CreateAllowed ==
  ASSUME IInv, NEW b \in Bank, Create(b)
  PROVE  /\ err' => pcrs' = pcrs
         /\ \A c \in Bank, j \in PCRIndex :
              pcrs'[c][j] # pcrs[c][j] => pcrs'[c] = NewPCRBank
  BY DEF Create, IInv, Shape

\* Extend with whatever data, its own or an Event's digest of it.
LEMMA ExtendKeeps ==
  ASSUME IInv, NEW b \in Bank, NEW i \in Index, NEW data, Extend(b, i, data)
  PROVE  IInv'
<1>1. CASE UNCHANGED <<pcrs, history, measurements>>
  BY <1>1 DEF IInv, Shape, TypeOK
<1>2. CASE /\ i \in PCRIndex
           /\ Sets(b, i, Extended(pcrs[b][i], data), Measured(history[b][i], data))
  BY <1>2, ExtendedExtends, SetsKeeps
<1> QED BY <1>1, <1>2, ExtendSets

\* Both launches keep the invariant.
LEMMA LaunchKeeps ==
  ASSUME IInv, NEW b \in Bank, NEW data, PerformSHRTM(b, data) \/ PerformDRTM(b, data)
  PROVE  IInv'
  BY LaunchSets, LaunchIndex, ExtendedExtends, SetsKeeps

\* The inductive invariant holds in every state.
THEOREM BankInvariant == Spec => []IInv
<1>1. IInv /\ [Next]_vars => IInv'
  <2> SUFFICES ASSUME IInv, [Next]_vars PROVE IInv'
    OBVIOUS
  <2>1. CASE \E b \in Bank : Create(b)
    BY <2>1, CreateKeeps
  <2>2. CASE \E b \in Bank, i \in Index, data \in Data : Extend(b, i, data) \/ Event(b, i, data)
    BY <2>2, ExtendKeeps DEF Event
  <2>3. CASE \E b \in Bank, data \in Data : PerformSHRTM(b, data) \/ PerformDRTM(b, data)
    BY <2>3, LaunchKeeps
  <2>4. CASE UNCHANGED vars
    BY <2>4 DEF vars, IInv, Shape, TypeOK
  <2> QED BY <2>1, <2>2, <2>3, <2>4 DEF Next
<1> QED BY InitHolds, <1>1, PTL DEF Spec

\* Every PCR of every bank holds 32 bytes, whatever it was extended with.
THEOREM TypeCorrect == Spec => []TypeOK
<1>1. IInv => TypeOK
  BY DEF IInv
<1> QED BY BankInvariant, <1>1, PTL

\* No call loses what a PCR held, but S-HRTM of PCR 0, DRTM of PCR 17 and
\* NewPCRBank, and none that fails changes anything.
THEOREM PastIsKept == Spec => HistoryKept
<1> DEFINE Allowed ==
      /\ err' => pcrs' = pcrs
      /\ \A b \in Bank, i \in PCRIndex :
           pcrs'[b][i] # pcrs[b][i] /\ pcrs'[b] # NewPCRBank =>
             /\ pcrs' = [pcrs EXCEPT ![b][i] = pcrs'[b][i]]
             /\ \/ Extends(pcrs'[b][i], pcrs[b][i])
                \/ i = sHrtmPcrIndex /\ Extends(pcrs'[b][i], Locality4)
                \/ i = drtmPcrIndex /\ Extends(pcrs'[b][i], Zeros)
<1>1. ASSUME IInv, NEW b \in Bank, NEW i \in Index, NEW data, Extend(b, i, data)
      PROVE  Allowed
  <2>1. CASE UNCHANGED <<pcrs, history, measurements>>
    BY <2>1
  <2>2. CASE /\ i \in PCRIndex
             /\ Sets(b, i, Extended(pcrs[b][i], data), Measured(history[b][i], data))
    BY <1>1, <2>2, ExtendedExtends, SetsAllowed
  <2> QED BY <1>1, <2>1, <2>2, ExtendSets
<1>2. ASSUME IInv, NEW b \in Bank, NEW data, PerformSHRTM(b, data) \/ PerformDRTM(b, data)
      PROVE  Allowed
  <2>1. CASE PerformSHRTM(b, data)
    <3> DEFINE digest == Extended(Locality4, SHA256(<<data>>))
    <3>1. Sets(b, sHrtmPcrIndex, digest, Launched(SHA256(<<data>>)))
      BY <2>1, LaunchSets
    <3>2. Extends(digest, Locality4)
      BY ExtendedExtends
    <3> QED BY <1>2, <3>1, <3>2, LaunchIndex, SetsAllowed
  <2>2. CASE PerformDRTM(b, data)
    <3> DEFINE digest == Extended(Zeros, SHA256(<<data>>))
    <3>1. Sets(b, drtmPcrIndex, digest, Launched(SHA256(<<data>>)))
      BY <2>2, LaunchSets
    <3>2. Extends(digest, Zeros)
      BY ExtendedExtends
    <3> QED BY <1>2, <3>1, <3>2, LaunchIndex, SetsAllowed
  <2> QED BY <1>2, <2>1, <2>2
<1>3. IInv /\ [Next]_vars => [Allowed]_vars
  <2> SUFFICES ASSUME IInv, Next PROVE Allowed
    OBVIOUS
  <2>1. CASE \E b \in Bank : Create(b)
    BY <2>1, CreateAllowed
  <2>2. CASE \E b \in Bank, i \in Index, data \in Data : Extend(b, i, data) \/ Event(b, i, data)
    BY <2>2, <1>1 DEF Event
  <2>3. CASE \E b \in Bank, data \in Data : PerformSHRTM(b, data) \/ PerformDRTM(b, data)
    BY <2>3, <1>2
  <2> QED BY <2>1, <2>2, <2>3 DEF Next
<1> QED BY BankInvariant, <1>3, PTL DEF Spec, HistoryKept

------------------------------------------------------------------------------
(* What the value of a PCR tells.                                          *)
(*                                                                         *)
(* The state at hand does not suffice for an induction: two banks may hold *)
(* values that were extended from values no bank holds any more.  The      *)
(* invariant therefore keeps, for each PCR, a ledger of the pairs of a     *)
(* history and a value that banks have had, in which every pair is that of *)
(* a start or extends another pair, and no two pairs share one half only.  *)

\* The bytes a history is made of: Event and the launches extend digests of data.
Bytes == Data \cup {SHA256(<<data>>) : data \in Data}

\* What a launch of this PCR starts from; only PCRs 0 and 17 have one.
LaunchStart(i) == IF i = sHrtmPcrIndex THEN Locality4 ELSE Zeros

FreshPair(i) == [past |-> Fresh, digest |-> NewPCRBank[i]]

LaunchPair(i, data) == [past |-> Launched(data), digest |-> Extended(LaunchStart(i), data)]

IsLaunchPair(i, p) ==
  i \in {sHrtmPcrIndex, drtmPcrIndex} /\ \E data \in Bytes : p = LaunchPair(i, data)

Longer(q, data) ==
  [past |-> Measured(q.past, data), digest |-> Extended(q.digest, data)]

IsLonger(ledger, p) == \E q \in ledger, data \in Bytes : p = Longer(q, data)

\* A history as the ledgers hold it: of a launch, at least the launch's own data.
IsPast(past) ==
  /\ past = [launched |-> past.launched, measured |-> past.measured]
  /\ past.launched \in BOOLEAN
  /\ past.measured \in Seq(Bytes)
  /\ past.launched => past.measured # << >>

Ledger(i, ledger) ==
  /\ FreshPair(i) \in ledger
  /\ \A p \in ledger :
       /\ IsPast(p.past)
       /\ p = FreshPair(i) \/ IsLaunchPair(i, p) \/ IsLonger(ledger, p)
       /\ i \in {sHrtmPcrIndex, drtmPcrIndex} => p.digest # LaunchStart(i)
  /\ \A p, q \in ledger : p.past = q.past <=> p.digest = q.digest

Pair(b, i) == [past |-> history[b][i], digest |-> pcrs[b][i]]

LedgersKept ==
  \A i \in PCRIndex : \E ledger : Ledger(i, ledger) /\ \A b \in Bank : Pair(b, i) \in ledger

\* An extension is no start value, and tells what it extends and with what.
LEMMA ExtendedTells ==
  ASSUME NEW digest, NEW data, NEW digest2, NEW data2
  PROVE  /\ Extended(digest, data) \notin {Zeros, Ones, Locality4}
         /\ Extended(digest, data) = Extended(digest2, data2) <=> digest = digest2 /\ data = data2
  BY DEF Extended, SHA256, Zeros, Ones, Locality4

\* What a history is made of.
LEMMA PastParts ==
  ASSUME NEW past, IsPast(past)
  PROVE  \E l \in BOOLEAN, m \in Seq(Bytes) :
           past = [launched |-> l, measured |-> m] /\ (l => m # << >>)
BY DEF IsPast

\* One more measurement leaves it a launch or none.
LEMMA MeasuredParts ==
  ASSUME NEW l, NEW m, NEW data
  PROVE  Measured([launched |-> l, measured |-> m], data)
           = [launched |-> l, measured |-> Append(m, data)]
BY DEF Measured

\* And makes a history that tells the one before and the data.
LEMMA MeasuredTells ==
  ASSUME NEW past, NEW data \in Bytes, NEW past2, NEW data2 \in Bytes,
         IsPast(past), IsPast(past2)
  PROVE  /\ IsPast(Measured(past, data))
         /\ Measured(past, data).measured # << >>
         /\ Measured(past, data) = Measured(past2, data2) <=> past = past2 /\ data = data2
<1>1. PICK l \in BOOLEAN, m \in Seq(Bytes) : past = [launched |-> l, measured |-> m]
  BY PastParts
<1>2. PICK l2 \in BOOLEAN, m2 \in Seq(Bytes) : past2 = [launched |-> l2, measured |-> m2]
  BY PastParts
<1>3. /\ Measured(past, data) = [launched |-> l, measured |-> Append(m, data)]
      /\ Measured(past2, data2) = [launched |-> l2, measured |-> Append(m2, data2)]
  BY <1>1, <1>2, MeasuredParts
<1>4. Append(m, data) \in Seq(Bytes) /\ Append(m, data) # << >>
  BY AppendProperties
<1>5. Append(m, data) = Append(m2, data2) <=> m = m2 /\ data = data2
  BY AppendInjective
<1> DEFINE longer  == Append(m, data)
           longer2 == Append(m2, data2)
<1> HIDE DEF longer, longer2
<1>6. /\ IsPast(Measured(past, data))
      /\ Measured(past, data).measured # << >>
  BY <1>3, <1>4 DEF IsPast
<1>7. Measured(past, data) = Measured(past2, data2) <=> l = l2 /\ longer = longer2
  <2>1. \A v, w :
           [launched |-> l, measured |-> v] = [launched |-> l2, measured |-> w] <=> l = l2 /\ v = w
    OBVIOUS
  <2> QED BY <1>3, <2>1, Zenon DEF longer, longer2
<1>8. past = past2 <=> l = l2 /\ m = m2
  BY <1>1, <1>2
<1>9. longer = longer2 <=> m = m2 /\ data = data2
  BY <1>5 DEF longer, longer2
<1> QED BY <1>6, <1>7, <1>8, <1>9

\* A launch makes a history of its own, and its value tells its data.
LEMMA LaunchTells ==
  ASSUME NEW i, NEW data \in Bytes, NEW data2 \in Bytes
  PROVE  /\ IsPast(Launched(data))
         /\ Launched(data) # Fresh
         /\ Launched(data) = Launched(data2) <=> data = data2
         /\ LaunchPair(i, data).past = Launched(data)
         /\ LaunchPair(i, data).digest = Extended(LaunchStart(i), data)
<1>1. <<data>> \in Seq(Bytes) /\ <<data>> # << >> /\ (<<data>> = <<data2>> <=> data = data2)
  OBVIOUS
<1> QED BY <1>1 DEF IsPast, Launched, Fresh, LaunchPair

\* A history that starts with a launch is not one that was measured further.
LEMMA LaunchIsShort ==
  ASSUME NEW data \in Bytes, NEW past, NEW data2 \in Bytes, IsPast(past)
  PROVE  Launched(data) # Measured(past, data2)
<1> SUFFICES ASSUME Launched(data) = Measured(past, data2) PROVE FALSE
  OBVIOUS
<1>1. PICK l \in BOOLEAN, m \in Seq(Bytes) :
        past = [launched |-> l, measured |-> m] /\ (l => m # << >>)
  BY PastParts
<1>2. [launched |-> TRUE, measured |-> <<data>>] = [launched |-> l, measured |-> Append(m, data2)]
  BY <1>1, MeasuredParts DEF Launched
<1>3. l = TRUE /\ <<data>> = Append(m, data2)
  BY <1>2
<1>4. Len(<<data>>) = Len(m) + 1
  BY <1>3, AppendProperties
<1>5. Len(m) = 0
  BY <1>4
<1> QED BY <1>1, <1>3, <1>5, EmptySeq

\* Neither half of a new pair stands in the ledger alone.
LEMMA NewPairTells ==
  ASSUME NEW i \in PCRIndex, NEW ledger, Ledger(i, ledger),
         NEW n, IsLaunchPair(i, n) \/ IsLonger(ledger, n), NEW p \in ledger
  PROVE  /\ IsPast(n.past)
         /\ i \in {sHrtmPcrIndex, drtmPcrIndex} => n.digest # LaunchStart(i)
         /\ n.past = p.past <=> n.digest = p.digest
<1>1. CASE IsLaunchPair(i, n)
  <2>1. PICK data \in Bytes : n = LaunchPair(i, data)
    BY <1>1 DEF IsLaunchPair
  <2>2. /\ n.past = Launched(data) /\ n.digest = Extended(LaunchStart(i), data)
        /\ i \in {sHrtmPcrIndex, drtmPcrIndex}
    BY <1>1, <2>1, LaunchTells DEF IsLaunchPair
  <2>3. IsPast(n.past) /\ n.digest # LaunchStart(i)
    BY <2>2, LaunchTells, ExtendedTells DEF LaunchStart
  <2>4. CASE p = FreshPair(i)
    <3>1. p.past = Fresh /\ p.digest \in {Zeros, Ones}
      BY <2>4 DEF FreshPair, NewPCRBank
    <3> QED BY <2>2, <2>3, <3>1, LaunchTells, ExtendedTells
  <2>5. CASE IsLaunchPair(i, p)
    <3>1. PICK data2 \in Bytes : p = LaunchPair(i, data2)
      BY <2>5 DEF IsLaunchPair
    <3>2. p.past = Launched(data2) /\ p.digest = Extended(LaunchStart(i), data2)
      BY <3>1, LaunchTells
    <3> QED BY <2>2, <2>3, <3>2, LaunchTells, ExtendedTells
  <2>6. CASE IsLonger(ledger, p)
    <3>1. PICK q \in ledger, data2 \in Bytes : p = Longer(q, data2)
      BY <2>6 DEF IsLonger
    <3>2. p.past = Measured(q.past, data2) /\ p.digest = Extended(q.digest, data2)
      BY <3>1 DEF Longer
    <3>3. IsPast(q.past) /\ q.digest # LaunchStart(i)
      BY <2>2 DEF Ledger
    <3> QED BY <2>2, <2>3, <3>2, <3>3, LaunchIsShort, ExtendedTells
  <2> QED BY <2>3, <2>4, <2>5, <2>6 DEF Ledger
<1>2. CASE IsLonger(ledger, n)
  <2>1. PICK q \in ledger, data \in Bytes : n = Longer(q, data)
    BY <1>2 DEF IsLonger
  <2>2. /\ n.past = Measured(q.past, data) /\ n.digest = Extended(q.digest, data)
        /\ IsPast(q.past)
    BY <2>1 DEF Longer, Ledger
  <2>3. IsPast(n.past) /\ n.digest # LaunchStart(i)
    BY <2>2, MeasuredTells, ExtendedTells DEF LaunchStart
  <2>4. CASE p = FreshPair(i)
    <3>1. p.past.measured = << >> /\ p.digest \in {Zeros, Ones}
      BY <2>4 DEF FreshPair, NewPCRBank, Fresh
    <3> QED BY <2>2, <2>3, <3>1, MeasuredTells, ExtendedTells
  <2>5. CASE IsLaunchPair(i, p)
    <3>1. PICK data2 \in Bytes : p = LaunchPair(i, data2)
      BY <2>5 DEF IsLaunchPair
    <3>2. p.past = Launched(data2) /\ p.digest = Extended(LaunchStart(i), data2)
      BY <3>1, LaunchTells
    <3>3. q.digest # LaunchStart(i)
      BY <2>5 DEF IsLaunchPair, Ledger
    <3> QED BY <2>2, <2>3, <3>2, <3>3, LaunchIsShort, ExtendedTells
  <2>6. CASE IsLonger(ledger, p)
    <3>1. PICK r \in ledger, data2 \in Bytes : p = Longer(r, data2)
      BY <2>6 DEF IsLonger
    <3>2. /\ p.past = Measured(r.past, data2) /\ p.digest = Extended(r.digest, data2)
          /\ IsPast(r.past)
      BY <3>1 DEF Longer, Ledger
    <3>3. q.past = r.past <=> q.digest = r.digest
      BY DEF Ledger
    <3>4. n.past = p.past <=> q.past = r.past /\ data = data2
      BY <2>2, <3>2, MeasuredTells
    <3>5. n.digest = p.digest <=> q.digest = r.digest /\ data = data2
      BY <2>2, <3>2, ExtendedTells
    <3> QED BY <2>3, <3>3, <3>4, <3>5
  <2> QED BY <2>3, <2>4, <2>5, <2>6 DEF Ledger
<1> QED BY <1>1, <1>2

\* So a ledger takes a new pair that starts with a launch or extends another.
LEMMA LedgerGrows ==
  ASSUME NEW i \in PCRIndex, NEW ledger, Ledger(i, ledger),
         NEW n, IsLaunchPair(i, n) \/ IsLonger(ledger, n)
  PROVE  Ledger(i, ledger \cup {n})
<1> DEFINE longer == ledger \cup {n}
<1>1. FreshPair(i) \in longer
  BY DEF Ledger
<1>2. /\ IsPast(n.past)
      /\ i \in {sHrtmPcrIndex, drtmPcrIndex} => n.digest # LaunchStart(i)
      /\ \A p \in ledger : n.past = p.past <=> n.digest = p.digest
  BY <1>1, NewPairTells DEF Ledger
<1>3. \A p : IsLonger(ledger, p) => IsLonger(longer, p)
  BY DEF IsLonger
<1>4. ASSUME NEW p \in longer
      PROVE  /\ IsPast(p.past)
             /\ p = FreshPair(i) \/ IsLaunchPair(i, p) \/ IsLonger(longer, p)
             /\ i \in {sHrtmPcrIndex, drtmPcrIndex} => p.digest # LaunchStart(i)
  <2>1. CASE p = n
    BY <1>2, <1>3, <2>1
  <2>2. CASE p \in ledger
    BY <1>3, <2>2 DEF Ledger
  <2> QED BY <2>1, <2>2
<1>5. ASSUME NEW p \in longer, NEW q \in longer
      PROVE  p.past = q.past <=> p.digest = q.digest
  BY <1>2 DEF Ledger
<1> QED BY <1>1, <1>4, <1>5 DEF Ledger

\* The first ledgers hold the pair every PCR starts from.
LEMMA InitLedgers == Init => LedgersKept
<1> SUFFICES ASSUME Init, NEW i \in PCRIndex
             PROVE  \E ledger : Ledger(i, ledger) /\ \A b \in Bank : Pair(b, i) \in ledger
  BY DEF LedgersKept
<1>1. \A b \in Bank : Pair(b, i) = FreshPair(i)
  BY DEF Init, Pair, FreshPair
<1>2. IsPast(Fresh)
  BY DEF IsPast, Fresh
<1>3. i \in {sHrtmPcrIndex, drtmPcrIndex} => NewPCRBank[i] # LaunchStart(i)
  BY DEF sHrtmPcrIndex, drtmPcrIndex, NewPCRBank, LaunchStart, Zeros, Ones, Locality4
<1>4. FreshPair(i).past = Fresh /\ FreshPair(i).digest = NewPCRBank[i]
  BY DEF FreshPair
<1>5. Ledger(i, {FreshPair(i)})
  BY <1>2, <1>3, <1>4 DEF Ledger
<1> QED BY <1>1, <1>5

\* Setting one PCR, by a launch or a further measurement, grows its ledger only.
LEMMA SetsKeepsLedgers ==
  ASSUME Shape, LedgersKept,
         NEW b \in Bank, NEW i \in PCRIndex, NEW digest, NEW past, Sets(b, i, digest, past),
         LET n == [past |-> past, digest |-> digest]
         IN  IsLaunchPair(i, n) \/ \E data \in Bytes : n = Longer(Pair(b, i), data)
  PROVE  LedgersKept'
<1> DEFINE n == [past |-> past, digest |-> digest]
<1>1. Pair(b, i)' = n
  BY DEF Sets, Shape, Pair
<1>2. \A c \in Bank, j \in PCRIndex : c # b \/ j # i => Pair(c, j)' = Pair(c, j)
  BY DEF Sets, Shape, Pair
<1>3. ASSUME NEW j \in PCRIndex
      PROVE  \E ledger : Ledger(j, ledger) /\ \A c \in Bank : Pair(c, j)' \in ledger
  <2>1. PICK ledger : Ledger(j, ledger) /\ \A c \in Bank : Pair(c, j) \in ledger
    BY DEF LedgersKept
  <2>2. CASE j # i
    BY <1>2, <2>1, <2>2
  <2>3. CASE j = i
    <3>1. IsLaunchPair(i, n) \/ IsLonger(ledger, n)
      BY <2>1, <2>3 DEF IsLonger
    <3> HIDE DEF n
    <3>2. Ledger(i, ledger \cup {n})
      BY <2>1, <2>3, <3>1, LedgerGrows
    <3>3. \A c \in Bank : Pair(c, i)' \in ledger \cup {n}
      BY <1>1, <1>2, <2>1, <2>3
    <3> QED BY <2>3, <3>2, <3>3
  <2> QED BY <2>2, <2>3
<1> QED BY <1>3 DEF LedgersKept

\* A bank made anew has pairs that every ledger holds.
LEMMA CreateKeepsLedgers ==
  ASSUME Shape, LedgersKept, NEW b \in Bank, Create(b)
  PROVE  LedgersKept'
<1>1. \A j \in PCRIndex : Pair(b, j)' = FreshPair(j)
  BY DEF Create, Shape, Pair, FreshPair
<1>2. \A c \in Bank, j \in PCRIndex : c # b => Pair(c, j)' = Pair(c, j)
  BY DEF Create, Shape, Pair
<1>3. ASSUME NEW j \in PCRIndex
      PROVE  \E ledger : Ledger(j, ledger) /\ \A c \in Bank : Pair(c, j)' \in ledger
  <2>1. PICK ledger : Ledger(j, ledger) /\ \A c \in Bank : Pair(c, j) \in ledger
    BY DEF LedgersKept
  <2>2. FreshPair(j) \in ledger
    BY <2>1 DEF Ledger
  <2> QED BY <1>1, <1>2, <2>1, <2>2
<1> QED BY <1>3 DEF LedgersKept

\* Extend of data, or Event's digest of it, grows the ledger of the PCR it names.
LEMMA ExtendKeepsLedgers ==
  ASSUME IInv, LedgersKept, NEW b \in Bank, NEW i \in Index, NEW data \in Bytes,
         Extend(b, i, data)
  PROVE  LedgersKept'
<1>1. CASE UNCHANGED <<pcrs, history, measurements>>
  BY <1>1 DEF LedgersKept, Pair
<1>2. CASE /\ i \in PCRIndex
           /\ Sets(b, i, Extended(pcrs[b][i], data), Measured(history[b][i], data))
  <2>1. [past |-> Measured(history[b][i], data), digest |-> Extended(pcrs[b][i], data)]
          = Longer(Pair(b, i), data)
    BY DEF Longer, Pair
  <2> QED BY <1>2, <2>1, SetsKeepsLedgers DEF IInv
<1> QED BY <1>1, <1>2, ExtendSets

\* A launch grows the ledger of its own PCR.
LEMMA LaunchKeepsLedgers ==
  ASSUME IInv, LedgersKept, NEW b \in Bank, NEW data \in Data,
         PerformSHRTM(b, data) \/ PerformDRTM(b, data)
  PROVE  LedgersKept'
<1> DEFINE digest == SHA256(<<data>>)
<1>1. digest \in Bytes
  BY DEF Bytes
<1>2. ASSUME NEW i \in {sHrtmPcrIndex, drtmPcrIndex},
             Sets(b, i, Extended(LaunchStart(i), digest), Launched(digest))
      PROVE  LedgersKept'
  <2>1. IsLaunchPair(i, [past |-> Launched(digest), digest |-> Extended(LaunchStart(i), digest)])
    BY <1>1 DEF IsLaunchPair, LaunchPair
  <2> QED BY <1>2, <2>1, LaunchIndex, SetsKeepsLedgers DEF IInv
<1>3. LaunchStart(sHrtmPcrIndex) = Locality4 /\ LaunchStart(drtmPcrIndex) = Zeros
  BY DEF LaunchStart, sHrtmPcrIndex, drtmPcrIndex
<1> QED BY <1>2, <1>3, LaunchSets

\* Of every PCR there is at all times a ledger with the pairs of all banks.
THEOREM LedgerInvariant == Spec => []LedgersKept
<1>1. IInv /\ LedgersKept /\ [Next]_vars => LedgersKept'
  <2> SUFFICES ASSUME IInv, LedgersKept, [Next]_vars PROVE LedgersKept'
    OBVIOUS
  <2>1. CASE \E b \in Bank : Create(b)
    BY <2>1, CreateKeepsLedgers DEF IInv
  <2>2. CASE \E b \in Bank, i \in Index, data \in Data : Extend(b, i, data) \/ Event(b, i, data)
    <3>1. \A data \in Data : data \in Bytes /\ SHA256(<<data>>) \in Bytes
      BY DEF Bytes
    <3> QED BY <2>2, <3>1, ExtendKeepsLedgers DEF Event
  <2>3. CASE \E b \in Bank, data \in Data : PerformSHRTM(b, data) \/ PerformDRTM(b, data)
    BY <2>3, LaunchKeepsLedgers
  <2>4. CASE UNCHANGED vars
    BY <2>4 DEF vars, LedgersKept, Pair
  <2> QED BY <2>1, <2>2, <2>3, <2>4 DEF Next
<1> QED BY BankInvariant, InitLedgers, <1>1, PTL DEF Spec

\* Two banks hold the same value of a PCR exactly when the same happened to it
\* in both: the same launch or none, and the same data measured in the same
\* order, whatever the banks, the data and the length of the behaviour.
THEOREM ValueIsHistory == Spec => []ValueTellsHistory
<1>1. ASSUME LedgersKept PROVE ValueTellsHistory
  <2> SUFFICES ASSUME NEW b \in Bank, NEW c \in Bank, NEW i \in PCRIndex
               PROVE  pcrs[b][i] = pcrs[c][i] <=> history[b][i] = history[c][i]
    BY DEF ValueTellsHistory
  <2>1. PICK ledger : Ledger(i, ledger) /\ Pair(b, i) \in ledger /\ Pair(c, i) \in ledger
    BY <1>1 DEF LedgersKept
  <2>2. Pair(b, i).past = Pair(c, i).past <=> Pair(b, i).digest = Pair(c, i).digest
    BY <2>1 DEF Ledger
  <2> QED BY <2>2 DEF Pair
<1> QED BY LedgerInvariant, <1>1, PTL

=============================================================================
