-------------------------- MODULE FirmwareVerdict --------------------------
(***************************************************************************)
(* What may be reported of a firmware file: the bundle it is, or else the  *)
(* last descriptor in it, or else that it is neither; and, when a call on  *)
(* it has failed, no more than it holds.                                   *)
(***************************************************************************)
EXTENDS DescriptorLayout, BundleV2

Refused == [kind |-> "error"]
Crash   == [kind |-> "panic"]

Bundle(f, o) ==
  [kind |-> "titan_v2", version |-> TitanImageMetadataV2(f, o).Major,
   digest |-> TitanImageMetadataV2(f, o).Digest]

\* A descriptor is reported by the type of its hash and the bytes hashed: up to
\* to, and then fill that are not in the file.
Described(f, o, to, fill) ==
  [kind |-> "image_descriptor", hashType |-> Descriptor(f, o).HashType,
   from |-> o, to |-> to, fill |-> fill]

\* The bytes in front of the signature value end here.
KeyEnd(f, o) ==
  LET sig == NewSignature(Descriptor(f, o).VerificationScheme)
  IN SignatureAt(f, o) + sig.size - sig.value

\* A descriptor with regions and a hash structure is reported up to its
\* signature value; where the signature is not whole, or could not be read, as
\* many bytes of it as need be are made up.  No other can be hashed.
OfDescriptor(f, o, whole) ==
  IF Descriptor(f, o).RegionCount > 0 /\ Text(f, HashAt(f, o)) = HashMagic
  THEN {Described(f, o, KeyEnd(f, o) - cut, cut) :
          cut \in 0 .. (IF whole THEN 0 ELSE KeyEnd(f, o) - SignatureAt(f, o))}
  ELSE {Refused, Crash}

IsWhole(f, o) ==
  Fits(f, SignatureAt(f, o), NewSignature(Descriptor(f, o).VerificationScheme).size)

Descriptors(f) == {o \in Boundary(f) : IsDescriptor(f, o)}
IsLast(f, o) == \A p \in Descriptors(f) : p <= o

IsBundle(f) == HashBundleV2(f, ScanHeader(f, {}))

\* The reports the file allows.
Verdict(f) ==
  IF IsBundle(f) THEN {Bundle(f, ScanHeader(f, {}))}
  ELSE IF Descriptors(f) = {} THEN {Refused}
  ELSE UNION {OfDescriptor(f, o, IsWhole(f, o)) : o \in {p \in Descriptors(f) : IsLast(f, p)}}

\* The reports it allows once a call on it has failed: anything it holds.
Excused(f) ==
  {Refused}
  \cup {Bundle(f, o) : o \in {p \in {0, 12} : HashBundleV2(f, p)}}
  \cup UNION {OfDescriptor(f, o, FALSE) : o \in Descriptors(f)}

=============================================================================
