------------------------------ MODULE TitanKeys ------------------------------
(***************************************************************************)
(* P-256 public keys of the Titan root of trust and the two identifiers    *)
(* derived from them (titan/dice/titandice/key_utils.go).                  *)
(*                                                                         *)
(* A key is a record [x, y] of coordinates; a coordinate is a sequence of  *)
(* bytes, least significant byte first, as certificates store it.  SHA-256 *)
(* is symbolic and free of collisions on its first 16 bytes (a KeyID); its *)
(* first 4 bytes (a KeyInfo) are what the constant operator Prefix4 makes  *)
(* of a KeyID, so that two keys may share a KeyInfo, as 32 bits allow.     *)
(***************************************************************************)
EXTENDS Integers, Sequences

CONSTANT Prefix4(_)

------------------------------------------------------------------------------
(* Identifiers as the code computes them.                                  *)

KeyIDOf(bytes) == [sha256 |-> bytes]

\* big.Int.Bytes drops the zero bytes at the most significant end, which is
\* the tail of a little-endian coordinate.
Significant(coord) ==
  SubSeq(coord, 1, CHOOSE n \in 0 .. Len(coord) :
                     /\ n > 0 => coord[n] # 0
                     /\ \A i \in (n + 1) .. Len(coord) : coord[i] = 0)

ComputeKeyIDECDSA(key) == KeyIDOf(Significant(key.x) \o Significant(key.y))

ComputeKeyInfoTitan(key) == Prefix4(KeyIDOf(key.x \o key.y))

\* The maps NewValidator may build of these roots: under each KeyID, a certificate
\* whose subject has it.  TrustStore has the loop that builds one of them.
NewValidatorMaps(roots) ==
  LET id(c) == ComputeKeyIDECDSA(c.subject)
  IN  {m \in [{id(c) : c \in roots} -> roots] : \A i \in DOMAIN m : id(m[i]) = i}

------------------------------------------------------------------------------
(* The KeyID as structures.go, key_utils.go and the README document it,    *)
(* SHA256(x || y)[0:16] over whole P256_INTs: what Scribe puts in a        *)
(* certificate it signs.                                                   *)

DocumentedKeyID(key) == KeyIDOf(key.x \o key.y)

Byte == 0 .. 255

IsCoordinate(coord) == coord \in Seq(Byte) /\ Len(coord) > 0

IsKey(key) ==
  /\ key = [x |-> key.x, y |-> key.y]
  /\ IsCoordinate(key.x) /\ IsCoordinate(key.y)

FullWidth(coord) == coord[Len(coord)] # 0

\* A key whose coordinates have no zero top byte.
WholeKey(key) == FullWidth(key.x) /\ FullWidth(key.y)

=============================================================================
