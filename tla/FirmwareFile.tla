---------------------------- MODULE FirmwareFile ----------------------------
(***************************************************************************)
(* A firmware file as its readers see it through an io.ReadSeeker.  The    *)
(* file has a size and, at the byte offsets where a reader finds a field,  *)
(* the value of that field: a magic or another text, a number, or a hash.  *)
(* The bytes no field is given for are zero.  A read of n bytes at p       *)
(* succeeds when the file has them all; a seek may go anywhere.            *)
(***************************************************************************)
EXTENDS Integers

\* What zero bytes decode to.
NoText == ""
NoHash == [alg |-> "zero"]

IsFile(f) ==
  /\ f.size \in Nat
  /\ DOMAIN f.number \subseteq Nat
  /\ \A p \in DOMAIN f.number : f.number[p] \in Nat

Fits(f, p, n) == p + n <= f.size

Text(f, p)   == IF p \in DOMAIN f.text   THEN f.text[p]   ELSE NoText
Number(f, p) == IF p \in DOMAIN f.number THEN f.number[p] ELSE 0
Hash(f, p)   == IF p \in DOMAIN f.hash   THEN f.hash[p]   ELSE NoHash

\* The fields of a table that start in the bytes from..to-1, by their place
\* among those bytes.
FieldsIn(table, from, to) ==
  [i \in {p - from : p \in {q \in DOMAIN table : q \in from .. to - 1}} |->
     table[from + i]]

\* The bytes from..to-1 of the file, wherever in a file they are.
Content(f, from, to) ==
  [length |-> to - from,
   text   |-> FieldsIn(f.text, from, to),
   number |-> FieldsIn(f.number, from, to),
   hash   |-> FieldsIn(f.hash, from, to)]

\* A hash without collisions: it is the bytes it was computed from.
SHA256(bytes) == [alg |-> "sha256", of |-> bytes]

=============================================================================
