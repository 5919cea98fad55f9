---------------------------- MODULE MCTrustStore ----------------------------
(***************************************************************************)
(* TrustStore over thirteen root files: well-formed ones of both types, a  *)
(* Titan and a self-signed certificate of one key, two keys whose          *)
(* coordinates concatenate alike once their zero top bytes are gone, and   *)
(* one file for each way of not being a certificate.                       *)
(***************************************************************************)
EXTENDS TrustStore, FiniteSets

CONSTANT MaxFiles  \* bound on the files of one call

K(x1, x2, y1, y2) == [x |-> <<x1, x2>>, y |-> <<y1, y2>>]

MCPrefix4(id) == id.sha256[1]
MCCurveOrder == 4
Infinity == K(0, 0, 0, 0)
MCOnCurve(key) == key # Infinity

TitanFile(key) ==
  [magic |-> TitanScribeCertificateMagic, bytes |-> 300, authority |-> K(9, 9, 9, 9),
   subject |-> key, r |-> 1, s |-> 3]
SelfSignedFile(key) ==
  [TitanFile(key) EXCEPT !.magic = SelfSignedScribeCertificateMagic, !.authority = Infinity]

Good == {TitanFile(K(1, 1, 1, 1)), TitanFile(K(1, 2, 3, 4)), SelfSignedFile(K(2, 1, 1, 1)),
         SelfSignedFile(K(1, 1, 1, 1)),                       \* two types, one key
         TitanFile(K(1, 0, 2, 3)), TitanFile(K(1, 2, 3, 0))}  \* alike once stripped

Bad == {[TitanFile(K(1, 1, 1, 1)) EXCEPT !.r = 0],
        [TitanFile(K(1, 1, 1, 1)) EXCEPT !.s = MCCurveOrder],
        [TitanFile(K(1, 1, 1, 1)) EXCEPT !.authority = Infinity],
        [SelfSignedFile(K(2, 1, 1, 1)) EXCEPT !.bytes = 299],
        [TitanFile(K(1, 2, 3, 4)) EXCEPT !.bytes = 3],
        [SelfSignedFile(K(1, 2, 3, 4)) EXCEPT !.magic = 27713],
        [SelfSignedFile(Infinity) EXCEPT !.r = 2]}

MCOptions ==
  {NoOptions}
    \cup {[files |-> f, infos |-> {1}, nil |-> FALSE]
            : f \in {g \in SUBSET (Good \cup Bad) : Cardinality(g) <= MaxFiles
                                                  /\ Cardinality(g \cap Bad) <= 1}}
=============================================================================
