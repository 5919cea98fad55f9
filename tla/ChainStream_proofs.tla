------------------------ MODULE ChainStream_proofs ------------------------
(***************************************************************************)
(* Proofs about ChainStream.                                               *)
(***************************************************************************)
EXTENDS ChainStream, DiceCertificates_proofs

------------------------------------------------------------------------------
(* Parts, one after the other.                                             *)

\* What lies between two places of a file follows what lies before the first.
LEMMA CutsJoin ==
  ASSUME NEW S, NEW f \in Seq(S), NEW a \in 0 .. Len(f), NEW b \in a .. Len(f)
  PROVE  SubSeq(f, 1, a) \o SubSeq(f, a + 1, b) = SubSeq(f, 1, b)
<1> DEFINE left == SubSeq(f, 1, a) \o SubSeq(f, a + 1, b)
           right == SubSeq(f, 1, b)
<1>1. Len(f) \in Nat
  OBVIOUS
<1>2. /\ SubSeq(f, 1, a) \in Seq(S) /\ Len(SubSeq(f, 1, a)) = a
      /\ SubSeq(f, a + 1, b) \in Seq(S) /\ Len(SubSeq(f, a + 1, b)) = b - a
      /\ right \in Seq(S) /\ Len(right) = b
  BY <1>1
<1>3. left \in Seq(S) /\ Len(left) = b
  BY <1>1, <1>2
<1>4. ASSUME NEW i \in 1 .. b PROVE left[i] = right[i]
  <2>1. CASE i <= a
    BY <1>1, <1>2, <2>1
  <2>2. CASE i > a
    BY <1>1, <1>2, <2>2
  <2> QED BY <1>1, <2>1, <2>2
<1> HIDE DEF left, right
<1>5. left = right
  BY <1>1, <1>2, <1>3, <1>4, SeqEqual
<1> QED BY <1>5 DEF left, right

\* The i-th of the joined is made of the first i of the sequences.
Joins(joined, seqs, n) ==
  joined[1] = seqs[1] /\ \A i \in 2 .. n : joined[i] = joined[i - 1] \o seqs[i]

\* What a flattening is follows from what the beginnings of it are.
LEMMA Flattening ==
  ASSUME NEW n \in Nat, n > 0, NEW seqs, Len(seqs) = n,
         NEW T, NEW joined \in [1 .. n -> T], Joins(joined, seqs, n)
  PROVE  FlattenSeq(seqs) = joined[n]
<1> DEFINE step(g) == [i \in 1 .. Len(seqs) |-> IF i = 1 THEN seqs[i] ELSE g[i - 1] \o seqs[i]]
           flat == CHOOSE g : g = step(g)
<1>1. joined = step(joined)
  <2>1. \A i \in 1 .. n : joined[i] = IF i = 1 THEN seqs[i] ELSE joined[i - 1] \o seqs[i]
    <3> SUFFICES ASSUME NEW i \in 1 .. n, i # 1 PROVE joined[i] = joined[i - 1] \o seqs[i]
      BY DEF Joins
    <3>1. i \in 2 .. n
      OBVIOUS
    <3> QED BY <3>1 DEF Joins
  <2> QED BY <2>1
<1>2. flat = step(flat)
  <2> HIDE DEF step
  <2> QED BY <1>1
<1>3. FlattenSeq(seqs) = flat[Len(seqs)]
  BY DEF FlattenSeq
<1> HIDE DEF flat
<1>4. \A i \in 1 .. n : flat[i] = IF i = 1 THEN seqs[i] ELSE flat[i - 1] \o seqs[i]
  BY <1>2
<1> HIDE DEF step
<1> DEFINE U == {i \in 1 .. n : flat[i] # joined[i]}
<1>5. U = {}
  <2> SUFFICES ASSUME U # {} PROVE FALSE
    OBVIOUS
  <2>1. U \subseteq Nat
    OBVIOUS
  <2>2. PICK i \in U : \A m \in U : i <= m
    <3> HIDE DEF U
    <3> QED BY <2>1, LeastNatural
  <2>3. i \in 1 .. n /\ flat[i] # joined[i]
    OBVIOUS
  <2>4. i # 1
    BY <1>4, <2>3 DEF Joins
  <2>5. i - 1 \in 1 .. n /\ i \in 2 .. n /\ ~(i <= i - 1)
    BY <2>3, <2>4
  <2>6. i - 1 \notin U
    BY <2>2, <2>5
  <2>7. flat[i - 1] = joined[i - 1]
    BY <2>5, <2>6
  <2>8. flat[i] = flat[i - 1] \o seqs[i]
    BY <1>4, <2>3, <2>4
  <2>9. joined[i] = joined[i - 1] \o seqs[i]
    BY <2>5 DEF Joins
  <2> QED BY <2>3, <2>7, <2>8, <2>9
<1>6. n \in 1 .. n
  OBVIOUS
<1>7. flat[n] = joined[n]
  BY <1>5, <1>6
<1> QED BY <1>3, <1>7

\* Parts cut one after the other from the beginning of a file make up the
\* beginning of it.
LEMMA Flattened ==
  ASSUME NEW S, NEW f \in Seq(S), NEW n \in Nat, NEW at, at[1] = 0,
         \A i \in 1 .. n : at[i] \in 0 .. Len(f) /\ at[i + 1] \in at[i] .. Len(f),
         NEW cut \in [1 .. n -> Seq(S)],
         \A i \in 1 .. n : cut[i] = SubSeq(f, at[i] + 1, at[i + 1])
  PROVE  FlattenSeq(cut) = SubSeq(f, 1, at[n + 1])
<1>1. Len(cut) = n
  OBVIOUS
<1>2. CASE n = 0
  <2>1. cut = <<>> /\ SubSeq(f, 1, 0) = <<>>
    BY <1>2
  <2>2. FlattenSeq(cut) = cut
    BY <1>1, <1>2 DEF FlattenSeq
  <2>3. at[n + 1] = 0
    BY <1>2
  <2> QED BY <2>1, <2>2, <2>3
<1>3. CASE n > 0
  <2> DEFINE joined == [i \in 1 .. n |-> SubSeq(f, 1, at[i + 1])]
  <2>1. joined[1] = cut[1]
    <3>1. 1 \in 1 .. n /\ at[1] + 1 = 1
      BY <1>3
    <3>2. cut[1] = SubSeq(f, 1, at[1 + 1]) /\ joined[1] = SubSeq(f, 1, at[1 + 1])
      BY <3>1
    <3> QED BY <3>2
  <2>2. ASSUME NEW i \in 2 .. n PROVE joined[i] = joined[i - 1] \o cut[i]
    <3>1. i \in 1 .. n /\ i - 1 \in 1 .. n /\ (i - 1) + 1 = i
      OBVIOUS
    <3>2. joined[i - 1] = SubSeq(f, 1, at[i]) /\ joined[i] = SubSeq(f, 1, at[i + 1])
      BY <3>1
    <3>3. at[i] \in 0 .. Len(f) /\ at[i + 1] \in at[i] .. Len(f)
      BY <3>1
    <3>4. cut[i] = SubSeq(f, at[i] + 1, at[i + 1])
      BY <3>1
    <3> HIDE DEF joined
    <3>5. SubSeq(f, 1, at[i]) \o SubSeq(f, at[i] + 1, at[i + 1]) = SubSeq(f, 1, at[i + 1])
      BY <3>3, CutsJoin
    <3> QED BY <3>2, <3>4, <3>5
  <2> DEFINE T == {SubSeq(f, 1, at[i + 1]) : i \in 1 .. n}
  <2>3. joined \in [1 .. n -> T]
    OBVIOUS
  <2>4. joined[n] = SubSeq(f, 1, at[n + 1])
    BY <1>3
  <2> HIDE DEF joined, T
  <2>5. FlattenSeq(cut) = joined[n]
    <3>1. Joins(joined, cut, n)
      BY <2>1, <2>2 DEF Joins
    <3> QED BY <1>1, <1>3, <2>3, <3>1, Flattening
  <2> QED BY <2>4, <2>5
<1>4. n = 0 \/ n > 0
  OBVIOUS
<1> QED BY <1>2, <1>3, <1>4

------------------------------------------------------------------------------
(* Sequences that are put together.                                        *)

\* This sequence is the one and then the other.
IsBoth(u, s, t) ==
  /\ Len(u) = Len(s) + Len(t)
  /\ \A i \in 1 .. Len(s) : u[i] = s[i]
  /\ \A i \in 1 .. Len(t) : u[Len(s) + i] = t[i]

\* A concatenation is known by its elements.
LEMMA Both ==
  ASSUME NEW S, NEW s \in Seq(S), NEW t \in Seq(S), NEW u \in Seq(S), IsBoth(u, s, t)
  PROVE  s \o t = u
<1>1. s \o t \in Seq(S) /\ Len(s \o t) = Len(u)
  BY DEF IsBoth
<1>2. ASSUME NEW i \in 1 .. Len(u) PROVE (s \o t)[i] = u[i]
  <2>1. Len(s) \in Nat /\ Len(t) \in Nat /\ Len(u) = Len(s) + Len(t)
    BY DEF IsBoth
  <2>2. CASE i \in 1 .. Len(s)
    BY <2>2 DEF IsBoth
  <2>3. CASE i \notin 1 .. Len(s)
    <3> DEFINE j == i - Len(s)
    <3>1. j \in 1 .. Len(t) /\ i = Len(s) + j
      BY <2>1, <2>3
    <3> HIDE DEF j
    <3> QED BY <3>1 DEF IsBoth
  <2> QED BY <2>2, <2>3
<1> QED BY <1>1, <1>2, SeqEqual

\* Three certificates' parts, one after the other, with and without a hash.
LEMMA PartsJoin ==
  ASSUME NEW a, NEW b, NEW c, NEW h, NEW d, NEW e, NEW f, NEW g
  PROVE  /\ (<<a, b, c>> \o <<h>>) \o <<d, e, f>> \o <<g>> = <<a, b, c, h, d, e, f, g>>
         /\ (<<a, b, c>> \o <<>>) \o <<d, e, f>> \o <<g>> = <<a, b, c, d, e, f, g>>
<1> DEFINE S == {a, b, c, d, e, f, g, h}
<1>1. a \in S /\ b \in S /\ c \in S /\ d \in S /\ e \in S /\ f \in S /\ g \in S /\ h \in S
  OBVIOUS
<1> HIDE DEF S
<1>2. /\ <<a, b, c>> \in Seq(S) /\ <<h>> \in Seq(S) /\ <<d, e, f>> \in Seq(S) /\ <<g>> \in Seq(S)
      /\ <<a, b, c, h>> \in Seq(S) /\ <<a, b, c, h, d, e, f>> \in Seq(S)
      /\ <<a, b, c, d, e, f>> \in Seq(S)
      /\ <<a, b, c, h, d, e, f, g>> \in Seq(S) /\ <<a, b, c, d, e, f, g>> \in Seq(S)
  BY <1>1
<1>3. <<a, b, c>> \o <<h>> = <<a, b, c, h>>
  <2>1. IsBoth(<<a, b, c, h>>, <<a, b, c>>, <<h>>)
    BY DEF IsBoth
  <2> QED BY <1>2, <2>1, Both
<1>4. <<a, b, c>> \o <<>> = <<a, b, c>>
  BY <1>2
<1>5. <<a, b, c, h>> \o <<d, e, f>> = <<a, b, c, h, d, e, f>>
  <2>1. IsBoth(<<a, b, c, h, d, e, f>>, <<a, b, c, h>>, <<d, e, f>>)
    BY DEF IsBoth
  <2> QED BY <1>2, <2>1, Both
<1>6. <<a, b, c>> \o <<d, e, f>> = <<a, b, c, d, e, f>>
  <2>1. IsBoth(<<a, b, c, d, e, f>>, <<a, b, c>>, <<d, e, f>>)
    BY DEF IsBoth
  <2> QED BY <1>2, <2>1, Both
<1>7. <<a, b, c, h, d, e, f>> \o <<g>> = <<a, b, c, h, d, e, f, g>>
  <2>1. IsBoth(<<a, b, c, h, d, e, f, g>>, <<a, b, c, h, d, e, f>>, <<g>>)
    BY DEF IsBoth
  <2> QED BY <1>2, <2>1, Both
<1>8. <<a, b, c, d, e, f>> \o <<g>> = <<a, b, c, d, e, f, g>>
  <2>1. IsBoth(<<a, b, c, d, e, f, g>>, <<a, b, c, d, e, f>>, <<g>>)
    BY DEF IsBoth
  <2> QED BY <1>2, <2>1, Both
<1> QED BY <1>3, <1>4, <1>5, <1>6, <1>7, <1>8, Zenon

\* Blocks: a header, a key and a signature.
LEMMA CertificateJoins ==
  ASSUME NEW b1, NEW b2, NEW b3, NEW b4, NEW b5, NEW b6
  PROVE  <<b1, b2>> \o <<b3, b4>> \o <<b5, b6>> = <<b1, b2, b3, b4, b5, b6>>
<1> DEFINE S == {b1, b2, b3, b4, b5, b6}
<1>1. /\ <<b1, b2>> \in Seq(S) /\ <<b3, b4>> \in Seq(S) /\ <<b5, b6>> \in Seq(S)
      /\ <<b1, b2, b3, b4>> \in Seq(S) /\ <<b1, b2, b3, b4, b5, b6>> \in Seq(S)
  OBVIOUS
<1> HIDE DEF S
<1>2. <<b1, b2>> \o <<b3, b4>> = <<b1, b2, b3, b4>>
  <2>1. IsBoth(<<b1, b2, b3, b4>>, <<b1, b2>>, <<b3, b4>>)
    BY DEF IsBoth
  <2> QED BY <1>1, <2>1, Both
<1>3. <<b1, b2, b3, b4>> \o <<b5, b6>> = <<b1, b2, b3, b4, b5, b6>>
  <2>1. IsBoth(<<b1, b2, b3, b4, b5, b6>>, <<b1, b2, b3, b4>>, <<b5, b6>>)
    BY DEF IsBoth
  <2> QED BY <1>1, <2>1, Both
<1> QED BY <1>2, <1>3, Zenon

\* And a hash.
LEMMA HashedCertificateJoins ==
  ASSUME NEW b1, NEW b2, NEW b3, NEW b4, NEW b5, NEW b6, NEW b7
  PROVE  <<b1, b2>> \o <<b3, b4>> \o <<b5, b6>> \o <<b7>> = <<b1, b2, b3, b4, b5, b6, b7>>
<1> DEFINE S == {b1, b2, b3, b4, b5, b6, b7}
<1>1. /\ <<b1, b2, b3, b4, b5, b6>> \in Seq(S) /\ <<b7>> \in Seq(S)
      /\ <<b1, b2, b3, b4, b5, b6, b7>> \in Seq(S)
  OBVIOUS
<1> HIDE DEF S
<1>2. <<b1, b2, b3, b4, b5, b6>> \o <<b7>> = <<b1, b2, b3, b4, b5, b6, b7>>
  <2>1. IsBoth(<<b1, b2, b3, b4, b5, b6, b7>>, <<b1, b2, b3, b4, b5, b6>>, <<b7>>)
    BY DEF IsBoth
  <2> QED BY <1>1, <2>1, Both
<1>3. <<b1, b2>> \o <<b3, b4>> \o <<b5, b6>> = <<b1, b2, b3, b4, b5, b6>>
  BY CertificateJoins
<1> QED BY <1>2, <1>3, Zenon

\* A hash, a key and a signature.
LEMMA ScribeCertificateJoins ==
  ASSUME NEW b1, NEW b2, NEW b3, NEW b4, NEW b5
  PROVE  <<b1>> \o <<b2, b3>> \o <<b4, b5>> = <<b1, b2, b3, b4, b5>>
<1> DEFINE S == {b1, b2, b3, b4, b5}
<1>1. /\ <<b1>> \in Seq(S)
      /\ <<b2, b3>> \in Seq(S)
      /\ <<b1, b2, b3>> \in Seq(S)
      /\ <<b4, b5>> \in Seq(S)
      /\ <<b1, b2, b3, b4, b5>> \in Seq(S)
  OBVIOUS
<1> HIDE DEF S
<1>2. <<b1>> \o <<b2, b3>> = <<b1, b2, b3>>
  <2>1. IsBoth(<<b1, b2, b3>>, <<b1>>, <<b2, b3>>)
    BY DEF IsBoth
  <2> QED BY <1>1, <2>1, Both
<1>3. <<b1, b2, b3>> \o <<b4, b5>> = <<b1, b2, b3, b4, b5>>
  <2>1. IsBoth(<<b1, b2, b3, b4, b5>>, <<b1, b2, b3>>, <<b4, b5>>)
    BY DEF IsBoth
  <2> QED BY <1>1, <2>1, Both
<1> QED BY <1>2, <1>3, Zenon

\* A header, two hashes, a key and a signature.
LEMMA EkJoins ==
  ASSUME NEW b1, NEW b2, NEW b3, NEW b4, NEW b5, NEW b6, NEW b7, NEW b8
  PROVE  <<b1, b2>> \o <<b3>> \o <<b4>> \o <<b5, b6>> \o <<b7, b8>>
           = <<b1, b2, b3, b4, b5, b6, b7, b8>>
<1> DEFINE S == {b1, b2, b3, b4, b5, b6, b7, b8}
<1>1. /\ <<b1, b2>> \in Seq(S)
      /\ <<b3>> \in Seq(S)
      /\ <<b1, b2, b3>> \in Seq(S)
      /\ <<b4>> \in Seq(S)
      /\ <<b1, b2, b3, b4>> \in Seq(S)
      /\ <<b5, b6>> \in Seq(S)
      /\ <<b1, b2, b3, b4, b5, b6>> \in Seq(S)
      /\ <<b7, b8>> \in Seq(S)
      /\ <<b1, b2, b3, b4, b5, b6, b7, b8>> \in Seq(S)
  OBVIOUS
<1> HIDE DEF S
<1>2. <<b1, b2>> \o <<b3>> = <<b1, b2, b3>>
  <2>1. IsBoth(<<b1, b2, b3>>, <<b1, b2>>, <<b3>>)
    BY DEF IsBoth
  <2> QED BY <1>1, <2>1, Both
<1>3. <<b1, b2, b3>> \o <<b4>> = <<b1, b2, b3, b4>>
  <2>1. IsBoth(<<b1, b2, b3, b4>>, <<b1, b2, b3>>, <<b4>>)
    BY DEF IsBoth
  <2> QED BY <1>1, <2>1, Both
<1>4. <<b1, b2, b3, b4>> \o <<b5, b6>> = <<b1, b2, b3, b4, b5, b6>>
  <2>1. IsBoth(<<b1, b2, b3, b4, b5, b6>>, <<b1, b2, b3, b4>>, <<b5, b6>>)
    BY DEF IsBoth
  <2> QED BY <1>1, <2>1, Both
<1>5. <<b1, b2, b3, b4, b5, b6>> \o <<b7, b8>> = <<b1, b2, b3, b4, b5, b6, b7, b8>>
  <2>1. IsBoth(<<b1, b2, b3, b4, b5, b6, b7, b8>>, <<b1, b2, b3, b4, b5, b6>>, <<b7, b8>>)
    BY DEF IsBoth
  <2> QED BY <1>1, <2>1, Both
<1> QED BY <1>2, <1>3, <1>4, <1>5, Zenon

\* The blocks of a chain whose alias key certificate holds a hash.
LEMMA HashedChainJoins ==
  ASSUME NEW a1, NEW a2, NEW a3, NEW a4, NEW a5, NEW a6, NEW a7, NEW d1, NEW d2,
         NEW d3, NEW d4, NEW d5, NEW d6, NEW s1, NEW s2, NEW s3, NEW s4, NEW s5
  PROVE  <<a1, a2, a3, a4, a5, a6, a7>> \o <<d1, d2, d3, d4, d5, d6>> \o <<s1, s2, s3, s4, s5>>
           = <<a1, a2, a3, a4, a5, a6, a7, d1, d2, d3, d4, d5, d6, s1, s2, s3, s4, s5>>
<1> DEFINE S == {a1, a2, a3, a4, a5, a6, a7, d1, d2, d3, d4, d5, d6, s1, s2, s3, s4, s5}
<1>1. /\ <<a1, a2, a3, a4, a5, a6, a7>> \in Seq(S)
      /\ <<d1, d2, d3, d4, d5, d6>> \in Seq(S)
      /\ <<a1, a2, a3, a4, a5, a6, a7, d1, d2, d3, d4, d5, d6>> \in Seq(S)
      /\ <<s1, s2, s3, s4, s5>> \in Seq(S)
      /\ <<a1, a2, a3, a4, a5, a6, a7, d1, d2, d3, d4, d5, d6, s1, s2, s3, s4, s5>> \in Seq(S)
  OBVIOUS
<1> HIDE DEF S
<1>2. <<a1, a2, a3, a4, a5, a6, a7>> \o
     <<d1, d2, d3, d4, d5, d6>>
       = <<a1, a2, a3, a4, a5, a6, a7, d1, d2, d3, d4, d5, d6>>
  <2>1. IsBoth(<<a1, a2, a3, a4, a5, a6, a7, d1, d2, d3, d4, d5, d6>>,
               <<a1, a2, a3, a4, a5, a6, a7>>,
               <<d1, d2, d3, d4, d5, d6>>)
    BY DEF IsBoth
  <2> QED BY <1>1, <2>1, Both
<1>3. <<a1, a2, a3, a4, a5, a6, a7, d1, d2, d3, d4, d5, d6>> \o
     <<s1, s2, s3, s4, s5>>
       = <<a1, a2, a3, a4, a5, a6, a7, d1, d2, d3, d4, d5, d6, s1, s2, s3, s4, s5>>
  <2>1. IsBoth(<<a1, a2, a3, a4, a5, a6, a7, d1, d2, d3, d4, d5, d6, s1, s2, s3, s4, s5>>,
               <<a1, a2, a3, a4, a5, a6, a7, d1, d2, d3, d4, d5, d6>>,
               <<s1, s2, s3, s4, s5>>)
    BY DEF IsBoth
  <2> QED BY <1>1, <2>1, Both
<1> QED BY <1>2, <1>3, Zenon

\* The blocks of a chain whose alias key certificate holds none.
LEMMA PlainChainJoins ==
  ASSUME NEW a1, NEW a2, NEW a3, NEW a4, NEW a5, NEW a6, NEW d1, NEW d2, NEW d3,
         NEW d4, NEW d5, NEW d6, NEW s1, NEW s2, NEW s3, NEW s4, NEW s5
  PROVE  <<a1, a2, a3, a4, a5, a6>> \o <<d1, d2, d3, d4, d5, d6>> \o <<s1, s2, s3, s4, s5>>
           = <<a1, a2, a3, a4, a5, a6, d1, d2, d3, d4, d5, d6, s1, s2, s3, s4, s5>>
<1> DEFINE S == {a1, a2, a3, a4, a5, a6, d1, d2, d3, d4, d5, d6, s1, s2, s3, s4, s5}
<1>1. /\ <<a1, a2, a3, a4, a5, a6>> \in Seq(S)
      /\ <<d1, d2, d3, d4, d5, d6>> \in Seq(S)
      /\ <<a1, a2, a3, a4, a5, a6, d1, d2, d3, d4, d5, d6>> \in Seq(S)
      /\ <<s1, s2, s3, s4, s5>> \in Seq(S)
      /\ <<a1, a2, a3, a4, a5, a6, d1, d2, d3, d4, d5, d6, s1, s2, s3, s4, s5>> \in Seq(S)
  OBVIOUS
<1> HIDE DEF S
<1>2. <<a1, a2, a3, a4, a5, a6>> \o
     <<d1, d2, d3, d4, d5, d6>>
       = <<a1, a2, a3, a4, a5, a6, d1, d2, d3, d4, d5, d6>>
  <2>1. IsBoth(<<a1, a2, a3, a4, a5, a6, d1, d2, d3, d4, d5, d6>>,
               <<a1, a2, a3, a4, a5, a6>>,
               <<d1, d2, d3, d4, d5, d6>>)
    BY DEF IsBoth
  <2> QED BY <1>1, <2>1, Both
<1>3. <<a1, a2, a3, a4, a5, a6, d1, d2, d3, d4, d5, d6>> \o
     <<s1, s2, s3, s4, s5>>
       = <<a1, a2, a3, a4, a5, a6, d1, d2, d3, d4, d5, d6, s1, s2, s3, s4, s5>>
  <2>1. IsBoth(<<a1, a2, a3, a4, a5, a6, d1, d2, d3, d4, d5, d6, s1, s2, s3, s4, s5>>,
               <<a1, a2, a3, a4, a5, a6, d1, d2, d3, d4, d5, d6>>,
               <<s1, s2, s3, s4, s5>>)
    BY DEF IsBoth
  <2> QED BY <1>1, <2>1, Both
<1> QED BY <1>2, <1>3, Zenon

------------------------------------------------------------------------------
(* The order of the parts, and where each of them starts.                  *)

Order(what, announced) ==
  IF what = "ek" THEN EkParts ELSE AkcParts(announced) \o DidcParts \o DidscParts

Starts(what, announced) ==
  IF what = "ek" THEN <<0, 4, 6, 8>>
  ELSE IF announced THEN <<0, 2, 4, 6, 7, 9, 11, 13, 18>> ELSE <<0, 2, 4, 6, 8, 10, 12, 17>>

\* The parts of a chain, one by one.
LEMMA ChainOrder ==
  ASSUME NEW announced \in BOOLEAN
  PROVE  AkcParts(announced) \o DidcParts \o DidscParts
           = IF announced
             THEN <<Part("AKC", "header", 2), Part("AKC", "public key", 2),
                    Part("AKC", "signature", 2), Part("AKC", "FWHash", 1),
                    Part("DIDC", "header", 2), Part("DIDC", "public key", 2),
                    Part("DIDC", "signature", 2), Part("DIDSC", "certificate", 5)>>
             ELSE <<Part("AKC", "header", 2), Part("AKC", "public key", 2),
                    Part("AKC", "signature", 2),
                    Part("DIDC", "header", 2), Part("DIDC", "public key", 2),
                    Part("DIDC", "signature", 2), Part("DIDSC", "certificate", 5)>>
<1> DEFINE a == Part("AKC", "header", 2)
           b == Part("AKC", "public key", 2)
           c == Part("AKC", "signature", 2)
           h == Part("AKC", "FWHash", 1)
           d == Part("DIDC", "header", 2)
           e == Part("DIDC", "public key", 2)
           f == Part("DIDC", "signature", 2)
           g == Part("DIDSC", "certificate", 5)
<1>1. /\ AkcParts(announced) = <<a, b, c>> \o (IF announced THEN <<h>> ELSE <<>>)
      /\ DidcParts = <<d, e, f>> /\ DidscParts = <<g>>
  BY Zenon DEF AkcParts, DidcParts, DidscParts
<1> HIDE DEF a, b, c, h, d, e, f, g
<1>2. AkcParts(announced) \o DidcParts \o DidscParts
        = IF announced THEN <<a, b, c, h, d, e, f, g>> ELSE <<a, b, c, d, e, f, g>>
  <2>1. CASE announced
    <3>1. AkcParts(announced) = <<a, b, c>> \o <<h>>
      BY <1>1, <2>1
    <3>2. (<<a, b, c>> \o <<h>>) \o <<d, e, f>> \o <<g>> = <<a, b, c, h, d, e, f, g>>
      BY PartsJoin
    <3> QED BY <1>1, <2>1, <3>1, <3>2, Zenon
  <2>2. CASE ~announced
    <3>1. AkcParts(announced) = <<a, b, c>> \o <<>>
      BY <1>1, <2>2
    <3>2. (<<a, b, c>> \o <<>>) \o <<d, e, f>> \o <<g>> = <<a, b, c, d, e, f, g>>
      BY PartsJoin
    <3> QED BY <1>1, <2>2, <3>1, <3>2, Zenon
  <2> QED BY <2>1, <2>2
<1> QED BY <1>2, Zenon DEF a, b, c, h, d, e, f, g

\* An alias key certificate has a fourth part when it announces a hash.
LEMMA AkcPartsLength ==
  ASSUME NEW announced \in BOOLEAN
  PROVE  Len(AkcParts(announced)) = IF announced THEN 4 ELSE 3
<1> DEFINE a == Part("AKC", "header", 2)
           b == Part("AKC", "public key", 2)
           c == Part("AKC", "signature", 2)
           h == Part("AKC", "FWHash", 1)
           S == {a, b, c, h}
<1>1. AkcParts(announced) = <<a, b, c>> \o (IF announced THEN <<h>> ELSE <<>>)
  BY Zenon DEF AkcParts
<1>2. a \in S /\ b \in S /\ c \in S /\ h \in S
  OBVIOUS
<1> HIDE DEF a, b, c, h, S
<1>3. Len(<<a, b, c>> \o <<h>>) = 4 /\ Len(<<a, b, c>> \o <<>>) = 3
  BY <1>2
<1> QED BY <1>1, <1>3

\* The length of what is read as this, and the certificate that a block of it
\* is in.
Total(what, announced) == IF what = "ek" THEN 8 ELSE IF announced THEN 18 ELSE 17

CertOf(what, announced, m) ==
  IF what = "ek" THEN "EK"
  ELSE LET akc == IF announced THEN 7 ELSE 6
       IN  IF m <= akc THEN "AKC" ELSE IF m <= akc + 6 THEN "DIDC" ELSE "DIDSC"

\* A part is not empty, the next one starts where it ends, and an error about it
\* names the certificate that all of its blocks are in.
FollowsAt(what, announced, i) ==
  LET part  == Order(what, announced)[i]
      start == Starts(what, announced)
  IN  /\ part.blocks \in Nat \ {0}
      /\ start[i] \in Nat
      /\ start[i + 1] = start[i] + part.blocks
      /\ \A m \in start[i] + 1 .. start[i + 1] : part.cert = CertOf(what, announced, m)

Follows(what, announced) ==
  \A i \in 1 .. Len(Order(what, announced)) : FollowsAt(what, announced, i)

\* The parts follow one another.
LEMMA PartsFollow ==
  ASSUME NEW what \in {"chain", "ek"}, NEW announced \in BOOLEAN
  PROVE  LET order == Order(what, announced)
             start == Starts(what, announced)
         IN  /\ Len(order) = (IF what = "ek" THEN 3 ELSE IF announced THEN 8 ELSE 7)
             /\ order[1].cert = (IF what = "ek" THEN "EK" ELSE "AKC")
             /\ order[1].field = "header"
             /\ order[1].blocks = (IF what = "ek" THEN 4 ELSE 2)
             /\ start[1] = 0 /\ start[Len(order) + 1] = Total(what, announced)
             /\ Follows(what, announced)
<1>1. CASE what = "ek"
  <2> DEFINE order == Order(what, announced)
  <2>1. order = <<Part("EK", "header", 4), Part("EK", "public key", 2), Part("EK", "signature", 2)>>
    BY <1>1 DEF Order, EkParts
  <2>2. Starts(what, announced) = <<0, 4, 6, 8>>
    BY <1>1 DEF Starts
  <2> HIDE DEF order
  <2>3. Len(order) = 3 /\ order[1].field = "header"
    BY <2>1 DEF Part
  <2>4. order[1].blocks = 4 /\ order[2].blocks = 2 /\ order[3].blocks = 2
    BY <2>1 DEF Part
  <2>5. order[1].cert = "EK" /\ order[2].cert = "EK" /\ order[3].cert = "EK"
    BY <2>1 DEF Part
  <2>6. Follows(what, announced)
    <3> SUFFICES ASSUME NEW i \in 1 .. 3 PROVE FollowsAt(what, announced, i)
      BY <2>3 DEF Follows, order
    <3>1. /\ order[i].blocks \in Nat \ {0} /\ Starts(what, announced)[i] \in Nat
          /\ Starts(what, announced)[i + 1] = Starts(what, announced)[i] + order[i].blocks
      BY <2>2, <2>4
    <3>2. order[i].cert = "EK"
      BY <2>5
    <3> QED BY <1>1, <3>1, <3>2 DEF FollowsAt, order, CertOf
  <2>7. Starts(what, announced)[1] = 0 /\ Starts(what, announced)[3 + 1] = 8
    BY <2>2
  <2> QED BY <1>1, <2>3, <2>4, <2>5, <2>6, <2>7 DEF order, Total
<1>2. CASE what = "chain" /\ announced
  <2> DEFINE order == Order(what, announced)
  <2>1. order = <<Part("AKC", "header", 2), Part("AKC", "public key", 2),
                  Part("AKC", "signature", 2), Part("AKC", "FWHash", 1),
                  Part("DIDC", "header", 2), Part("DIDC", "public key", 2),
                  Part("DIDC", "signature", 2), Part("DIDSC", "certificate", 5)>>
    BY <1>2, ChainOrder DEF Order
  <2>2. Starts(what, announced) = <<0, 2, 4, 6, 7, 9, 11, 13, 18>>
    BY <1>2 DEF Starts
  <2> HIDE DEF order
  <2>3. Len(order) = 8 /\ order[1].field = "header"
    BY <2>1 DEF Part
  <2>4. /\ order[1].blocks = 2 /\ order[2].blocks = 2 /\ order[3].blocks = 2
        /\ order[4].blocks = 1 /\ order[5].blocks = 2 /\ order[6].blocks = 2
        /\ order[7].blocks = 2 /\ order[8].blocks = 5
    BY <2>1 DEF Part
  <2>5. /\ order[1].cert = "AKC" /\ order[2].cert = "AKC" /\ order[3].cert = "AKC"
        /\ order[4].cert = "AKC" /\ order[5].cert = "DIDC" /\ order[6].cert = "DIDC"
        /\ order[7].cert = "DIDC" /\ order[8].cert = "DIDSC"
    BY <2>1 DEF Part
  <2>6. Follows(what, announced)
    <3> SUFFICES ASSUME NEW i \in 1 .. 8 PROVE FollowsAt(what, announced, i)
      BY <2>3 DEF Follows, order
    <3>1. /\ order[i].blocks \in Nat \ {0} /\ Starts(what, announced)[i] \in Nat
          /\ Starts(what, announced)[i + 1] = Starts(what, announced)[i] + order[i].blocks
      BY <2>2, <2>4
    <3>2. ASSUME NEW m \in Starts(what, announced)[i] + 1 .. Starts(what, announced)[i + 1]
          PROVE  order[i].cert = CertOf(what, announced, m)
      <4>1. CertOf(what, announced, m)
              = IF m <= 7 THEN "AKC" ELSE IF m <= 13 THEN "DIDC" ELSE "DIDSC"
        BY <1>2 DEF CertOf
      <4>2. CASE i \in 1 .. 4
        BY <2>2, <2>5, <4>1, <4>2
      <4>3. CASE i \in 5 .. 8
        BY <2>2, <2>5, <4>1, <4>3
      <4> QED BY <4>2, <4>3
    <3> QED BY <3>1, <3>2 DEF FollowsAt, order
  <2>7. Starts(what, announced)[1] = 0 /\ Starts(what, announced)[8 + 1] = 18
    BY <2>2
  <2> QED BY <1>2, <2>3, <2>4, <2>5, <2>6, <2>7 DEF order, Total
<1>3. CASE what = "chain" /\ ~announced
  <2> DEFINE order == Order(what, announced)
  <2>1. order = <<Part("AKC", "header", 2), Part("AKC", "public key", 2),
                  Part("AKC", "signature", 2),
                  Part("DIDC", "header", 2), Part("DIDC", "public key", 2),
                  Part("DIDC", "signature", 2), Part("DIDSC", "certificate", 5)>>
    BY <1>3, ChainOrder DEF Order
  <2>2. Starts(what, announced) = <<0, 2, 4, 6, 8, 10, 12, 17>>
    BY <1>3 DEF Starts
  <2> HIDE DEF order
  <2>3. Len(order) = 7 /\ order[1].field = "header"
    BY <2>1 DEF Part
  <2>4. /\ order[1].blocks = 2 /\ order[2].blocks = 2 /\ order[3].blocks = 2
        /\ order[4].blocks = 2 /\ order[5].blocks = 2 /\ order[6].blocks = 2
        /\ order[7].blocks = 5
    BY <2>1 DEF Part
  <2>5. /\ order[1].cert = "AKC" /\ order[2].cert = "AKC" /\ order[3].cert = "AKC"
        /\ order[4].cert = "DIDC" /\ order[5].cert = "DIDC" /\ order[6].cert = "DIDC"
        /\ order[7].cert = "DIDSC"
    BY <2>1 DEF Part
  <2>6. Follows(what, announced)
    <3> SUFFICES ASSUME NEW i \in 1 .. 7 PROVE FollowsAt(what, announced, i)
      BY <2>3 DEF Follows, order
    <3>1. /\ order[i].blocks \in Nat \ {0} /\ Starts(what, announced)[i] \in Nat
          /\ Starts(what, announced)[i + 1] = Starts(what, announced)[i] + order[i].blocks
      BY <2>2, <2>4
    <3>2. ASSUME NEW m \in Starts(what, announced)[i] + 1 .. Starts(what, announced)[i + 1]
          PROVE  order[i].cert = CertOf(what, announced, m)
      BY <1>3, <2>2, <2>5 DEF CertOf
    <3> QED BY <3>1, <3>2 DEF FollowsAt, order
  <2>7. Starts(what, announced)[1] = 0 /\ Starts(what, announced)[7 + 1] = 17
    BY <2>2
  <2> QED BY <1>3, <2>3, <2>4, <2>5, <2>6, <2>7 DEF order, Total
<1> QED BY <1>1, <1>2, <1>3

\* No part starts before the one it follows.
LEMMA StartsGrow ==
  ASSUME NEW what \in {"chain", "ek"}, NEW announced \in BOOLEAN,
         NEW i \in 1 .. Len(Order(what, announced)) + 1, NEW j \in 1 .. i
  PROVE  /\ Starts(what, announced)[i] \in Nat /\ Starts(what, announced)[j] \in Nat
         /\ Starts(what, announced)[j] <= Starts(what, announced)[i]
<1>1. Len(Order(what, announced)) = (IF what = "ek" THEN 3 ELSE IF announced THEN 8 ELSE 7)
  BY PartsFollow
<1>2. CASE what = "ek"
  <2>1. i \in 1 .. 4
    BY <1>1, <1>2
  <2> QED BY <1>2, <2>1 DEF Starts
<1>3. CASE what = "chain" /\ announced
  <2>1. i \in 1 .. 9
    BY <1>1, <1>3
  <2> QED BY <1>3, <2>1 DEF Starts
<1>4. CASE what = "chain" /\ ~announced
  <2>1. i \in 1 .. 8
    BY <1>1, <1>4
  <2> QED BY <1>4, <2>1 DEF Starts
<1> QED BY <1>2, <1>3, <1>4

------------------------------------------------------------------------------
(* The parser: at every moment it holds the first parts of the file, in    *)
(* the order of the format.                                                *)

\* Nothing that the validator answers is mistaken for a state of the parser.
LEMMA ValidatorAnswers ==
  ASSUME NEW c, NEW trusted, NEW rwkis
  PROVE  ValidateScribeCertificateChain(c, trusted, rwkis)
           \notin {Idle, Missing, <<"reading">>, <<"parsed">>}
<1> DEFINE a == validateAliasKeyCertificate(c.akc, c.didc, rwkis)
           b == validateDeviceIDCertificate(c.didc, trusted)
           s == validateDeviceIDScribeCertificate(c.didsc, c.didc, trusted)
           err == ValidateScribeCertificateChain(c, trusted, rwkis)
<1>1. /\ a # OK => a[1] \in {"AKC", "DIDC"}
      /\ b # OK => b[1] = "DIDC"
      /\ s # OK => s[1] = "DIDSC"
  BY AkcBlame, DidcBlame, DidscBlame
<1>2. err = OrElse(a, OrElse(b, s))
  BY DEF ValidateScribeCertificateChain
<1> HIDE DEF a, b, s
<1>3. err = OK \/ err[1] \in {"AKC", "DIDC", "DIDSC"}
  BY <1>1, <1>2, OrElseEither
<1>4. /\ Idle[1] = "idle" /\ Missing[1] = "file"
      /\ <<"reading">>[1] = "reading" /\ <<"parsed">>[1] = "parsed"
      /\ OK # Idle /\ OK # Missing /\ OK # <<"reading">> /\ OK # <<"parsed">>
  BY DEF Idle, Missing, OK
<1> HIDE DEF err
<1>5. err \notin {Idle, Missing, <<"reading">>, <<"parsed">>}
  <2>1. CASE err = OK
    BY <1>4, <2>1
  <2>2. CASE err[1] \in {"AKC", "DIDC", "DIDSC"}
    BY <1>4, <2>2
  <2> QED BY <1>3, <2>1, <2>2
<1> QED BY <1>5 DEF err

\* Does the file announce a firmware hash; the parts it should have, and where
\* each of them starts.
Announced == AnnouncesHash(SubSeq(file, 1, 2))
FileParts == Order(target, Announced)
At        == Starts(target, Announced)

\* The file is one of those that are read as this.
Opened == target \in {"chain", "ek"} /\ (file = <<>> \/ file \in Files[target])

\* What has been read is the first parts of the file.
Cut ==
  /\ Len(parts) \in 0 .. Len(FileParts)
  /\ parts = [i \in 1 .. Len(parts) |-> SubSeq(file, At[i] + 1, At[i + 1])]
  /\ pos = At[Len(parts) + 1]
  /\ pos <= Len(file)

\* The answer, for what has been read: that a part is missing of which the file
\* has too little, that of the EK parser, or that of the validator.
Stopped ==
  /\ Len(parts) < Len(FileParts)
  /\ At[Len(parts) + 2] > Len(file)
  /\ result = <<FileParts[Len(parts) + 1].cert, FileParts[Len(parts) + 1].field>>
  /\ parsed = Nothing

EkRead ==
  /\ target = "ek" /\ Len(parts) = Len(FileParts)
  /\ parsed = ParsedEk(parts)
  /\ result = OK

ChainRead ==
  /\ target = "chain" /\ Len(parts) = Len(FileParts)
  /\ parsed = ParsedChain(parts)
  /\ result \in {<<"parsed">>, ValidateScribeCertificateChain(parsed, Scribes, Infos)}

Stage ==
  \/ result \in {Idle, Missing} /\ file = <<>> /\ parts = <<>> /\ parsed = Nothing
  \/ result = <<"reading">> /\ parsed = Nothing
  \/ Stopped
  \/ EkRead
  \/ ChainRead

\* What the parser has done so far is what the file and its format make it do.
IInv == Opened /\ Cut /\ Stage

\* Files are sequences, of their blocks.
LEMMA FilesAreSequences ==
  ASSUME Opened
  PROVE  file \in Seq(Range(file)) /\ Len(file) \in Nat
<1>1. CASE file = <<>>
  BY <1>1
<1>2. CASE file \in Files[target]
  <2>1. target \in {"chain", "ek"}
    BY DEF Opened
  <2>2. file \in Seq(Range(file))
    BY <1>2, <2>1, FilesAssumption
  <2> QED BY <2>2
<1> QED BY <1>1, <1>2 DEF Opened

\* Whether a hash is announced is the answer to a question.
LEMMA AnnouncedBoolean == Announced \in BOOLEAN
BY DEF Announced, AnnouncesHash

\* The parts a file should have, and where they start.
LEMMA FilePartsFollow ==
  ASSUME Opened
  PROVE  /\ Len(FileParts) \in Nat \ {0}
         /\ FileParts[1].cert = (IF target = "ek" THEN "EK" ELSE "AKC")
         /\ FileParts[1].field = "header"
         /\ FileParts[1].blocks = (IF target = "ek" THEN 4 ELSE 2)
         /\ At[1] = 0 /\ At[Len(FileParts) + 1] = Total(target, Announced)
         /\ Follows(target, Announced)
BY AnnouncedBoolean, PartsFollow DEF Opened, FileParts, At

\* What has been read ends within the file, part by part.
LEMMA PlacesInFile ==
  ASSUME Opened, Cut
  PROVE  /\ pos \in 0 .. Len(file)
         /\ \A i \in 1 .. Len(parts) : At[i] \in 0 .. Len(file) /\ At[i + 1] \in At[i] .. Len(file)
<1> DEFINE n == Len(parts)
<1>1. n \in Nat /\ Len(FileParts) \in Nat /\ n <= Len(FileParts) /\ Len(file) \in Nat
  BY FilePartsFollow, FilesAreSequences DEF Cut
<1>2. ASSUME NEW i \in 1 .. n + 1, NEW j \in 1 .. i
      PROVE  At[i] \in Nat /\ At[j] \in Nat /\ At[j] <= At[i]
  <2>1. i \in 1 .. Len(FileParts) + 1
    BY <1>1
  <2> QED BY <2>1, StartsGrow, AnnouncedBoolean DEF Opened, FileParts, At
<1>3. n + 1 \in 1 .. n + 1
  BY <1>1
<1>4. pos \in Nat /\ pos = At[n + 1] /\ pos <= Len(file)
  BY <1>2, <1>3 DEF Cut
<1>5. ASSUME NEW i \in 1 .. n
      PROVE  At[i] \in 0 .. Len(file) /\ At[i + 1] \in At[i] .. Len(file)
  <2>1. i + 1 \in 1 .. n + 1 /\ i \in 1 .. i + 1 /\ i + 1 \in 1 .. n + 1
    BY <1>1
  <2>2. At[i] \in Nat /\ At[i + 1] \in Nat /\ At[i] <= At[i + 1]
    BY <1>2, <2>1
  <2>3. At[i + 1] <= At[n + 1]
    BY <1>2, <1>3, <2>1
  <2> QED BY <1>1, <1>4, <2>2, <2>3
<1> QED BY <1>1, <1>4, <1>5

\* The format that the parser goes by after it has read some parts of a file is
\* that of the file.
LEMMA LayoutOfFile ==
  ASSUME Opened, Cut
  PROVE  /\ Len(Layout(target, parts)) \in Nat \ {0}
         /\ parts # <<>> => Layout(target, parts) = FileParts
         /\ Len(parts) < Len(FileParts) =>
              /\ Len(parts) < Len(Layout(target, parts))
              /\ Layout(target, parts)[Len(parts) + 1].blocks = FileParts[Len(parts) + 1].blocks
              /\ Layout(target, parts)[Len(parts) + 1].cert = FileParts[Len(parts) + 1].cert
              /\ Layout(target, parts)[Len(parts) + 1].field = FileParts[Len(parts) + 1].field
<1> DEFINE announced == parts # <<>> /\ AnnouncesHash(parts[1])
<1>1. announced \in BOOLEAN
  BY DEF AnnouncesHash
<1>2. Layout(target, parts) = Order(target, announced)
  BY DEF Layout, Order
<1>3. CASE parts = <<>>
  <2>1. Len(parts) = 0
    BY <1>3
  <2> HIDE DEF announced
  <2> QED BY <1>1, <1>2, <1>3, <2>1, PartsFollow, FilePartsFollow DEF Opened
<1>4. CASE parts # <<>>
  <2>1. target = "chain" => announced = Announced
    <3> SUFFICES ASSUME target = "chain" PROVE announced = Announced
      OBVIOUS
    <3>1. At[1] = 0 /\ At[2] = 2
      <4>1. Announced \in BOOLEAN
        BY AnnouncedBoolean
      <4> QED BY <4>1 DEF At, Starts
    <3>2. Len(parts) \in Nat /\ Len(parts) # 0
      BY <1>4 DEF Cut
    <3>3. parts[1] = SubSeq(file, 1, 2)
      <4>1. 1 \in 1 .. Len(parts) /\ 0 + 1 = 1
        BY <3>2
      <4>2. parts[1] = SubSeq(file, At[1] + 1, At[1 + 1])
        BY <4>1 DEF Cut
      <4>3. 1 + 1 = 2
        OBVIOUS
      <4> QED BY <3>1, <4>1, <4>2, <4>3
    <3>4. AnnouncesHash(parts[1]) = Announced
      BY <3>3 DEF Announced
    <3>5. announced <=> Announced
      BY <1>4, <3>4, AnnouncedBoolean
    <3> HIDE DEF announced
    <3> QED BY <1>1, <3>5, AnnouncedBoolean
  <2>2. Order(target, announced) = FileParts
    BY <2>1 DEF FileParts, Order, Opened
  <2> QED BY <1>2, <1>4, <2>2, FilePartsFollow
<1> QED BY <1>3, <1>4

\* The part that is missing from a file that is cut off.
LEMMA StoppedAt ==
  ASSUME Opened, Cut, Stopped
  PROVE  /\ Len(file) + 1 \in At[Len(parts) + 1] + 1 .. At[Len(parts) + 2]
         /\ result[1] = CertOf(target, Announced, Len(file) + 1)
<1> DEFINE n == Len(parts)
<1>1. n \in Nat /\ n + 1 \in 1 .. Len(FileParts) /\ (n + 1) + 1 = n + 2
  BY FilePartsFollow DEF Cut, Stopped
<1>2. FollowsAt(target, Announced, n + 1)
  BY <1>1, FilePartsFollow DEF Follows, FileParts
<1>3. /\ At[n + 1] \in Nat /\ At[n + 2] \in Nat
      /\ \A m \in At[n + 1] + 1 .. At[n + 2] :
           FileParts[n + 1].cert = CertOf(target, Announced, m)
  BY <1>1, <1>2 DEF FollowsAt, FileParts, At
<1>4. Len(file) \in Nat /\ At[n + 1] <= Len(file) /\ At[n + 2] > Len(file)
  BY FilesAreSequences DEF Cut, Stopped
<1>5. Len(file) + 1 \in At[n + 1] + 1 .. At[n + 2]
  BY <1>3, <1>4
<1> QED BY <1>3, <1>5 DEF Stopped

\* The stages do not overlap: what the result is tells how far the reading is.
LEMMA StageOfResult ==
  ASSUME IInv
  PROVE  /\ result \in {Idle, Missing} =>
              file = <<>> /\ parts = <<>> /\ parsed = Nothing
         /\ result = <<"reading">> => parsed = Nothing
         /\ result = <<"parsed">> => ChainRead
         /\ Ended /\ result # Missing =>
              \/ Stopped
              \/ EkRead
              \/ ChainRead /\ result = ValidateScribeCertificateChain(parsed, Scribes, Infos)
<1>1. /\ Idle # <<"reading">> /\ Idle # <<"parsed">> /\ <<"reading">> # <<"parsed">>
      /\ Missing # <<"reading">> /\ Missing # <<"parsed">> /\ Missing # Idle
      /\ OK \notin {Idle, Missing, <<"reading">>, <<"parsed">>}
  BY DEF Idle, Missing, OK
<1>2. Stopped => result \notin {Idle, Missing, <<"reading">>, <<"parsed">>}
  <2> SUFFICES ASSUME Stopped PROVE result \notin {Idle, Missing, <<"reading">>, <<"parsed">>}
    OBVIOUS
  <2>1. result[1] = CertOf(target, Announced, Len(file) + 1)
    BY StoppedAt DEF IInv
  <2>2. CertOf(target, Announced, Len(file) + 1) \in {"AKC", "DIDC", "DIDSC", "EK"}
    BY DEF CertOf
  <2>3. /\ Idle[1] = "idle" /\ Missing[1] = "file"
        /\ <<"reading">>[1] = "reading" /\ <<"parsed">>[1] = "parsed"
    BY DEF Idle, Missing
  <2> QED BY <2>1, <2>2, <2>3
<1>3. ValidateScribeCertificateChain(parsed, Scribes, Infos)
        \notin {Idle, Missing, <<"reading">>, <<"parsed">>}
  BY ValidatorAnswers
<1> QED BY <1>1, <1>2, <1>3 DEF IInv, Stage, EkRead, ChainRead, Ended

\* Where nothing has been read, the parts are the first none of the file.
LEMMA NothingRead ==
  ASSUME NEW f, NEW at
  PROVE  Len(<<>>) = 0 /\ <<>> = [i \in 1 .. Len(<<>>) |-> SubSeq(f, at[i] + 1, at[i + 1])]
<1> DEFINE cut == [i \in 1 .. 0 |-> SubSeq(f, at[i] + 1, at[i + 1])]
<1>1. cut = <<>>
  OBVIOUS
<1> QED BY <1>1

\* In the beginning nothing has been read.
LEMMA InitIInv == Init => IInv
<1> SUFFICES ASSUME Init PROVE IInv
  OBVIOUS
<1> USE DEF Init
<1>1. Opened
  BY DEF Opened
<1>2. Len(FileParts) \in Nat \ {0} /\ At[1] = 0
  BY <1>1, FilePartsFollow
<1>3. Cut
  BY <1>2, NothingRead DEF Cut
<1>4. Stage
  BY DEF Stage
<1> QED BY <1>1, <1>3, <1>4 DEF IInv

\* Reading a part makes it the next of the parts.
LEMMA ReadsNext ==
  ASSUME IInv, ReadPart
  PROVE  IInv'
<1> USE DEF IInv
<1> DEFINE n == Len(parts)
<1>1. /\ result = <<"reading">> /\ n < Len(Layout(target, parts))
      /\ parts' = Append(parts, SubSeq(file, pos + 1, pos + Current.blocks))
      /\ pos' = pos + Current.blocks /\ pos' <= Len(file)
      /\ file' = file /\ target' = target /\ parsed' = parsed /\ result' = result
  BY DEF ReadPart, Remaining
<1>2. n \in Nat /\ n < Len(FileParts) /\ Len(FileParts) \in Nat
  <2>1. n \in 0 .. Len(FileParts) /\ Len(FileParts) \in Nat \ {0}
    BY FilePartsFollow DEF Cut
  <2>2. n = Len(FileParts) => Layout(target, parts) = FileParts
    <3>1. n # 0 => parts # <<>>
      OBVIOUS
    <3> QED BY <2>1, <3>1, LayoutOfFile
  <2> QED BY <1>1, <2>1, <2>2
<1>3. At[n + 2] = pos + Current.blocks /\ At[n + 1] = pos
  <2>1. Current.blocks = FileParts[n + 1].blocks
    BY <1>2, LayoutOfFile DEF Current
  <2>2. At[(n + 1) + 1] = At[n + 1] + FileParts[n + 1].blocks
    <3>1. n + 1 \in 1 .. Len(FileParts)
      BY <1>2
    <3> QED BY <3>1, FilePartsFollow DEF Follows, FollowsAt, FileParts, At
  <2>3. (n + 1) + 1 = n + 2
    BY <1>2
  <2> QED BY <2>1, <2>2, <2>3 DEF Cut
<1>4. FileParts' = FileParts /\ At' = At
  BY <1>1 DEF FileParts, At, Announced
<1>5. /\ Len(parts') = n + 1
      /\ parts' = [i \in 1 .. n + 1 |-> SubSeq(file, At[i] + 1, At[i + 1])]
  <2> DEFINE part(i) == SubSeq(file, At[i] + 1, At[i + 1])
  <2>1. parts = [i \in 1 .. n |-> part(i)]
    BY DEF Cut
  <2>2. SubSeq(file, pos + 1, pos + Current.blocks) = part(n + 1)
    <3>1. (n + 1) + 1 = n + 2
      BY <1>2
    <3> QED BY <1>3, <3>1
  <2> HIDE DEF part
  <2>3. Append(parts, part(n + 1)) = [i \in 1 .. n + 1 |-> part(i)]
    <3> HIDE DEF n
    <3> QED BY <1>2, <2>1
  <2>4. Len([i \in 1 .. n + 1 |-> part(i)]) = n + 1
    BY <1>2
  <2> QED BY <1>1, <2>2, <2>3, <2>4 DEF part
<1>6. Cut'
  <2>1. Len(parts') \in 0 .. Len(FileParts')
    BY <1>2, <1>4, <1>5
  <2>2. pos' = At'[Len(parts') + 1]
    BY <1>1, <1>2, <1>3, <1>4, <1>5
  <2>3. parts' = [i \in 1 .. Len(parts') |-> SubSeq(file', At'[i] + 1, At'[i + 1])]
    BY <1>1, <1>4, <1>5
  <2> QED BY <1>1, <2>1, <2>2, <2>3 DEF Cut
<1>7. parsed = Nothing
  BY <1>1, StageOfResult
<1> QED BY <1>1, <1>6, <1>7 DEF Opened, Stage

\* So do the other steps: opening a file, failing to open one or to read a part,
\* returning the certificates, validating them, and starting again.
LEMMA OtherSteps ==
  ASSUME IInv, OpenFails \/ ReadFails \/ Parsed \/ Validate \/ UNCHANGED vars
  PROVE  IInv'
<1>1. /\ file' = file /\ target' = target /\ pos' = pos /\ parts' = parts
  BY DEF OpenFails, ReadFails, Parsed, Validate, vars
<1>2. /\ FileParts' = FileParts /\ At' = At /\ Announced' = Announced
      /\ Opened' /\ Cut'
  BY <1>1 DEF IInv, FileParts, At, Announced, Opened, Cut
<1>3. Stage'
  <2>1. CASE OpenFails
    <3>1. file = <<>> /\ parts = <<>> /\ parsed = Nothing
      BY <2>1, StageOfResult DEF OpenFails
    <3> QED BY <1>1, <2>1, <3>1 DEF OpenFails, Stage
  <2>2. CASE ReadFails
    <3>1. parsed = Nothing /\ parsed' = Nothing
      BY <2>2, StageOfResult DEF ReadFails, Remaining
    <3> DEFINE n == Len(parts)
    <3>2. /\ n < Len(FileParts) /\ n \in Nat
          /\ Current.blocks = FileParts[n + 1].blocks
          /\ Current.cert = FileParts[n + 1].cert /\ Current.field = FileParts[n + 1].field
      <4>1. n \in 0 .. Len(FileParts) /\ Len(FileParts) \in Nat \ {0}
        BY FilePartsFollow DEF IInv, Cut
      <4>2. n = Len(FileParts) => Layout(target, parts) = FileParts
        <5>1. n # 0 => parts # <<>>
          OBVIOUS
        <5> QED BY <4>1, <5>1, LayoutOfFile DEF IInv
      <4>3. n < Len(Layout(target, parts))
        BY <2>2 DEF ReadFails, Remaining
      <4>4. n < Len(FileParts)
        BY <4>1, <4>2, <4>3
      <4> QED BY <4>1, <4>4, LayoutOfFile DEF Current, IInv
    <3>3. At[n + 2] > Len(file)
      <4>1. n + 1 \in 1 .. Len(FileParts) /\ (n + 1) + 1 = n + 2
        BY <3>2, FilePartsFollow DEF IInv
      <4>2. FollowsAt(target, Announced, n + 1)
        BY <4>1, FilePartsFollow DEF Follows, FileParts, IInv
      <4>3. At[n + 2] = pos + Current.blocks
        BY <3>2, <4>1, <4>2 DEF FollowsAt, FileParts, At, IInv, Cut
      <4> QED BY <2>2, <4>3 DEF ReadFails
    <3>4. result' = <<FileParts[n + 1].cert, FileParts[n + 1].field>>
      BY <2>2, <3>2 DEF ReadFails
    <3>5. Stopped'
      BY <1>1, <1>2, <3>1, <3>2, <3>3, <3>4 DEF Stopped
    <3> QED BY <3>5 DEF Stage
  <2>3. CASE Parsed
    <3>1. Len(parts) = Len(FileParts)
      <4>1. Len(parts) \in 0 .. Len(FileParts) /\ Len(FileParts) \in Nat \ {0}
        BY FilePartsFollow DEF IInv, Cut
      <4>2. ~(Len(parts) < Len(Layout(target, parts)))
        BY <2>3 DEF Parsed, Remaining
      <4>3. ~(Len(parts) < Len(FileParts))
        BY <4>2, LayoutOfFile DEF IInv
      <4> QED BY <4>1, <4>3
    <3>2. CASE target = "ek"
      BY <1>1, <1>2, <2>3, <3>1, <3>2 DEF Parsed, Stage, EkRead
    <3>3. CASE target # "ek"
      <4>1. target = "chain"
        BY <3>3 DEF IInv, Opened
      <4> QED BY <1>1, <1>2, <2>3, <3>1, <4>1 DEF Parsed, Stage, ChainRead
    <3> QED BY <3>2, <3>3
  <2>4. CASE Validate
    <3>1. ChainRead
      BY <2>4, StageOfResult DEF Validate
    <3>2. parsed' = parsed
          /\ result' = ValidateScribeCertificateChain(parsed, Scribes, Infos)
      BY <2>4 DEF Validate
    <3> QED BY <1>1, <1>2, <3>1, <3>2 DEF Stage, ChainRead
  <2>5. CASE UNCHANGED vars
    BY <1>1, <1>2, <2>5 DEF IInv, Stage, Stopped, EkRead, ChainRead, vars
  <2> QED BY <2>1, <2>2, <2>3, <2>4, <2>5
<1> QED BY <1>2, <1>3 DEF IInv

\* A call begins with nothing read, of the file it is given.
LEMMA OpensAtBeginning ==
  ASSUME IInv, NEW what \in {"chain", "ek"}, Open(what)
  PROVE  IInv'
<1>1. parts = <<>> /\ parsed = Nothing /\ pos = 0
  <2>1. parts = <<>> /\ parsed = Nothing
    BY StageOfResult DEF Open
  <2>2. Len(parts) = 0
    BY <2>1
  <2> QED BY <2>1, <2>2, FilePartsFollow DEF IInv, Cut
<1>2. /\ file' \in Files[what] /\ target' = what /\ result' = <<"reading">>
      /\ parts' = <<>> /\ parsed' = Nothing /\ pos' = 0
  BY <1>1 DEF Open
<1>3. Opened'
  BY <1>2 DEF Opened
<1>4. Cut'
  <2>1. Announced' \in BOOLEAN /\ target' \in {"chain", "ek"}
    BY <1>2 DEF Announced, AnnouncesHash
  <2>2. Len(FileParts') \in Nat /\ At'[1] = 0
    BY <2>1, PartsFollow DEF FileParts, At
  <2>3. Len(file') \in Nat
    BY <1>2, FilesAssumption
  <2> QED BY <1>2, <2>2, <2>3, NothingRead DEF Cut
<1> QED BY <1>2, <1>3, <1>4 DEF IInv, Stage

\* Nothing is left of a call that is over.
LEMMA ExitsToBeginning ==
  ASSUME Exit
  PROVE  IInv'
<1>1. /\ file' = <<>> /\ target' = "chain" /\ result' = Idle
      /\ parts' = <<>> /\ parsed' = Nothing /\ pos' = 0
  BY DEF Exit
<1>2. Announced' \in BOOLEAN /\ target' \in {"chain", "ek"}
  BY <1>1 DEF Announced, AnnouncesHash
<1>3. Len(FileParts') \in Nat /\ At'[1] = 0
  BY <1>2, PartsFollow DEF FileParts, At
<1>4. Cut'
  BY <1>1, <1>3, NothingRead DEF Cut
<1> QED BY <1>1, <1>4 DEF IInv, Opened, Stage

\* The inductive invariant is preserved by every step.
LEMMA NextIInv == IInv /\ [Next]_vars => IInv'
<1> SUFFICES ASSUME IInv, [Next]_vars PROVE IInv'
  OBVIOUS
<1>1. CASE ReadPart
  BY <1>1, ReadsNext
<1>2. CASE OpenFails \/ ReadFails \/ Parsed \/ Validate \/ UNCHANGED vars
  BY <1>2, OtherSteps
<1>3. CASE Exit
  BY <1>3, ExitsToBeginning
<1>4. ASSUME NEW what \in {"chain", "ek"}, Open(what)
      PROVE  IInv'
  BY <1>4, OpensAtBeginning
<1> QED BY <1>1, <1>2, <1>3, <1>4 DEF Next

\* What the parser has done so far is what the file and its format make it do.
THEOREM FollowsFile == Spec => []IInv
BY InitIInv, NextIInv, PTL DEF Spec

------------------------------------------------------------------------------
(* What is encoded is read back.                                           *)

\* A half of a header as a block.
Half(kind, header, n) == EncodeHeader(kind, header)[n]

\* A header is two blocks.
LEMMA HeaderBlocks ==
  ASSUME NEW kind, NEW header
  PROVE  LET names == AllFields(header) \ {"RWHash", "QualifiedName"}
         IN  /\ EncodeHeader(kind, header) = <<Half(kind, header, 1), Half(kind, header, 2)>>
             /\ Half(kind, header, 1) = <<kind, 1, HalfOf(header, names \cap FirstHalf)>>
             /\ Half(kind, header, 2) = <<kind, 2, HalfOf(header, names \ FirstHalf)>>
BY DEF EncodeHeader, Half

\* The blocks of a chain.
LEMMA ChainEncoding ==
  ASSUME NEW c
  PROVE  EncodeChain(c) =
           LET akc == c.akc  didc == c.didc  didsc == c.didsc
           IN  IF akc.header.ExtensionHeaderType = EHTFirmwareHash
               THEN <<Half("akc", akc.header, 1), Half("akc", akc.header, 2),
                      <<"coordinate", akc.pub.x>>, <<"coordinate", akc.pub.y>>,
                      <<"signature", 1, akc.sig>>, <<"signature", 2, akc.sig>>,
                      <<"hash", akc.fwHash>>,
                      Half("didc", didc.header, 1), Half("didc", didc.header, 2),
                      <<"coordinate", didc.key.x>>, <<"coordinate", didc.key.y>>,
                      <<"signature", 1, didc.sig>>, <<"signature", 2, didc.sig>>,
                      <<"hash", didsc.certHash>>,
                      <<"coordinate", didsc.scribeRWKey.x>>, <<"coordinate", didsc.scribeRWKey.y>>,
                      <<"signature", 1, didsc.sig>>, <<"signature", 2, didsc.sig>>>>
               ELSE <<Half("akc", akc.header, 1), Half("akc", akc.header, 2),
                      <<"coordinate", akc.pub.x>>, <<"coordinate", akc.pub.y>>,
                      <<"signature", 1, akc.sig>>, <<"signature", 2, akc.sig>>,
                      Half("didc", didc.header, 1), Half("didc", didc.header, 2),
                      <<"coordinate", didc.key.x>>, <<"coordinate", didc.key.y>>,
                      <<"signature", 1, didc.sig>>, <<"signature", 2, didc.sig>>,
                      <<"hash", didsc.certHash>>,
                      <<"coordinate", didsc.scribeRWKey.x>>, <<"coordinate", didsc.scribeRWKey.y>>,
                      <<"signature", 1, didsc.sig>>, <<"signature", 2, didsc.sig>>>>
<1> DEFINE akc == c.akc  didc == c.didc  didsc == c.didsc
           a1 == Half("akc", akc.header, 1)
           a2 == Half("akc", akc.header, 2)
           a3 == <<"coordinate", akc.pub.x>>
           a4 == <<"coordinate", akc.pub.y>>
           a5 == <<"signature", 1, akc.sig>>
           a6 == <<"signature", 2, akc.sig>>
           a7 == <<"hash", akc.fwHash>>
           d1 == Half("didc", didc.header, 1)
           d2 == Half("didc", didc.header, 2)
           d3 == <<"coordinate", didc.key.x>>
           d4 == <<"coordinate", didc.key.y>>
           d5 == <<"signature", 1, didc.sig>>
           d6 == <<"signature", 2, didc.sig>>
           s1 == <<"hash", didsc.certHash>>
           s2 == <<"coordinate", didsc.scribeRWKey.x>>
           s3 == <<"coordinate", didsc.scribeRWKey.y>>
           s4 == <<"signature", 1, didsc.sig>>
           s5 == <<"signature", 2, didsc.sig>>
<1>1. /\ EncodeHeader("akc", akc.header) = <<a1, a2>> /\ EncodeKey(akc.pub) = <<a3, a4>>
      /\ EncodeSig(akc.sig) = <<a5, a6>> /\ EncodeHash(akc.fwHash) = <<a7>>
      /\ EncodeHeader("didc", didc.header) = <<d1, d2>> /\ EncodeKey(didc.key) = <<d3, d4>>
      /\ EncodeSig(didc.sig) = <<d5, d6>>
      /\ EncodeHash(didsc.certHash) = <<s1>> /\ EncodeKey(didsc.scribeRWKey) = <<s2, s3>>
      /\ EncodeSig(didsc.sig) = <<s4, s5>>
  BY HeaderBlocks, Zenon DEF EncodeKey, EncodeSig, EncodeHash
<1> HIDE DEF a1, a2, a3, a4, a5, a6, a7, d1, d2, d3, d4, d5, d6, s1, s2, s3, s4, s5
<1>2. EncodeDidc(didc) = <<d1, d2, d3, d4, d5, d6>>
  <2>1. EncodeDidc(didc) = <<d1, d2>> \o <<d3, d4>> \o <<d5, d6>>
    BY <1>1, Zenon DEF EncodeDidc
  <2>2. <<d1, d2>> \o <<d3, d4>> \o <<d5, d6>> = <<d1, d2, d3, d4, d5, d6>>
    BY CertificateJoins
  <2> QED BY <2>1, <2>2, Zenon
<1>3. EncodeDidsc(didsc) = <<s1, s2, s3, s4, s5>>
  BY <1>1, ScribeCertificateJoins DEF EncodeDidsc
<1>4. CASE akc.header.ExtensionHeaderType = EHTFirmwareHash
  <2>1. EncodeAkc(akc) = <<a1, a2, a3, a4, a5, a6, a7>>
    <3>1. EncodeAkc(akc) = <<a1, a2>> \o <<a3, a4>> \o <<a5, a6>> \o <<a7>>
      BY <1>1, <1>4, Zenon DEF EncodeAkc
    <3>2. <<a1, a2>> \o <<a3, a4>> \o <<a5, a6>> \o <<a7>> = <<a1, a2, a3, a4, a5, a6, a7>>
      BY HashedCertificateJoins
    <3> QED BY <3>1, <3>2, Zenon
  <2>2. EncodeChain(c)
          = <<a1, a2, a3, a4, a5, a6, a7, d1, d2, d3, d4, d5, d6, s1, s2, s3, s4, s5>>
    <3>1. EncodeChain(c) = <<a1, a2, a3, a4, a5, a6, a7>> \o <<d1, d2, d3, d4, d5, d6>>
                             \o <<s1, s2, s3, s4, s5>>
      BY <1>2, <1>3, <2>1, Zenon DEF EncodeChain
    <3>2. <<a1, a2, a3, a4, a5, a6, a7>> \o <<d1, d2, d3, d4, d5, d6>> \o <<s1, s2, s3, s4, s5>>
            = <<a1, a2, a3, a4, a5, a6, a7, d1, d2, d3, d4, d5, d6, s1, s2, s3, s4, s5>>
      BY HashedChainJoins
    <3> QED BY <3>1, <3>2, Zenon
  <2> QED BY <1>4, <2>2, Zenon
           DEF a1, a2, a3, a4, a5, a6, a7, d1, d2, d3, d4, d5, d6, s1, s2, s3, s4, s5
<1>5. CASE akc.header.ExtensionHeaderType # EHTFirmwareHash
  <2>1. EncodeAkc(akc) = <<a1, a2>> \o <<a3, a4>> \o <<a5, a6>> \o <<>>
    BY <1>1, <1>5, Zenon DEF EncodeAkc
  <2>2. EncodeAkc(akc) = <<a1, a2, a3, a4, a5, a6>>
    <3>1. <<a1, a2>> \o <<a3, a4>> \o <<a5, a6>> = <<a1, a2, a3, a4, a5, a6>>
      BY CertificateJoins
    <3>2. <<a1, a2, a3, a4, a5, a6>> \o <<>> = <<a1, a2, a3, a4, a5, a6>>
      OBVIOUS
    <3> QED BY <2>1, <3>1, <3>2, Zenon
  <2>3. EncodeChain(c)
          = <<a1, a2, a3, a4, a5, a6, d1, d2, d3, d4, d5, d6, s1, s2, s3, s4, s5>>
    <3>1. EncodeChain(c) = <<a1, a2, a3, a4, a5, a6>> \o <<d1, d2, d3, d4, d5, d6>> \o <<s1, s2, s3, s4, s5>>
      BY <1>2, <1>3, <2>2, Zenon DEF EncodeChain
    <3>2. <<a1, a2, a3, a4, a5, a6>> \o <<d1, d2, d3, d4, d5, d6>> \o <<s1, s2, s3, s4, s5>>
            = <<a1, a2, a3, a4, a5, a6, d1, d2, d3, d4, d5, d6, s1, s2, s3, s4, s5>>
      BY PlainChainJoins
    <3> QED BY <3>1, <3>2, Zenon
  <2> QED BY <1>5, <2>3, Zenon
           DEF a1, a2, a3, a4, a5, a6, d1, d2, d3, d4, d5, d6, s1, s2, s3, s4, s5
<1> QED BY <1>4, <1>5

\* The blocks of an EK certificate.
LEMMA EkEncoding ==
  ASSUME NEW e
  PROVE  EncodeEk(e) = <<Half("ek", e.header, 1), Half("ek", e.header, 2),
                         <<"hash", e.header.RWHash>>, <<"hash", e.header.QualifiedName>>,
                         <<"coordinate", e.pub.x>>, <<"coordinate", e.pub.y>>,
                         <<"signature", 1, e.sig>>, <<"signature", 2, e.sig>>>>
<1> DEFINE b1 == Half("ek", e.header, 1)
           b2 == Half("ek", e.header, 2)
           b3 == <<"hash", e.header.RWHash>>
           b4 == <<"hash", e.header.QualifiedName>>
           b5 == <<"coordinate", e.pub.x>>
           b6 == <<"coordinate", e.pub.y>>
           b7 == <<"signature", 1, e.sig>>
           b8 == <<"signature", 2, e.sig>>
<1>1. /\ EncodeHeader("ek", e.header) = <<b1, b2>>
      /\ EncodeHash(e.header.RWHash) = <<b3>> /\ EncodeHash(e.header.QualifiedName) = <<b4>>
      /\ EncodeKey(e.pub) = <<b5, b6>> /\ EncodeSig(e.sig) = <<b7, b8>>
  BY HeaderBlocks, Zenon DEF EncodeKey, EncodeSig, EncodeHash
<1> HIDE DEF b1, b2, b3, b4, b5, b6, b7, b8
<1>2. EncodeEk(e) = <<b1, b2, b3, b4, b5, b6, b7, b8>>
  <2>1. EncodeEk(e) = <<b1, b2>> \o <<b3>> \o <<b4>> \o <<b5, b6>> \o <<b7, b8>>
    BY <1>1, Zenon DEF EncodeEk
  <2>2. <<b1, b2>> \o <<b3>> \o <<b4>> \o <<b5, b6>> \o <<b7, b8>>
          = <<b1, b2, b3, b4, b5, b6, b7, b8>>
    BY EkJoins
  <2> QED BY <2>1, <2>2, Zenon
<1> QED BY <1>2, Zenon DEF b1, b2, b3, b4, b5, b6, b7, b8

\* The lengths of what is encoded.
LEMMA EncodedLengths ==
  ASSUME NEW c, NEW e
  PROVE  /\ Len(EncodeAkc(c.akc))
              = IF c.akc.header.ExtensionHeaderType = EHTFirmwareHash THEN 7 ELSE 6
         /\ Len(EncodeDidc(c.didc)) = 6
         /\ Len(EncodeChain(c))
              = Total("chain", c.akc.header.ExtensionHeaderType = EHTFirmwareHash)
         /\ Len(EncodeEk(e)) = 8
<1>1. Len(EncodeChain(c)) = Total("chain", c.akc.header.ExtensionHeaderType = EHTFirmwareHash)
  BY ChainEncoding DEF Total
<1>2. Len(EncodeEk(e)) = 8
  BY EkEncoding
<1>3. Len(EncodeDidc(c.didc)) = 6
  <2> DEFINE h == c.didc.header  k == c.didc.key  s == c.didc.sig
  <2>1. EncodeDidc(c.didc)
          = <<Half("didc", h, 1), Half("didc", h, 2)>>
              \o <<<<"coordinate", k.x>>, <<"coordinate", k.y>>>>
              \o <<<<"signature", 1, s>>, <<"signature", 2, s>>>>
    BY HeaderBlocks, Zenon DEF EncodeDidc, EncodeKey, EncodeSig
  <2> QED BY <2>1, CertificateJoins
<1>4. Len(EncodeAkc(c.akc))
        = IF c.akc.header.ExtensionHeaderType = EHTFirmwareHash THEN 7 ELSE 6
  <2> DEFINE h == c.akc.header  k == c.akc.pub  s == c.akc.sig
             blocks == <<Half("akc", h, 1), Half("akc", h, 2)>>
                         \o <<<<"coordinate", k.x>>, <<"coordinate", k.y>>>>
                         \o <<<<"signature", 1, s>>, <<"signature", 2, s>>>>
  <2>1. EncodeAkc(c.akc)
          = blocks \o (IF h.ExtensionHeaderType = EHTFirmwareHash
                       THEN <<<<"hash", c.akc.fwHash>>>> ELSE <<>>)
    BY HeaderBlocks, Zenon DEF EncodeAkc, EncodeKey, EncodeSig, EncodeHash
  <2>2. Len(blocks \o <<<<"hash", c.akc.fwHash>>>>) = 7
    BY HashedCertificateJoins
  <2>3. Len(blocks \o <<>>) = 6
    BY CertificateJoins
  <2> HIDE DEF blocks
  <2> QED BY <2>1, <2>2, <2>3
<1> QED BY <1>1, <1>2, <1>3, <1>4

\* The file of a chain announces a hash as its alias key certificate does.
LEMMA Announces ==
  ASSUME NEW header, "ExtensionHeaderType" \in DOMAIN header,
         NEW S, NEW f \in Seq(S), Len(f) > 0, f[1] = Half("akc", header, 1)
  PROVE  AnnouncesHash(SubSeq(f, 1, 2)) <=> header.ExtensionHeaderType = EHTFirmwareHash
<1> DEFINE names == AllFields(header) \ {"RWHash", "QualifiedName"}
<1>1. SubSeq(f, 1, 2)[1] = f[1]
  OBVIOUS
<1>2. f[1] = <<"akc", 1, HalfOf(header, names \cap FirstHalf)>>
  BY HeaderBlocks
<1>3. "ExtensionHeaderType" \in DOMAIN header \cap ((names \cap FirstHalf) \ {"const"})
  BY DEF AllFields, FirstHalf
<1>4. HalfOf(header, names \cap FirstHalf).rest.ExtensionHeaderType = header.ExtensionHeaderType
  <2> HIDE DEF names
  <2> QED BY <1>3 DEF HalfOf, Fields, Restrict
<1> HIDE DEF names
<1> QED BY <1>1, <1>2, <1>4 DEF AnnouncesHash

------------------------------------------------------------------------------
(* The invariants.                                                         *)

\* What has been read is a number of whole parts, and certificates are there once
\* the parser has returned them.
THEOREM TypeCorrect == Spec => []TypeOK
<1>1. IInv => TypeOK
  <2> SUFFICES ASSUME IInv PROVE TypeOK
    OBVIOUS
  <2>1. Len(parts) \in 0 .. Len(FileParts) /\ Len(FileParts) \in Nat \ {0}
    BY FilePartsFollow DEF IInv, Cut
  <2>2. pos \in 0 .. Len(file)
    BY PlacesInFile DEF IInv
  <2>3. result \in {Idle, Missing} => file = <<>> /\ pos = 0 /\ parts = <<>>
    <3> SUFFICES ASSUME result \in {Idle, Missing}
                 PROVE  file = <<>> /\ pos = 0 /\ parts = <<>>
      OBVIOUS
    <3>1. file = <<>> /\ parts = <<>>
      BY StageOfResult
    <3>2. Len(parts) = 0
      BY <3>1
    <3> QED BY <3>1, <3>2, FilePartsFollow DEF IInv, Cut
  <2>4. Len(parts) <= Len(Layout(target, parts))
    <3>1. CASE Len(parts) < Len(FileParts)
      BY <2>1, <3>1, LayoutOfFile DEF IInv
    <3>2. CASE Len(parts) = Len(FileParts)
      <4>1. parts # <<>>
        BY <2>1, <3>2
      <4> QED BY <2>1, <3>2, <4>1, LayoutOfFile DEF IInv
    <3> QED BY <2>1, <3>1, <3>2
  <2>5. parsed # Nothing => Len(parts) = Len(Layout(target, parts))
    <3> SUFFICES ASSUME parsed # Nothing PROVE Len(parts) = Len(Layout(target, parts))
      OBVIOUS
    <3>1. Len(parts) = Len(FileParts)
      BY DEF IInv, Stage, Stopped, EkRead, ChainRead
    <3>2. parts # <<>>
      BY <2>1, <3>1
    <3> QED BY <3>1, <3>2, LayoutOfFile DEF IInv
  <2>6. result \in {Idle, <<"reading">>, Missing} => parsed = Nothing
    BY StageOfResult
  <2> QED BY <2>2, <2>3, <2>4, <2>5, <2>6 DEF TypeOK, IInv, Opened
<1> QED BY <1>1, FollowsFile, PTL

\* Of a genuine file cut short, nothing is returned, and the error names the
\* certificate that the cut is in.
LEMMA CutIsNamed ==
  ASSUME IInv, Ended, result # Missing, NEW encoded, NEW announced \in BOOLEAN,
         CutShort(encoded), Len(encoded) = Total(target, announced),
         Len(file) > 0 /\ target = "chain" => (Announced <=> announced)
  PROVE  /\ parsed = Nothing
         /\ result[1] = CertOf(target, announced, Len(file) + 1)
<1>1. /\ Len(file) \in Nat /\ target \in {"chain", "ek"}
      /\ Announced \in BOOLEAN /\ Len(file) < Total(target, announced)
  BY FilesAreSequences, AnnouncedBoolean DEF IInv, Opened, CutShort
<1>2. Len(parts) # Len(FileParts)
  <2> SUFFICES ASSUME Len(parts) = Len(FileParts) PROVE FALSE
    OBVIOUS
  <2>1. Total(target, Announced) <= Len(file)
    BY FilePartsFollow DEF IInv, Cut
  <2>2. Len(file) > 0
    BY <1>1, <2>1 DEF Total
  <2>3. Total(target, Announced) = Total(target, announced)
    BY <1>1, <2>2 DEF Total
  <2> QED BY <1>1, <2>1, <2>3
<1>3. Stopped
  BY <1>2, StageOfResult DEF EkRead, ChainRead
<1>4. result[1] = CertOf(target, Announced, Len(file) + 1)
  BY <1>3, StoppedAt DEF IInv
<1>5. CertOf(target, Announced, Len(file) + 1) = CertOf(target, announced, Len(file) + 1)
  <2>1. CASE Len(file) = 0
    BY <1>1, <2>1 DEF CertOf
  <2>2. CASE Len(file) > 0
    BY <1>1, <2>2 DEF CertOf
  <2> QED BY <1>1, <2>1, <2>2
<1> QED BY <1>3, <1>4, <1>5 DEF Stopped

\* A parser makes nothing up (chain_parser.go:35): the parts are the beginning of
\* the file, each block once, and of a genuine file cut short nothing is returned
\* and the error names the certificate that the cut is in.
THEOREM PartsOfTheFile == Spec => []NothingMadeUp
<1>1. IInv => NothingMadeUp
  <2> SUFFICES ASSUME IInv PROVE NothingMadeUp
    OBVIOUS
  <2>1. FlattenSeq(parts) = SubSeq(file, 1, pos)
    <3>1. file \in Seq(Range(file)) /\ Len(parts) \in Nat /\ At[1] = 0
      BY FilesAreSequences, FilePartsFollow DEF IInv, Cut
    <3>2. \A i \in 1 .. Len(parts) : At[i] \in 0 .. Len(file) /\ At[i + 1] \in At[i] .. Len(file)
      BY PlacesInFile DEF IInv
    <3>3. \A i \in 1 .. Len(parts) : parts[i] = SubSeq(file, At[i] + 1, At[i + 1])
      BY DEF IInv, Cut
    <3>4. parts \in [1 .. Len(parts) -> Seq(Range(file))]
      <4>1. ASSUME NEW i \in 1 .. Len(parts)
            PROVE  SubSeq(file, At[i] + 1, At[i + 1]) \in Seq(Range(file))
        <5>1. Len(file) \in Nat /\ At[i] \in 0 .. Len(file) /\ At[i + 1] \in At[i] .. Len(file)
          BY <3>1, <3>2
        <5> QED BY <3>1, <5>1
      <4>2. parts = [i \in 1 .. Len(parts) |-> SubSeq(file, At[i] + 1, At[i + 1])]
        BY DEF IInv, Cut
      <4> QED BY <4>1, <4>2
    <3>5. FlattenSeq(parts) = SubSeq(file, 1, At[Len(parts) + 1])
      BY <3>1, <3>2, <3>3, <3>4, Flattened
    <3> QED BY <3>5 DEF IInv, Cut
  <2> SUFFICES ASSUME Ended, result # Missing
               PROVE  IF target = "chain"
                      THEN \A b \in Boots : CutShort(ChainFile[b]) =>
                             parsed = Nothing /\ result[1] = CertAt(Chains[b], Len(file) + 1)
                      ELSE \A e \in DOMAIN Ekcs : CutShort(EkFile[e]) =>
                             parsed = Nothing /\ result[1] = "EK"
    BY <2>1 DEF NothingMadeUp
  <2>2. ASSUME target = "chain", NEW b \in Boots, CutShort(ChainFile[b])
        PROVE  parsed = Nothing /\ result[1] = CertAt(Chains[b], Len(file) + 1)
    <3> DEFINE c == Chain(b[1], b[2])
               announced == c.akc.header.ExtensionHeaderType = EHTFirmwareHash
    <3>1. /\ Chains[b] = c /\ ChainFile[b] = EncodeChain(c)
          /\ c.akc.header = AkcHeader(b[1], b[2])
      BY DEF ChainFile, Chains, Chain, Akc
    <3>2. /\ Len(EncodeChain(c)) = Total("chain", announced)
          /\ Len(EncodeAkc(c.akc)) = (IF announced THEN 7 ELSE 6)
          /\ Len(EncodeDidc(c.didc)) = 6
      BY EncodedLengths
    <3>3. Len(file) > 0 => (Announced <=> announced)
      <4> SUFFICES ASSUME Len(file) > 0 PROVE Announced <=> announced
        OBVIOUS
      <4>1. file[1] = EncodeChain(c)[1]
        <5>1. SubSeq(EncodeChain(c), 1, Len(file)) = file /\ Len(file) \in Nat
          BY <2>2, <3>1, FilesAreSequences DEF CutShort, IInv
        <5>2. SubSeq(EncodeChain(c), 1, Len(file))[1] = EncodeChain(c)[1]
          BY <5>1
        <5> QED BY <5>1, <5>2
      <4>2. EncodeChain(c)[1] = Half("akc", c.akc.header, 1)
        BY ChainEncoding
      <4>3. "ExtensionHeaderType" \in DOMAIN c.akc.header
        BY <3>1 DEF AkcHeader
      <4>4. file \in Seq(Range(file))
        BY FilesAreSequences DEF IInv
      <4> HIDE DEF c
      <4> QED BY <4>1, <4>2, <4>3, <4>4, Announces DEF Announced
    <3> HIDE DEF c
    <3>4. /\ parsed = Nothing
          /\ result[1] = CertOf(target, announced, Len(file) + 1)
      BY <2>2, <3>1, <3>2, <3>3, CutIsNamed
    <3>5. CertOf("chain", announced, Len(file) + 1) = CertAt(c, Len(file) + 1)
      BY <3>2 DEF CertOf, CertAt
    <3> QED BY <2>2, <3>1, <3>4, <3>5
  <2>3. ASSUME target # "chain", NEW e \in DOMAIN Ekcs, CutShort(EkFile[e])
        PROVE  parsed = Nothing /\ result[1] = "EK"
    <3>1. target = "ek"
      BY <2>3 DEF IInv, Opened
    <3>2. Len(EkFile[e]) = Total("ek", FALSE)
      BY EncodedLengths DEF EkFile, Total
    <3>3. parsed = Nothing /\ result[1] = CertOf(target, FALSE, Len(file) + 1)
      BY <2>3, <3>1, <3>2, CutIsNamed
    <3> QED BY <3>1, <3>3 DEF CertOf
  <2> QED BY <2>2, <2>3
<1> QED BY <1>1, FollowsFile, PTL

------------------------------------------------------------------------------
(* What the certificates are read from.                                    *)

\* A sequence of two is known by its elements.
LEMMA Pair ==
  ASSUME NEW S, NEW s \in Seq(S), Len(s) = 2, NEW x, NEW y, s[1] = x, s[2] = y
  PROVE  s = <<x, y>>
OBVIOUS

\* A part of two blocks.
LEMMA TwoBlocks ==
  ASSUME NEW S, NEW f \in Seq(S), NEW m \in Nat \ {0}, NEW n \in 1 .. Len(f), n = m + 1
  PROVE  SubSeq(f, m, n) = <<f[m], f[n]>>
<1> DEFINE s == SubSeq(f, m, n)
<1>1. s \in Seq(S) /\ Len(s) = 2 /\ s[1] = f[m] /\ s[2] = f[n]
  OBVIOUS
<1> HIDE DEF s
<1>2. s = <<f[m], f[n]>>
  BY <1>1, Pair
<1> QED BY <1>2 DEF s

\* The certificates of a chain, made of these blocks.
AkcFrom(f, announced) ==
  [header |-> ReadHeader("akc", <<f[1], f[2]>>), pub |-> ReadKey(<<f[3], f[4]>>),
   sig |-> ReadSig(<<f[5], f[6]>>), fwHash |-> IF announced THEN ReadHash(f[7]) ELSE ZeroHash]

DidcFrom(f, o) ==
  [header |-> ReadHeader("didc", <<f[o + 1], f[o + 2]>>), key |-> ReadKey(<<f[o + 3], f[o + 4]>>),
   sig |-> ReadSig(<<f[o + 5], f[o + 6]>>)]

DidscFrom(f, o) ==
  [certHash |-> ReadHash(f[o + 1]), scribeRWKey |-> ReadKey(<<f[o + 2], f[o + 3]>>),
   sig |-> ReadSig(<<f[o + 4], f[o + 5]>>)]

\* The parts of a DeviceIDScribe certificate, which is read at once.
LEMMA DidscOfPart ==
  ASSUME NEW S, NEW f \in Seq(S), NEW o \in Nat, o + 5 <= Len(f)
  PROVE  ParsedDidsc(SubSeq(f, o + 1, o + 5)) = DidscFrom(f, o)
<1> DEFINE blocks == SubSeq(f, o + 1, o + 5)
<1>1. /\ blocks \in Seq(S) /\ Len(blocks) = 5
      /\ blocks[1] = f[o + 1] /\ blocks[2] = f[o + 2] /\ blocks[3] = f[o + 3]
      /\ blocks[4] = f[o + 4] /\ blocks[5] = f[o + 5]
  OBVIOUS
<1> HIDE DEF blocks
<1>2. SubSeq(blocks, 2, 3) = <<blocks[2], blocks[3]>>
  <2>1. blocks \in Seq(S) /\ 3 \in 1 .. Len(blocks)
    BY <1>1
  <2> QED BY <2>1, TwoBlocks
<1>3. SubSeq(blocks, 4, 5) = <<blocks[4], blocks[5]>>
  <2>1. blocks \in Seq(S) /\ 5 \in 1 .. Len(blocks)
    BY <1>1
  <2> QED BY <2>1, TwoBlocks
<1>4. ParsedDidsc(blocks) = DidscFrom(f, o)
  BY <1>1, <1>2, <1>3 DEF ParsedDidsc, DidscFrom
<1> QED BY <1>4 DEF blocks

\* What a chain is made of when these are its parts: the DeviceID certificate
\* starts after o blocks, with the part after n - 4.
LEMMA ChainOfParts ==
  ASSUME NEW S, NEW f \in Seq(S), NEW n \in {7, 8}, NEW o \in {6, 7}, o + 11 <= Len(f),
         NEW T, NEW read \in Seq(T), Len(read) = n,
         o = 7 <=> AnnouncesHash(read[1]),
         read[1] = SubSeq(f, 1, 2), read[2] = SubSeq(f, 3, 4), read[3] = SubSeq(f, 5, 6),
         o = 7 => read[4] = SubSeq(f, 7, 7),
         read[n - 3] = SubSeq(f, o + 1, o + 2), read[n - 2] = SubSeq(f, o + 3, o + 4),
         read[n - 1] = SubSeq(f, o + 5, o + 6), read[n] = SubSeq(f, o + 7, o + 11)
  PROVE  ParsedChain(read)
           = [akc |-> AkcFrom(f, o = 7), didc |-> DidcFrom(f, o), didsc |-> DidscFrom(f, o + 6)]
<1>1. /\ read[1] = <<f[1], f[2]>> /\ read[2] = <<f[3], f[4]>> /\ read[3] = <<f[5], f[6]>>
      /\ read[n - 3] = <<f[o + 1], f[o + 2]>> /\ read[n - 2] = <<f[o + 3], f[o + 4]>>
      /\ read[n - 1] = <<f[o + 5], f[o + 6]>>
  <2>1. /\ 2 \in 1 .. Len(f) /\ 4 \in 1 .. Len(f) /\ 6 \in 1 .. Len(f)
        /\ o + 2 \in 1 .. Len(f) /\ o + 4 \in 1 .. Len(f) /\ o + 6 \in 1 .. Len(f)
        /\ o + 1 \in Nat \ {0} /\ o + 3 \in Nat \ {0} /\ o + 5 \in Nat \ {0}
        /\ o + 2 = (o + 1) + 1 /\ o + 4 = (o + 3) + 1 /\ o + 6 = (o + 5) + 1
    OBVIOUS
  <2>2. /\ SubSeq(f, 1, 2) = <<f[1], f[2]>> /\ SubSeq(f, 3, 4) = <<f[3], f[4]>>
        /\ SubSeq(f, 5, 6) = <<f[5], f[6]>>
    BY <2>1, TwoBlocks
  <2>3. /\ SubSeq(f, o + 1, o + 2) = <<f[o + 1], f[o + 2]>>
        /\ SubSeq(f, o + 3, o + 4) = <<f[o + 3], f[o + 4]>>
        /\ SubSeq(f, o + 5, o + 6) = <<f[o + 5], f[o + 6]>>
    BY <2>1, TwoBlocks
  <2> QED BY <2>2, <2>3
<1>2. ParsedAkc(read) = AkcFrom(f, o = 7)
  <2>1. o = 7 => read[4][1] = f[7]
    OBVIOUS
  <2>2. Len(AkcParts(AnnouncesHash(read[1]))) = 4 <=> o = 7
    BY AkcPartsLength DEF AnnouncesHash
  <2> QED BY <1>1, <2>1, <2>2 DEF ParsedAkc, AkcFrom
<1>3. ParsedDidc(SubSeq(read, n - 3, n - 1)) = DidcFrom(f, o)
  <2> DEFINE part == SubSeq(read, n - 3, n - 1)
  <2>1. part[1] = read[n - 3] /\ part[2] = read[n - 2] /\ part[3] = read[n - 1]
    OBVIOUS
  <2> HIDE DEF part
  <2>2. ParsedDidc(part) = DidcFrom(f, o)
    BY <1>1, <2>1 DEF ParsedDidc, DidcFrom
  <2> QED BY <2>2 DEF part
<1>4. ParsedDidsc(read[n]) = DidscFrom(f, o + 6)
  <2>1. o + 6 \in Nat /\ (o + 6) + 5 <= Len(f) /\ o + 7 = (o + 6) + 1 /\ o + 11 = (o + 6) + 5
    OBVIOUS
  <2> QED BY <2>1, DidscOfPart
<1> QED BY <1>2, <1>3, <1>4 DEF ParsedChain

\* A chain that has been read is made of the blocks at these places of the file.
LEMMA ChainOfFile ==
  ASSUME IInv, ChainRead
  PROVE  LET o == IF Announced THEN 7 ELSE 6
         IN  /\ o + 11 <= Len(file)
             /\ parsed = [akc |-> AkcFrom(file, Announced), didc |-> DidcFrom(file, o),
                          didsc |-> DidscFrom(file, o + 6)]
<1> DEFINE o == IF Announced THEN 7 ELSE 6
           n == o + 1
<1>1. /\ Announced \in BOOLEAN /\ target = "chain" /\ parsed = ParsedChain(parts)
      /\ file \in Seq(Range(file))
  BY AnnouncedBoolean, FilesAreSequences DEF ChainRead, IInv
<1>2. Len(parts) = n /\ Total("chain", Announced) = o + 11 /\ o + 11 <= Len(file)
  <2>1. Len(FileParts) = n
    BY <1>1, PartsFollow DEF FileParts
  <2>2. At[n + 1] <= Len(file) /\ At[n + 1] = Total("chain", Announced)
    BY <1>1, <2>1, FilePartsFollow DEF ChainRead, IInv, Cut
  <2>3. Total("chain", Announced) = o + 11
    BY <1>1 DEF Total
  <2> QED BY <2>1, <2>2, <2>3 DEF ChainRead
<1>3. \A i \in 1 .. n : parts[i] = SubSeq(file, At[i] + 1, At[i + 1])
  BY <1>2 DEF IInv, Cut
<1>4. /\ parts[1] = SubSeq(file, 1, 2) /\ parts[2] = SubSeq(file, 3, 4)
      /\ parts[3] = SubSeq(file, 5, 6) /\ (o = 7 => parts[4] = SubSeq(file, 7, 7))
      /\ parts[n - 3] = SubSeq(file, o + 1, o + 2) /\ parts[n - 2] = SubSeq(file, o + 3, o + 4)
      /\ parts[n - 1] = SubSeq(file, o + 5, o + 6) /\ parts[n] = SubSeq(file, o + 7, o + 11)
  <2>1. CASE Announced
    <3>1. n = 8 /\ o = 7
      BY <2>1
    <3>2. At = <<0, 2, 4, 6, 7, 9, 11, 13, 18>>
      BY <1>1, <2>1 DEF At, Starts
    <3> HIDE DEF n, o
    <3>3. \A i \in 1 .. 8 : parts[i] = SubSeq(file, At[i] + 1, At[i + 1])
      BY <1>3, <3>1
    <3>4. /\ parts[1] = SubSeq(file, 1, 2) /\ parts[2] = SubSeq(file, 3, 4)
          /\ parts[3] = SubSeq(file, 5, 6) /\ parts[4] = SubSeq(file, 7, 7)
      BY <3>2, <3>3
    <3>5. /\ parts[5] = SubSeq(file, 8, 9) /\ parts[6] = SubSeq(file, 10, 11)
          /\ parts[7] = SubSeq(file, 12, 13) /\ parts[8] = SubSeq(file, 14, 18)
      BY <3>2, <3>3
    <3> QED BY <3>1, <3>4, <3>5
  <2>2. CASE ~Announced
    <3>1. n = 7 /\ o = 6
      BY <2>2
    <3>2. At = <<0, 2, 4, 6, 8, 10, 12, 17>>
      BY <1>1, <2>2 DEF At, Starts
    <3> HIDE DEF n, o
    <3>3. \A i \in 1 .. 7 : parts[i] = SubSeq(file, At[i] + 1, At[i + 1])
      BY <1>3, <3>1
    <3>4. /\ parts[1] = SubSeq(file, 1, 2) /\ parts[2] = SubSeq(file, 3, 4)
          /\ parts[3] = SubSeq(file, 5, 6) /\ parts[4] = SubSeq(file, 7, 8)
      BY <3>2, <3>3
    <3>5. /\ parts[5] = SubSeq(file, 9, 10) /\ parts[6] = SubSeq(file, 11, 12)
          /\ parts[7] = SubSeq(file, 13, 17)
      BY <3>2, <3>3
    <3> QED BY <3>1, <3>4, <3>5
  <2> QED BY <2>1, <2>2
<1>5. parts \in Seq({parts[i] : i \in 1 .. n})
  <2>1. parts = [i \in 1 .. n |-> parts[i]]
    BY <1>2 DEF IInv, Cut
  <2> QED BY <2>1
<1>6. n \in {7, 8} /\ o \in {6, 7} /\ (o = 7 <=> Announced)
  OBVIOUS
<1>7. o = 7 <=> AnnouncesHash(parts[1])
  BY <1>4, <1>6 DEF Announced
<1> HIDE DEF o, n
<1>8. ParsedChain(parts)
         = [akc |-> AkcFrom(file, o = 7), didc |-> DidcFrom(file, o), didsc |-> DidscFrom(file, o + 6)]
  BY <1>1, <1>2, <1>4, <1>5, <1>6, <1>7, ChainOfParts
<1>9. AkcFrom(file, o = 7) = AkcFrom(file, Announced)
  BY <1>6 DEF AkcFrom
<1> QED BY <1>1, <1>2, <1>8, <1>9 DEF o

\* And an EK certificate.
EkFrom(f) ==
  [header |-> Joined(ReadHeader("ek", <<f[1], f[2]>>),
                     [RWHash |-> ReadHash(f[3]), QualifiedName |-> ReadHash(f[4])]),
   pub |-> ReadKey(<<f[5], f[6]>>), sig |-> ReadSig(<<f[7], f[8]>>)]

\* The EK certificate returned is read from the first eight blocks of the file.
LEMMA EkOfFile ==
  ASSUME IInv, EkRead
  PROVE  8 <= Len(file) /\ parsed = EkFrom(file)
<1>1. /\ target = "ek" /\ parsed = ParsedEk(parts) /\ file \in Seq(Range(file))
      /\ Len(file) \in Nat
  BY FilesAreSequences DEF EkRead, IInv
<1>2. Len(parts) = 3 /\ At = <<0, 4, 6, 8>>
  <2>1. Len(FileParts) = 3
    BY <1>1, PartsFollow, AnnouncedBoolean DEF FileParts
  <2> QED BY <1>1, <2>1 DEF EkRead, At, Starts
<1>3. 8 <= Len(file)
  BY <1>2 DEF IInv, Cut
<1>4. /\ parts[1] = SubSeq(file, 1, 4) /\ parts[2] = SubSeq(file, 5, 6)
      /\ parts[3] = SubSeq(file, 7, 8)
  <2>1. \A i \in 1 .. 3 : parts[i] = SubSeq(file, At[i] + 1, At[i + 1])
    BY <1>2 DEF IInv, Cut
  <2> QED BY <1>2, <2>1
<1>5. parts[2] = <<file[5], file[6]>> /\ parts[3] = <<file[7], file[8]>>
  <2>1. 6 \in 1 .. Len(file) /\ 8 \in 1 .. Len(file)
    BY <1>1, <1>3
  <2> QED BY <1>1, <1>4, <2>1, TwoBlocks
<1>6. /\ parts[1][1] = file[1] /\ parts[1][2] = file[2]
      /\ parts[1][3] = file[3] /\ parts[1][4] = file[4]
  BY <1>1, <1>3, <1>4
<1>7. ReadHeader("ek", parts[1]) = ReadHeader("ek", <<file[1], file[2]>>)
  <2> DEFINE two == <<file[1], file[2]>>
  <2>1. two[1] = parts[1][1] /\ two[2] = parts[1][2]
    BY <1>6
  <2> HIDE DEF two
  <2>2. IsHeader("ek", parts[1]) <=> IsHeader("ek", two)
    BY <2>1 DEF IsHeader
  <2>3. AnnouncesHash(parts[1]) = AnnouncesHash(two)
    BY <2>1, Zenon DEF AnnouncesHash
  <2>4. ReadHeader("ek", parts[1]) = ReadHeader("ek", two)
    BY <2>1, <2>2, <2>3 DEF ReadHeader
  <2> QED BY <2>4 DEF two
<1> QED BY <1>1, <1>3, <1>5, <1>6, <1>7 DEF ParsedEk, EkFrom

------------------------------------------------------------------------------
(* What a header, a key, a signature and a hash are read back as.          *)

\* Two halves of a function make it up again.
LEMMA HalvesJoin ==
  ASSUME NEW g, NEW A, NEW B
  PROVE  Joined(Restrict(g, A), Restrict(g, B)) = Restrict(g, A \cup B)
BY DEF Joined, Restrict

\* A header is what its halves are read as, but for the hashes that an EK
\* certificate's has in blocks of their own.
LEMMA HeaderReadBack ==
  ASSUME NEW kind, NEW h, "const" \in DOMAIN h,
         h.const = [f \in DOMAIN h.const |-> h.const[f]],
         DOMAIN h.const \cap {"RWHash", "QualifiedName"} = {}
  PROVE  ReadHeader(kind, <<Half(kind, h, 1), Half(kind, h, 2)>>)
           = Restrict(h, DOMAIN h \ {"RWHash", "QualifiedName"})
<1> DEFINE names == AllFields(h) \ {"RWHash", "QualifiedName"}
           first == HalfOf(h, names \cap FirstHalf)
           second == HalfOf(h, names \ FirstHalf)
           blocks == <<Half(kind, h, 1), Half(kind, h, 2)>>
           D == DOMAIN h
           C == DOMAIN h.const
<1>1. /\ blocks[1][1] = kind /\ blocks[1][2] = 1 /\ blocks[1][3] = first
      /\ blocks[2][1] = kind /\ blocks[2][2] = 2 /\ blocks[2][3] = second
  <2> HIDE DEF first, second
  <2> QED BY HeaderBlocks DEF first, second
<1>2. ReadHeader(kind, blocks)
        = Joined([const |-> Joined(first.const, second.const)], Joined(first.rest, second.rest))
  <2> HIDE DEF blocks, first, second
  <2>1. IsHeader(kind, blocks)
    BY <1>1 DEF IsHeader
  <2> QED BY <1>1, <2>1 DEF ReadHeader
<1>3. Joined(first.const, second.const) = h.const
  <2>1. /\ first.const = Restrict(h.const, C \cap (names \cap FirstHalf))
        /\ second.const = Restrict(h.const, C \cap (names \ FirstHalf))
    BY DEF HalfOf, Fields
  <2>2. (C \cap (names \cap FirstHalf)) \cup (C \cap (names \ FirstHalf)) = C
    BY DEF AllFields
  <2>3. Restrict(h.const, C) = h.const
    BY DEF Restrict
  <2> HIDE DEF first, second, names, C
  <2> QED BY <2>1, <2>2, <2>3, HalvesJoin
<1>4. Joined(first.rest, second.rest) = Restrict(h, D \ {"const", "RWHash", "QualifiedName"})
  <2>1. /\ first.rest = Restrict(h, D \cap ((names \cap FirstHalf) \ {"const"}))
        /\ second.rest = Restrict(h, D \cap ((names \ FirstHalf) \ {"const"}))
    BY DEF HalfOf, Fields
  <2>2. (D \cap ((names \cap FirstHalf) \ {"const"})) \cup (D \cap ((names \ FirstHalf) \ {"const"}))
          = D \ {"const", "RWHash", "QualifiedName"}
    BY DEF AllFields
  <2> HIDE DEF first, second, names, D
  <2> QED BY <2>1, <2>2, HalvesJoin
<1>5. Joined([const |-> h.const], Restrict(h, D \ {"const", "RWHash", "QualifiedName"}))
        = Restrict(h, D \ {"RWHash", "QualifiedName"})
  BY DEF Joined, Restrict
<1> HIDE DEF first, second, names, D
<1> QED BY <1>2, <1>3, <1>4, <1>5 DEF D

\* So are a key, a signature and a hash.
LEMMA RestReadBack ==
  ASSUME NEW key, IsKey(key), NEW sig, NEW hash
  PROVE  /\ ReadKey(<< <<"coordinate", key.x>>, <<"coordinate", key.y>> >>) = key
         /\ ReadSig(<< <<"signature", 1, sig>>, <<"signature", 2, sig>> >>) = sig
         /\ ReadHash(<<"hash", hash>>) = hash
<1>1. ReadKey(<< <<"coordinate", key.x>>, <<"coordinate", key.y>> >>) = key
  BY DEF ReadKey, ReadCoordinate, IsKey
<1>2. ReadSig(<< <<"signature", 1, sig>>, <<"signature", 2, sig>> >>) = sig
  BY DEF ReadSig, IsHeader
<1>3. ReadHash(<<"hash", hash>>) = hash
  BY DEF ReadHash
<1> QED BY <1>1, <1>2, <1>3

\* The headers of genuine certificates are records with these fields.
LEMMA GenuineHeaders ==
  ASSUME NEW d, NEW f, NEW l
  PROVE  /\ AkcHeader(d, f).const = AkcConst /\ DidcHeader(d).const = DidcConst
         /\ EkHeader(d, f, l).const = EkConst
         /\ DOMAIN AkcHeader(d, f) = HeaderFields.akc \cup {"const"}
         /\ DOMAIN DidcHeader(d) = HeaderFields.didc \cup {"const"}
         /\ DOMAIN EkHeader(d, f, l)
              = HeaderFields.ek \cup {"const", "RWHash", "QualifiedName"}
<1>1. AkcHeader(d, f).const = AkcConst /\ DOMAIN AkcHeader(d, f) = HeaderFields.akc \cup {"const"}
  BY DEF AkcHeader, HeaderFields
<1>2. DidcHeader(d).const = DidcConst /\ DOMAIN DidcHeader(d) = HeaderFields.didc \cup {"const"}
  BY DEF DidcHeader, HeaderFields
<1>3. /\ EkHeader(d, f, l).const = EkConst
      /\ DOMAIN EkHeader(d, f, l) = HeaderFields.ek \cup {"const", "RWHash", "QualifiedName"}
  BY DEF EkHeader, HeaderFields
<1> QED BY <1>1, <1>2, <1>3

\* The header of a genuine certificate is what its halves are read as.
LEMMA GenuineHeadersReadBack ==
  ASSUME NEW d, NEW f, NEW l
  PROVE  /\ ReadHeader("akc", <<Half("akc", AkcHeader(d, f), 1), Half("akc", AkcHeader(d, f), 2)>>)
              = AkcHeader(d, f)
         /\ ReadHeader("didc", <<Half("didc", DidcHeader(d), 1), Half("didc", DidcHeader(d), 2)>>)
              = DidcHeader(d)
         /\ Joined(ReadHeader("ek", <<Half("ek", EkHeader(d, f, l), 1),
                                      Half("ek", EkHeader(d, f, l), 2)>>),
                   [RWHash |-> EkHeader(d, f, l).RWHash,
                    QualifiedName |-> EkHeader(d, f, l).QualifiedName])
              = EkHeader(d, f, l)
<1>1. /\ AkcConst = [c \in DOMAIN AkcConst |-> AkcConst[c]]
      /\ DOMAIN AkcConst \cap {"RWHash", "QualifiedName"} = {}
  BY DEF AkcConst
<1>2. /\ DidcConst = [c \in DOMAIN DidcConst |-> DidcConst[c]]
      /\ DOMAIN DidcConst \cap {"RWHash", "QualifiedName"} = {}
  BY DEF DidcConst
<1>3. /\ EkConst = [c \in DOMAIN EkConst |-> EkConst[c]]
      /\ DOMAIN EkConst \cap {"RWHash", "QualifiedName"} = {}
  BY DEF EkConst
<1>4. ReadHeader("akc", <<Half("akc", AkcHeader(d, f), 1), Half("akc", AkcHeader(d, f), 2)>>)
        = AkcHeader(d, f)
  <2> DEFINE h == AkcHeader(d, f)
  <2>1. h = [x \in DOMAIN h |-> h[x]]
    BY DEF AkcHeader
  <2>2. h.const = AkcConst /\ "const" \in DOMAIN h /\ DOMAIN h \ {"RWHash", "QualifiedName"} = DOMAIN h
    BY GenuineHeaders DEF HeaderFields
  <2> HIDE DEF h
  <2>3. ReadHeader("akc", <<Half("akc", h, 1), Half("akc", h, 2)>>) = Restrict(h, DOMAIN h)
    BY <1>1, <2>2, HeaderReadBack
  <2> QED BY <2>1, <2>3 DEF Restrict, h
<1>5. ReadHeader("didc", <<Half("didc", DidcHeader(d), 1), Half("didc", DidcHeader(d), 2)>>)
        = DidcHeader(d)
  <2> DEFINE h == DidcHeader(d)
  <2>1. h = [x \in DOMAIN h |-> h[x]]
    BY DEF DidcHeader
  <2>2. h.const = DidcConst /\ "const" \in DOMAIN h /\ DOMAIN h \ {"RWHash", "QualifiedName"} = DOMAIN h
    BY GenuineHeaders DEF HeaderFields
  <2> HIDE DEF h
  <2>3. ReadHeader("didc", <<Half("didc", h, 1), Half("didc", h, 2)>>) = Restrict(h, DOMAIN h)
    BY <1>2, <2>2, HeaderReadBack
  <2> QED BY <2>1, <2>3 DEF Restrict, h
<1>6. Joined(ReadHeader("ek", <<Half("ek", EkHeader(d, f, l), 1), Half("ek", EkHeader(d, f, l), 2)>>),
             [RWHash |-> EkHeader(d, f, l).RWHash, QualifiedName |-> EkHeader(d, f, l).QualifiedName])
        = EkHeader(d, f, l)
  <2> DEFINE h == EkHeader(d, f, l)
  <2>1. h = [x \in DOMAIN h |-> h[x]]
    BY DEF EkHeader
  <2>2. h.const = EkConst /\ "const" \in DOMAIN h /\ {"RWHash", "QualifiedName"} \subseteq DOMAIN h
    BY GenuineHeaders DEF HeaderFields
  <2> HIDE DEF h
  <2>3. ReadHeader("ek", <<Half("ek", h, 1), Half("ek", h, 2)>>)
          = Restrict(h, DOMAIN h \ {"RWHash", "QualifiedName"})
    BY <1>3, <2>2, HeaderReadBack
  <2>4. Joined(Restrict(h, DOMAIN h \ {"RWHash", "QualifiedName"}),
               [RWHash |-> h.RWHash, QualifiedName |-> h.QualifiedName])
          = [x \in DOMAIN h |-> h[x]]
    <3> DEFINE a == Restrict(h, DOMAIN h \ {"RWHash", "QualifiedName"})
               b == [RWHash |-> h.RWHash, QualifiedName |-> h.QualifiedName]
    <3>1. /\ DOMAIN a = DOMAIN h \ {"RWHash", "QualifiedName"}
          /\ \A x \in DOMAIN h \ {"RWHash", "QualifiedName"} : a[x] = h[x]
      BY DEF Restrict
    <3>2. /\ DOMAIN b = {"RWHash", "QualifiedName"}
          /\ b["RWHash"] = h["RWHash"] /\ b["QualifiedName"] = h["QualifiedName"]
      OBVIOUS
    <3> HIDE DEF a, b
    <3>3. DOMAIN a \cup DOMAIN b = DOMAIN h
      BY <2>2, <3>1, <3>2
    <3>4. \A x \in DOMAIN h : (IF x \in DOMAIN a THEN a[x] ELSE b[x]) = h[x]
      BY <3>1, <3>2
    <3>5. Joined(a, b) = [x \in DOMAIN h |-> h[x]]
      BY <3>3, <3>4 DEF Joined
    <3> QED BY <3>5 DEF a, b
  <2> QED BY <2>1, <2>3, <2>4 DEF h
<1> QED BY <1>4, <1>5, <1>6

\* This file holds the blocks of an encoding first.
Holds(s, encoded) == \A k \in 1 .. Len(encoded) : s[k] = encoded[k]

\* It holds those of a chain, whose DeviceID certificate starts after the first o.
HoldsChain(s, c, o) ==
  /\ s[1] = Half("akc", c.akc.header, 1) /\ s[2] = Half("akc", c.akc.header, 2)
  /\ s[3] = <<"coordinate", c.akc.pub.x>> /\ s[4] = <<"coordinate", c.akc.pub.y>>
  /\ s[5] = <<"signature", 1, c.akc.sig>> /\ s[6] = <<"signature", 2, c.akc.sig>>
  /\ o = 7 => s[7] = <<"hash", c.akc.fwHash>>
  /\ s[o + 1] = Half("didc", c.didc.header, 1) /\ s[o + 2] = Half("didc", c.didc.header, 2)
  /\ s[o + 3] = <<"coordinate", c.didc.key.x>> /\ s[o + 4] = <<"coordinate", c.didc.key.y>>
  /\ s[o + 5] = <<"signature", 1, c.didc.sig>> /\ s[o + 6] = <<"signature", 2, c.didc.sig>>
  /\ s[o + 7] = <<"hash", c.didsc.certHash>>
  /\ s[o + 8] = <<"coordinate", c.didsc.scribeRWKey.x>>
  /\ s[o + 9] = <<"coordinate", c.didsc.scribeRWKey.y>>
  /\ s[o + 10] = <<"signature", 1, c.didsc.sig>> /\ s[o + 11] = <<"signature", 2, c.didsc.sig>>

\* The blocks of a chain, one by one.
LEMMA ChainBlocks ==
  ASSUME NEW c, NEW o,
         o = IF c.akc.header.ExtensionHeaderType = EHTFirmwareHash THEN 7 ELSE 6
  PROVE  /\ Len(EncodeChain(c)) = o + 11
         /\ \E S : EncodeChain(c) \in Seq(S)
         /\ \A s : Holds(s, EncodeChain(c)) <=> HoldsChain(s, c, o)
<1> DEFINE akc == c.akc  didc == c.didc  didsc == c.didsc
           a1 == Half("akc", akc.header, 1)
           a2 == Half("akc", akc.header, 2)
           a3 == <<"coordinate", akc.pub.x>>
           a4 == <<"coordinate", akc.pub.y>>
           a5 == <<"signature", 1, akc.sig>>
           a6 == <<"signature", 2, akc.sig>>
           a7 == <<"hash", akc.fwHash>>
           d1 == Half("didc", didc.header, 1)
           d2 == Half("didc", didc.header, 2)
           d3 == <<"coordinate", didc.key.x>>
           d4 == <<"coordinate", didc.key.y>>
           d5 == <<"signature", 1, didc.sig>>
           d6 == <<"signature", 2, didc.sig>>
           s1 == <<"hash", didsc.certHash>>
           s2 == <<"coordinate", didsc.scribeRWKey.x>>
           s3 == <<"coordinate", didsc.scribeRWKey.y>>
           s4 == <<"signature", 1, didsc.sig>>
           s5 == <<"signature", 2, didsc.sig>>
           e == EncodeChain(c)
<1>1. e = IF akc.header.ExtensionHeaderType = EHTFirmwareHash
          THEN <<a1, a2, a3, a4, a5, a6, a7, d1, d2, d3, d4, d5, d6, s1, s2, s3, s4, s5>>
          ELSE <<a1, a2, a3, a4, a5, a6, d1, d2, d3, d4, d5, d6, s1, s2, s3, s4, s5>>
  BY ChainEncoding, Zenon
<1> HIDE DEF e, a1, a2, a3, a4, a5, a6, a7, d1, d2, d3, d4, d5, d6, s1, s2, s3, s4, s5
<1>2. Len(e) = o + 11 /\ \E S : e \in Seq(S)
  <2> DEFINE S == {a1, a2, a3, a4, a5, a6, a7, d1, d2, d3, d4, d5, d6, s1, s2, s3, s4, s5}
  <2>1. /\ a1 \in S /\ a2 \in S /\ a3 \in S /\ a4 \in S /\ a5 \in S /\ a6 \in S /\ a7 \in S
        /\ d1 \in S /\ d2 \in S /\ d3 \in S /\ d4 \in S /\ d5 \in S /\ d6 \in S
        /\ s1 \in S /\ s2 \in S /\ s3 \in S /\ s4 \in S /\ s5 \in S
    OBVIOUS
  <2> HIDE DEF S
  <2>2. Len(e) = o + 11 /\ e \in Seq(S)
    BY <1>1, <2>1
  <2> QED BY <2>2
<1>3. ASSUME NEW s PROVE Holds(s, e) <=> HoldsChain(s, c, o)
  <2>1. Holds(s, e) <=> /\ s[1] = a1 /\ s[2] = a2 /\ s[3] = a3 /\ s[4] = a4 /\ s[5] = a5 /\ s[6] = a6
                        /\ o = 7 => s[7] = a7
                        /\ s[o + 1] = d1 /\ s[o + 2] = d2 /\ s[o + 3] = d3 /\ s[o + 4] = d4
                        /\ s[o + 5] = d5 /\ s[o + 6] = d6
                        /\ s[o + 7] = s1 /\ s[o + 8] = s2 /\ s[o + 9] = s3
                        /\ s[o + 10] = s4 /\ s[o + 11] = s5
    <3>1. CASE o = 7
      <4>1. e = <<a1, a2, a3, a4, a5, a6, a7, d1, d2, d3, d4, d5, d6, s1, s2, s3, s4, s5>>
        BY <1>1, <3>1
      <4> QED BY <3>1, <4>1 DEF Holds
    <3>2. CASE o = 6
      <4>1. e = <<a1, a2, a3, a4, a5, a6, d1, d2, d3, d4, d5, d6, s1, s2, s3, s4, s5>>
        BY <1>1, <3>2
      <4> QED BY <3>2, <4>1 DEF Holds
    <3> QED BY <3>1, <3>2
  <2> QED BY <2>1, Zenon
          DEF HoldsChain, a1, a2, a3, a4, a5, a6, a7, d1, d2, d3, d4, d5, d6, s1, s2, s3, s4, s5
<1> QED BY <1>2, <1>3 DEF e

\* A chain is what the blocks of its certificates are read as.
LEMMA ChainReadBack ==
  ASSUME NEW d, NEW f, NEW s, NEW announced \in BOOLEAN, announced <=> HashesFirmware[d],
         IsKey(AliasKey[<<d, f>>]), IsKey(DeviceKey[d]), IsKey(RWKey[ScribeOf[d]]),
         HoldsChain(s, Chain(d, f), IF announced THEN 7 ELSE 6)
  PROVE  LET o == IF announced THEN 7 ELSE 6
         IN  [akc |-> AkcFrom(s, announced), didc |-> DidcFrom(s, o), didsc |-> DidscFrom(s, o + 6)]
               = Chain(d, f)
<1> DEFINE o == IF announced THEN 7 ELSE 6
           akc == Akc(d, f)
           didc == Didc(d)
           didsc == Didsc(d)
           c == Chain(d, f)
<1>1. /\ c = [akc |-> akc, didc |-> didc, didsc |-> didsc]
      /\ akc = [header |-> AkcHeader(d, f), pub |-> AliasKey[<<d, f>>], fwHash |-> AkcFWHash(d, f),
                sig |-> akc.sig]
      /\ didc = [header |-> DidcHeader(d), key |-> DeviceKey[d], sig |-> didc.sig]
      /\ didsc = [certHash |-> didsc.certHash, scribeRWKey |-> RWKey[ScribeOf[d]], sig |-> didsc.sig]
  BY DEF Chain, Akc, Didc, Didsc
<1>2. o = IF AkcHeader(d, f).ExtensionHeaderType = EHTFirmwareHash THEN 7 ELSE 6
  BY DEF AkcHeader, EHTFirmwareHash, EHTNone
<1>3. /\ c.akc = akc /\ c.didc = didc /\ c.didsc = didsc
      /\ akc.header = AkcHeader(d, f) /\ akc.pub = AliasKey[<<d, f>>]
      /\ akc.fwHash = AkcFWHash(d, f)
      /\ didc.header = DidcHeader(d) /\ didc.key = DeviceKey[d]
      /\ didsc.scribeRWKey = RWKey[ScribeOf[d]]
  <2> HIDE DEF akc, didc, didsc, c
  <2> QED BY <1>1
<1>4. o \in {6, 7} /\ (o = 7 <=> announced)
  OBVIOUS
<1>5. HoldsChain(s, c, o)
  OBVIOUS
<1> HIDE DEF akc, didc, didsc, c, o
<1>6. /\ s[1] = Half("akc", AkcHeader(d, f), 1) /\ s[2] = Half("akc", AkcHeader(d, f), 2)
      /\ s[3] = <<"coordinate", AliasKey[<<d, f>>].x>> /\ s[4] = <<"coordinate", AliasKey[<<d, f>>].y>>
      /\ s[5] = <<"signature", 1, akc.sig>> /\ s[6] = <<"signature", 2, akc.sig>>
      /\ o = 7 => s[7] = <<"hash", AkcFWHash(d, f)>>
      /\ s[o + 1] = Half("didc", DidcHeader(d), 1) /\ s[o + 2] = Half("didc", DidcHeader(d), 2)
      /\ s[o + 3] = <<"coordinate", DeviceKey[d].x>> /\ s[o + 4] = <<"coordinate", DeviceKey[d].y>>
      /\ s[o + 5] = <<"signature", 1, didc.sig>> /\ s[o + 6] = <<"signature", 2, didc.sig>>
      /\ s[o + 7] = <<"hash", didsc.certHash>>
      /\ s[o + 8] = <<"coordinate", RWKey[ScribeOf[d]].x>>
      /\ s[o + 9] = <<"coordinate", RWKey[ScribeOf[d]].y>>
      /\ s[o + 10] = <<"signature", 1, didsc.sig>> /\ s[o + 11] = <<"signature", 2, didsc.sig>>
  BY <1>3, <1>5, Zenon DEF HoldsChain
<1>7. AkcFrom(s, announced) = akc
  <2>1. announced => ReadHash(s[7]) = AkcFWHash(d, f)
    BY <1>4, <1>6, RestReadBack
  <2>2. ~announced => ZeroHash = AkcFWHash(d, f)
    BY DEF AkcFWHash
  <2>3. ReadHeader("akc", <<s[1], s[2]>>) = AkcHeader(d, f)
    BY <1>6, GenuineHeadersReadBack
  <2>4. ReadKey(<<s[3], s[4]>>) = AliasKey[<<d, f>>] /\ ReadSig(<<s[5], s[6]>>) = akc.sig
    BY <1>6, RestReadBack
  <2> QED BY <1>1, <2>1, <2>2, <2>3, <2>4 DEF AkcFrom
<1>8. DidcFrom(s, o) = didc
  <2>1. ReadHeader("didc", <<s[o + 1], s[o + 2]>>) = DidcHeader(d)
    BY <1>6, GenuineHeadersReadBack
  <2>2. ReadKey(<<s[o + 3], s[o + 4]>>) = DeviceKey[d] /\ ReadSig(<<s[o + 5], s[o + 6]>>) = didc.sig
    BY <1>6, RestReadBack
  <2> QED BY <1>1, <2>1, <2>2 DEF DidcFrom
<1>9. DidscFrom(s, o + 6) = didsc
  <2>1. /\ (o + 6) + 1 = o + 7 /\ (o + 6) + 2 = o + 8 /\ (o + 6) + 3 = o + 9
        /\ (o + 6) + 4 = o + 10 /\ (o + 6) + 5 = o + 11
    BY <1>4
  <2>2. ReadHash(s[o + 7]) = didsc.certHash
    BY <1>6, RestReadBack
  <2>3. /\ ReadKey(<<s[o + 8], s[o + 9]>>) = RWKey[ScribeOf[d]]
        /\ ReadSig(<<s[o + 10], s[o + 11]>>) = didsc.sig
    BY <1>6, RestReadBack
  <2> QED BY <1>1, <2>1, <2>2, <2>3 DEF DidscFrom
<1>10. AkcFrom(s, announced) = akc /\ DidcFrom(s, o) = didc /\ DidscFrom(s, o + 6) = didsc
  BY <1>7, <1>8, <1>9
<1> QED BY <1>1, <1>10 DEF o, c

\* An EK certificate is what its blocks are read as.
LEMMA EkReadBack ==
  ASSUME NEW d, NEW f, NEW l, NEW s, IsKey(EKKey[<<d, f, l>>]),
         Holds(s, EncodeEk(Ekc(d, f, l)))
  PROVE  EkFrom(s) = Ekc(d, f, l)
<1> DEFINE c == Ekc(d, f, l)
           header == EkHeader(d, f, l)
           key == EKKey[<<d, f, l>>]
           e == EncodeEk(c)
           b1 == Half("ek", header, 1)
           b2 == Half("ek", header, 2)
           b3 == <<"hash", header.RWHash>>
           b4 == <<"hash", header.QualifiedName>>
           b5 == <<"coordinate", key.x>>
           b6 == <<"coordinate", key.y>>
           b7 == <<"signature", 1, c.sig>>
           b8 == <<"signature", 2, c.sig>>
<1>1. c = [header |-> header, pub |-> key, sig |-> c.sig]
  BY DEF Ekc
<1>2. e = <<Half("ek", c.header, 1), Half("ek", c.header, 2),
            <<"hash", c.header.RWHash>>, <<"hash", c.header.QualifiedName>>,
            <<"coordinate", c.pub.x>>, <<"coordinate", c.pub.y>>,
            <<"signature", 1, c.sig>>, <<"signature", 2, c.sig>> >>
  <2> HIDE DEF c
  <2> QED BY EkEncoding, Zenon
<1>3. c.header = header /\ c.pub = key
  <2> HIDE DEF c, header, key
  <2> QED BY <1>1
<1>4. e = <<b1, b2, b3, b4, b5, b6, b7, b8>>
  <2> HIDE DEF c, header, key, e
  <2> QED BY <1>2, <1>3, Zenon
<1>5. Holds(s, e)
  OBVIOUS
<1> HIDE DEF c, header, key, e, b1, b2, b3, b4, b5, b6, b7, b8
<1>6. /\ s[1] = b1 /\ s[2] = b2 /\ s[3] = b3 /\ s[4] = b4
      /\ s[5] = b5 /\ s[6] = b6 /\ s[7] = b7 /\ s[8] = b8
  BY <1>4, <1>5 DEF Holds
<1>7. ReadHash(b3) = header.RWHash /\ ReadHash(b4) = header.QualifiedName
  BY RestReadBack DEF b3, b4, ReadHash
<1>8. ReadKey(<<b5, b6>>) = key /\ ReadSig(<<b7, b8>>) = c.sig
  <2>1. IsKey(key)
    BY DEF key
  <2> QED BY <2>1, RestReadBack DEF b5, b6, b7, b8
<1>9. Joined(ReadHeader("ek", <<b1, b2>>),
             [RWHash |-> header.RWHash, QualifiedName |-> header.QualifiedName]) = header
  BY GenuineHeadersReadBack DEF b1, b2, header
<1>10. EkFrom(s) = [header |-> header, pub |-> key, sig |-> c.sig]
  BY <1>6, <1>7, <1>8, <1>9 DEF EkFrom
<1> QED BY <1>1, <1>10 DEF c

------------------------------------------------------------------------------
(* Completeness: a genuine file is read back, and accepted.                *)

\* A file that starts with an encoding holds its blocks.
LEMMA StartsHolds ==
  ASSUME IInv, NEW encoded, Len(encoded) \in Nat, StartsWith(encoded)
  PROVE  Len(encoded) <= Len(file) /\ Holds(file, encoded)
<1>1. file \in Seq(Range(file)) /\ Len(encoded) <= Len(file)
  BY FilesAreSequences DEF IInv, StartsWith
<1>2. SubSeq(file, 1, Len(encoded)) = encoded
  BY DEF StartsWith
<1>3. ASSUME NEW k \in 1 .. Len(encoded) PROVE file[k] = encoded[k]
  <2> DEFINE s == SubSeq(file, 1, Len(encoded))
  <2>1. s[k] = file[k]
    BY <1>1
  <2> HIDE DEF s
  <2>2. s = encoded
    BY <1>2 DEF s
  <2> QED BY <2>1, <2>2
<1> QED BY <1>1, <1>3 DEF Holds

\* A file that is long enough is read to the end of its certificates.
LEMMA ReadInFull ==
  ASSUME IInv, Ended, result # Missing, Total(target, Announced) <= Len(file)
  PROVE  \/ EkRead
         \/ ChainRead /\ result = ValidateScribeCertificateChain(parsed, Scribes, Infos)
<1>1. ~Stopped
  <2> SUFFICES ASSUME Stopped PROVE FALSE
    OBVIOUS
  <2> DEFINE n == Len(parts)
             m == Len(FileParts)
  <2>1. n \in Nat /\ m \in Nat /\ n < m /\ Len(file) \in Nat
    BY FilePartsFollow, FilesAreSequences DEF IInv, Cut, Stopped
  <2>2. At[n + 2] > Len(file) /\ At[m + 1] = Total(target, Announced)
    BY FilePartsFollow DEF IInv, Stopped
  <2> HIDE DEF n, m
  <2>3. m + 1 \in 1 .. m + 1 /\ n + 2 \in 1 .. m + 1
    BY <2>1
  <2>4. At[m + 1] \in Nat /\ At[n + 2] \in Nat /\ At[n + 2] <= At[m + 1]
    BY <2>3, StartsGrow, AnnouncedBoolean DEF IInv, Opened, FileParts, At, m
  <2> QED BY <2>1, <2>2, <2>4
<1>2. EkRead \/ ChainRead
  BY <1>1, StageOfResult
<1>3. result # <<"parsed">>
  BY DEF Ended
<1> QED BY <1>2, <1>3 DEF ChainRead

\* An embedded root is under the KeyID of its subject.
LEMMA ScribeFound ==
  ASSUME NEW c \in Range(Scribes)
  PROVE  /\ ComputeKeyIDECDSA(c.subject) \in DOMAIN Scribes
         /\ Scribes[ComputeKeyIDECDSA(c.subject)] = c
<1>1. PICK i \in DOMAIN Scribes : Scribes[i] = c
  BY DEF Range
<1>2. ComputeKeyIDECDSA(Scribes[i].subject) = i
  BY ScribesAssumption DEF NewValidatorMaps
<1> QED BY <1>1, <1>2

\* The validator calls a chain valid that titancertutil should trust.
LEMMA TrustedChainAccepted ==
  ASSUME WholeKeys, NEW b \in Boots, Trusts(b)
  PROVE  ValidateScribeCertificateChain(Chain(b[1], b[2]), Scribes, Infos) = OK
<1> DEFINE d == b[1]
           payload == PayloadKey[ScribeOf[d]]
           rw == RWKey[ScribeOf[d]]
<1>1. d \in Device /\ b[2] \in Firmware /\ CodeKeyInfo[b[2]] \in Infos
  BY DEF Boots, Trusts
<1>2. PayloadCert(ScribeOf[d]) \in Range(Scribes) /\ RWCert(ScribeOf[d]) \in Range(Scribes)
  BY DEF Trusts
<1>3. PayloadCert(ScribeOf[d]).subject = payload /\ RWCert(ScribeOf[d]).subject = rw
  BY DEF PayloadCert, RWCert
<1>4. /\ ComputeKeyIDECDSA(payload) \in DOMAIN Scribes
      /\ Scribes[ComputeKeyIDECDSA(payload)] = PayloadCert(ScribeOf[d])
      /\ ComputeKeyIDECDSA(rw) \in DOMAIN Scribes
      /\ Scribes[ComputeKeyIDECDSA(rw)] = RWCert(ScribeOf[d])
  <2> HIDE DEF payload, rw, d
  <2> QED BY <1>2, <1>3, ScribeFound
<1>5. ComputeKeyIDECDSA(payload) = DocumentedKeyID(payload)
  <2>1. IsCoordinate(payload.x) /\ IsCoordinate(payload.y)
    BY <1>1, KeysAreKeys DEF IsKey
  <2>2. WholeKey(payload)
    BY <1>1 DEF WholeKeys
  <2> QED BY <2>1, <2>2, KeyIDAsDocumented
<1>6. validateAliasKeyCertificate(Akc(d, b[2]), Didc(d), Infos) = OK
  BY <1>1, GenuineAkcAccepted
<1>7. validateDeviceIDCertificate(Didc(d), Scribes) = OK
  BY <1>4, <1>5, GenuineDidcAccepted
<1>8. validateDeviceIDScribeCertificate(Didsc(d), Didc(d), Scribes) = OK
  BY <1>4, GenuineDidscAccepted
<1> QED BY <1>6, <1>7, <1>8, OrElseOK DEF ValidateScribeCertificateChain, Chain

\* What is read of a file that starts with a genuine chain.
LEMMA ChainFileRead ==
  ASSUME IInv, Ended, result # Missing, target = "chain",
         NEW b \in Boots, StartsWith(ChainFile[b])
  PROVE  /\ parsed = Chains[b]
         /\ result = ValidateScribeCertificateChain(parsed, Scribes, Infos)
<1> DEFINE d == b[1]
           f == b[2]
           c == Chain(d, f)
           announced == HashesFirmware[d] = TRUE
           o == IF announced THEN 7 ELSE 6
<1>1. /\ Chains[b] = c /\ ChainFile[b] = EncodeChain(c) /\ d \in Device /\ f \in Firmware
      /\ c.akc.header = AkcHeader(d, f)
  BY DEF ChainFile, Chains, Boots, Chain, Akc
<1>2. o = IF c.akc.header.ExtensionHeaderType = EHTFirmwareHash THEN 7 ELSE 6
  BY <1>1 DEF AkcHeader, EHTFirmwareHash, EHTNone
<1>3. Len(EncodeChain(c)) = o + 11 /\ (Holds(file, EncodeChain(c)) <=> HoldsChain(file, c, o))
  <2> HIDE DEF c, o
  <2> QED BY <1>2, ChainBlocks
<1>4. o + 11 <= Len(file) /\ HoldsChain(file, c, o)
  <2>1. StartsWith(EncodeChain(c)) /\ Len(EncodeChain(c)) \in Nat
    BY <1>1, <1>3
  <2> HIDE DEF c, o
  <2> QED BY <1>3, <2>1, StartsHolds
<1>5. Announced <=> announced
  <2>1. file[1] = Half("akc", AkcHeader(d, f), 1)
    BY <1>1, <1>4 DEF HoldsChain
  <2>2. /\ file \in Seq(Range(file)) /\ Len(file) > 0
        /\ "ExtensionHeaderType" \in DOMAIN AkcHeader(d, f)
    <3>1. file \in Seq(Range(file)) /\ Len(file) \in Nat
      BY FilesAreSequences DEF IInv
    <3>2. "ExtensionHeaderType" \in DOMAIN AkcHeader(d, f)
      BY DEF AkcHeader
    <3> QED BY <1>4, <3>1, <3>2
  <2>3. Announced <=> AkcHeader(d, f).ExtensionHeaderType = EHTFirmwareHash
    BY <2>1, <2>2, Announces DEF Announced
  <2> QED BY <1>1, <1>2, <2>3
<1>6. ChainRead /\ result = ValidateScribeCertificateChain(parsed, Scribes, Infos)
  <2>1. Total(target, Announced) = o + 11
    BY <1>5 DEF Total
  <2> QED BY <1>4, <2>1, ReadInFull DEF EkRead
<1>7. parsed = [akc |-> AkcFrom(file, announced), didc |-> DidcFrom(file, o),
                didsc |-> DidscFrom(file, o + 6)]
  <2>1. AkcFrom(file, Announced) = AkcFrom(file, announced)
    BY <1>5 DEF AkcFrom
  <2>2. o = IF Announced THEN 7 ELSE 6
    BY <1>5
  <2> HIDE DEF o, announced
  <2> QED BY <1>6, <2>1, <2>2, ChainOfFile
<1>8. [akc |-> AkcFrom(file, announced), didc |-> DidcFrom(file, o),
       didsc |-> DidscFrom(file, o + 6)] = c
  <2>1. /\ announced \in BOOLEAN /\ (announced <=> HashesFirmware[d])
        /\ IsKey(AliasKey[<<d, f>>]) /\ IsKey(DeviceKey[d]) /\ IsKey(RWKey[ScribeOf[d]])
    BY <1>1, KeysAreKeys
  <2>2. HoldsChain(file, Chain(d, f), IF announced THEN 7 ELSE 6)
    BY <1>4
  <2> HIDE DEF announced, d, f
  <2> QED BY <2>1, <2>2, ChainReadBack
<1> QED BY <1>1, <1>6, <1>7, <1>8

\* What is read of a file that starts with a genuine EK certificate.
LEMMA EkFileRead ==
  ASSUME IInv, Ended, result # Missing, target = "ek",
         NEW e \in DOMAIN Ekcs, StartsWith(EkFile[e])
  PROVE  parsed = Ekcs[e] /\ result = OK
<1> DEFINE c == Ekc(e[1], e[2], e[3])
<1>1. /\ Ekcs[e] = c /\ EkFile[e] = EncodeEk(c)
      /\ e[1] \in Device /\ e[2] \in Firmware /\ e[3] \in BOOLEAN
  BY DEF EkFile, Ekcs
<1>2. Len(EncodeEk(c)) = 8
  BY EncodedLengths
<1>3. 8 <= Len(file) /\ Holds(file, EncodeEk(c))
  <2>1. StartsWith(EncodeEk(c)) /\ Len(EncodeEk(c)) \in Nat
    BY <1>1, <1>2
  <2> HIDE DEF c
  <2> QED BY <1>2, <2>1, StartsHolds
<1>4. EkRead
  <2>1. Total(target, Announced) = 8
    BY DEF Total
  <2> QED BY <1>3, <2>1, ReadInFull DEF ChainRead
<1>5. parsed = EkFrom(file) /\ result = OK
  BY <1>4, EkOfFile DEF EkRead
<1>6. EkFrom(file) = c
  BY <1>1, <1>3, KeysAreKeys, EkReadBack
<1> QED BY <1>1, <1>5, <1>6

\* The file of a genuine chain or EK certificate is read back as what it encodes,
\* whatever follows it in the file, and the chain is then called valid
\* (chain_parser.go:65-107), where no payload key has a zero top byte.
THEOREM GenuineFiles ==
  ASSUME WholeKeys
  PROVE  Spec => []GenuineFileAccepted
<1>1. IInv => GenuineFileAccepted
  <2> SUFFICES ASSUME IInv, Ended, result # Missing
               PROVE  IF target = "chain"
                      THEN \A b \in Boots : StartsWith(ChainFile[b]) =>
                             parsed = Chains[b] /\ (Trusts(b) => result = OK)
                      ELSE \A e \in DOMAIN Ekcs : StartsWith(EkFile[e]) =>
                             parsed = Ekcs[e] /\ result = OK
    BY DEF GenuineFileAccepted
  <2>1. ASSUME target = "chain", NEW b \in Boots, StartsWith(ChainFile[b])
        PROVE  parsed = Chains[b] /\ (Trusts(b) => result = OK)
    <3>1. /\ parsed = Chains[b] /\ Chains[b] = Chain(b[1], b[2])
          /\ result = ValidateScribeCertificateChain(parsed, Scribes, Infos)
      BY <2>1, ChainFileRead DEF Chains
    <3>2. Trusts(b) => ValidateScribeCertificateChain(Chain(b[1], b[2]), Scribes, Infos) = OK
      BY TrustedChainAccepted
    <3> QED BY <3>1, <3>2
  <2>2. ASSUME target # "chain", NEW e \in DOMAIN Ekcs, StartsWith(EkFile[e])
        PROVE  parsed = Ekcs[e] /\ result = OK
    <3>1. target = "ek"
      BY <2>2 DEF IInv, Opened
    <3> QED BY <2>2, <3>1, EkFileRead
  <2> QED BY <2>1, <2>2
<1> QED BY <1>1, FollowsFile, PTL

------------------------------------------------------------------------------
(* Soundness: what is accepted is the file of a genuine chain.  A part     *)
(* that is read as one of a genuine certificate is made of the blocks that *)
(* certificate is encoded in: what other blocks are read as is no one's.   *)

\* A signature that verifies was issued, and read from its two halves.
LEMMA SignatureFrom ==
  ASSUME NEW x, NEW y, IsBlock(x), IsBlock(y), NEW sig, sig = ReadSig(<<x, y>>), sig.intact
  PROVE  IsIssued(sig) /\ x = <<"signature", 1, sig>> /\ y = <<"signature", 2, sig>>
<1>1. sig # JunkSig
  BY DEF JunkSig
<1>2. /\ x[1] = "signature" /\ x[2] = 1 /\ y[1] = "signature" /\ y[2] = 2
      /\ sig = x[3] /\ x[3] = y[3]
  BY <1>1 DEF ReadSig, IsHeader
<1>3. ASSUME NEW b, IsBlock(b), b[1] = "signature"
      PROVE  b = <<"signature", b[2], b[3]>> /\ (b[3].intact => IsIssued(b[3]))
  <2>1. "signature" \notin DOMAIN HeaderConst /\ "signature" \notin {"coordinate", "hash", "junk"}
    BY DEF HeaderConst
  <2>2. PICK n \in 1 .. 2 : /\ b = <<"signature", n, b[3]>>
                            /\ b[3].intact => IsIssued(b[3])
    BY <1>3, <2>1 DEF IsBlock
  <2>3. b[2] = n
    BY <2>2
  <2> QED BY <2>2, <2>3
<1> QED BY <1>2, <1>3

\* A coordinate of a key was read from a block that holds it.
LEMMA CoordinateFrom ==
  ASSUME NEW x, IsBlock(x), IsCoordinate(ReadCoordinate(x))
  PROVE  x = <<"coordinate", ReadCoordinate(x)>>
<1>1. JunkCoordinate \notin Seq(Byte)
  <2>1. JunkCoordinate[1] = -1 /\ Len(JunkCoordinate) = 1 /\ -1 \notin Byte
    BY DEF JunkCoordinate, Byte
  <2> QED BY <2>1
<1>2. x[1] = "coordinate" /\ ReadCoordinate(x) = x[2]
  BY <1>1 DEF ReadCoordinate, IsCoordinate
<1>3. "coordinate" \notin DOMAIN HeaderConst
  BY DEF HeaderConst
<1>4. x = <<"coordinate", x[2]>>
  BY <1>2, <1>3 DEF IsBlock
<1> QED BY <1>2, <1>4

\* A key was read from the blocks of its coordinates.
LEMMA KeyFrom ==
  ASSUME NEW x, NEW y, IsBlock(x), IsBlock(y), NEW key, IsKey(key), ReadKey(<<x, y>>) = key
  PROVE  x = <<"coordinate", key.x>> /\ y = <<"coordinate", key.y>>
<1>1. key.x = ReadCoordinate(x) /\ key.y = ReadCoordinate(y)
  BY DEF ReadKey
<1>2. IsCoordinate(key.x) /\ IsCoordinate(key.y)
  BY DEF IsKey
<1> QED BY <1>1, <1>2, CoordinateFrom

\* A hash that is not that of junk was read from a block that holds it.
LEMMA HashFrom ==
  ASSUME NEW x, IsBlock(x), NEW hash, ReadHash(x) = hash, hash # JunkHash
  PROVE  x = <<"hash", hash>>
<1>1. x[1] = "hash" /\ x[2] = hash
  BY DEF ReadHash
<1>2. "hash" \notin DOMAIN HeaderConst
  BY DEF HeaderConst
<1>3. x = <<"hash", x[2]>>
  BY <1>1, <1>2 DEF IsBlock
<1> QED BY <1>1, <1>3

\* Which names a header's fields have.
LEMMA FieldNames ==
  ASSUME NEW kind \in DOMAIN HeaderConst
  PROVE  /\ DOMAIN HeaderConst[kind] \cap {"RWHash", "QualifiedName"} = {}
         /\ HeaderFields[kind] \cap {"const", "RWHash", "QualifiedName"} = {}
         /\ kind \notin {"signature", "coordinate", "hash", "junk"}
<1>1. /\ DOMAIN AkcConst \cap {"RWHash", "QualifiedName"} = {}
      /\ DOMAIN DidcConst \cap {"RWHash", "QualifiedName"} = {}
      /\ DOMAIN EkConst \cap {"RWHash", "QualifiedName"} = {}
  BY DEF AkcConst, DidcConst, EkConst
<1> QED BY <1>1 DEF HeaderConst, HeaderFields

\* What is tagged as half of a header is one.
LEMMA HalfFrom ==
  ASSUME NEW kind \in DOMAIN HeaderConst, NEW n, NEW x, IsBlock(x), x[1] = kind, x[2] = n
  PROVE  x = <<kind, n, x[3]>> /\ IsHalf(kind, n, x[3])
<1>1. PICK m \in 1 .. 2 : x = <<kind, m, x[3]>> /\ IsHalf(kind, m, x[3])
  BY FieldNames DEF IsBlock
<1>2. m = n
  <2>1. x[2] = m
    BY <1>1
  <2> QED BY <2>1
<1> QED BY <1>1, <1>2

\* A function with these names.
HasNames(f, names) == f = Restrict(f, names)

\* A function whose names are told apart is made up of its two parts.
LEMMA JoinedApart ==
  ASSUME NEW N, NEW F, NEW f, NEW g, HasNames(f, N \cap F), HasNames(g, N \ F)
  PROVE  /\ DOMAIN Joined(f, g) = N
         /\ f = Restrict(Joined(f, g), N \cap F) /\ g = Restrict(Joined(f, g), N \ F)
<1> DEFINE A == N \cap F
           B == N \ F
<1>1. A \cap B = {} /\ A \cup B = N
  OBVIOUS
<1>2. f = [x \in A |-> f[x]] /\ g = [x \in B |-> g[x]]
  BY DEF HasNames, Restrict
<1> HIDE DEF A, B
<1>3. DOMAIN f = A /\ DOMAIN g = B
  BY <1>2
<1>4. DOMAIN Joined(f, g) = A \cup B
  BY <1>3 DEF Joined
<1>5. \A x \in A : Joined(f, g)[x] = f[x]
  BY <1>3 DEF Joined
<1>6. \A x \in B : Joined(f, g)[x] = g[x]
  BY <1>1, <1>3 DEF Joined
<1>7. f = [x \in A |-> Joined(f, g)[x]]
  BY <1>2, <1>5
<1>8. g = [x \in B |-> Joined(f, g)[x]]
  BY <1>2, <1>6
<1>9. f = Restrict(Joined(f, g), A) /\ g = Restrict(Joined(f, g), B)
  BY <1>7, <1>8, Zenon DEF Restrict
<1> QED BY <1>1, <1>4, <1>9 DEF A, B

\* A header with the right purpose was read from its own two halves.
LEMMA HeaderFrom ==
  ASSUME NEW kind \in DOMAIN HeaderConst, NEW x, NEW y, IsBlock(x), IsBlock(y),
         NEW h, h = ReadHeader(kind, <<x, y>>), h.const["SignaturePurpose"] # Wrong
  PROVE  x = Half(kind, h, 1) /\ y = Half(kind, h, 2)
<1> DEFINE a == x[3]
           b == y[3]
           C == DOMAIN HeaderConst[kind]
           R == HeaderFields[kind]
           const == Joined(a.const, b.const)
           rest == Joined(a.rest, b.rest)
           names == AllFields(h) \ {"RWHash", "QualifiedName"}
<1>1. /\ x[1] = kind /\ x[2] = 1 /\ y[1] = kind /\ y[2] = 2
      /\ h = Joined([const |-> const], rest)
  <2>1. ASSUME NEW announced PROVE JunkHeader(announced).const["SignaturePurpose"] = Wrong
    BY DEF JunkHeader, AkcConst, DidcConst, EkConst
  <2>2. IsHeader(kind, <<x, y>>)
    BY <2>1 DEF ReadHeader
  <2> QED BY <2>2 DEF ReadHeader, IsHeader
<1>2. /\ x = <<kind, 1, a>> /\ IsHalf(kind, 1, a)
      /\ y = <<kind, 2, b>> /\ IsHalf(kind, 2, b)
  BY <1>1, HalfFrom
<1>3. /\ a = [const |-> Restrict(a.const, C \cap FirstHalf), rest |-> Restrict(a.rest, R \cap FirstHalf)]
      /\ b = [const |-> Restrict(b.const, C \ FirstHalf), rest |-> Restrict(b.rest, R \ FirstHalf)]
  <2>1. /\ a = [const |-> Restrict(a.const, DOMAIN HeaderConst[kind] \cap FirstHalf),
                rest |-> Restrict(a.rest, HeaderFields[kind] \cap FirstHalf)]
        /\ b = [const |-> Restrict(b.const, DOMAIN HeaderConst[kind] \ FirstHalf),
                rest |-> Restrict(b.rest, HeaderFields[kind] \ FirstHalf)]
    <3> HIDE DEF a, b
    <3> QED BY <1>2 DEF IsHalf
  <2> QED BY <2>1
<1> HIDE DEF a, b, C, R
<1>4. /\ HasNames(a.const, C \cap FirstHalf) /\ HasNames(a.rest, R \cap FirstHalf)
      /\ HasNames(b.const, C \ FirstHalf) /\ HasNames(b.rest, R \ FirstHalf)
  BY <1>3 DEF HasNames
<1>5. /\ DOMAIN const = C
      /\ a.const = Restrict(const, C \cap FirstHalf) /\ b.const = Restrict(const, C \ FirstHalf)
  <2>1. HasNames(a.const, C \cap FirstHalf) /\ HasNames(b.const, C \ FirstHalf)
    BY <1>4
  <2> QED BY <2>1, JoinedApart, Zenon
<1>6. /\ DOMAIN rest = R
      /\ a.rest = Restrict(rest, R \cap FirstHalf) /\ b.rest = Restrict(rest, R \ FirstHalf)
  BY <1>4, JoinedApart
<1> HIDE DEF const, rest
<1>7. "const" \notin R /\ C \cap {"RWHash", "QualifiedName"} = {} /\ R \cap {"RWHash", "QualifiedName"} = {}
  BY FieldNames DEF C, R
<1>8. /\ DOMAIN h = R \cup {"const"} /\ h.const = const
      /\ \A f \in R : h[f] = rest[f]
  BY <1>1, <1>6, <1>7 DEF Joined
<1>9. /\ Restrict(rest, R \cap FirstHalf) = Restrict(h, R \cap FirstHalf)
      /\ Restrict(rest, R \ FirstHalf) = Restrict(h, R \ FirstHalf)
  BY <1>8 DEF Restrict
<1>10. names = (R \cup {"const"} \cup C) \ {"RWHash", "QualifiedName"}
  BY <1>5, <1>8 DEF AllFields
<1>11. /\ C \cap (names \cap FirstHalf) = C \cap FirstHalf
       /\ C \cap (names \ FirstHalf) = C \ FirstHalf
       /\ (R \cup {"const"}) \cap ((names \cap FirstHalf) \ {"const"}) = R \cap FirstHalf
       /\ (R \cup {"const"}) \cap ((names \ FirstHalf) \ {"const"}) = R \ FirstHalf
  <2> HIDE DEF names
  <2> QED BY <1>7, <1>10
<1> HIDE DEF names
<1>12. HalfOf(h, names \cap FirstHalf) = a
  BY <1>3, <1>5, <1>6, <1>8, <1>9, <1>11, Zenon DEF HalfOf, Fields
<1>13. HalfOf(h, names \ FirstHalf) = b
  BY <1>3, <1>5, <1>6, <1>8, <1>9, <1>11, Zenon DEF HalfOf, Fields
<1> QED BY <1>2, <1>12, <1>13, HeaderBlocks, Zenon DEF names

\* What is read as a genuine chain is made of its blocks.
LEMMA ChainFrom ==
  ASSUME NEW d \in Device, NEW f \in Firmware, NEW s, NEW o \in {6, 7},
         \A k \in 1 .. o + 11 : IsBlock(s[k]),
         AkcFrom(s, o = 7) = Akc(d, f), DidcFrom(s, o) = Didc(d), DidscFrom(s, o + 6) = Didsc(d)
  PROVE  HoldsChain(s, Chain(d, f), o)
<1> DEFINE akc == Akc(d, f)
           didc == Didc(d)
           didsc == Didsc(d)
           c == Chain(d, f)
<1>1. /\ c = [akc |-> akc, didc |-> didc, didsc |-> didsc]
      /\ akc.header = AkcHeader(d, f) /\ akc.pub = AliasKey[<<d, f>>]
      /\ akc.fwHash = AkcFWHash(d, f) /\ akc.sig.intact
      /\ didc.header = DidcHeader(d) /\ didc.key = DeviceKey[d] /\ didc.sig.intact
      /\ didsc.scribeRWKey = RWKey[ScribeOf[d]] /\ didsc.sig.intact
      /\ didsc.certHash = SHA256(serializeDeviceIDCertificate(Didc(d)))
  BY DEF Chain, Akc, Didc, Didsc, Sign
<1>2. /\ akc.header = ReadHeader("akc", <<s[1], s[2]>>) /\ akc.pub = ReadKey(<<s[3], s[4]>>)
      /\ akc.sig = ReadSig(<<s[5], s[6]>>)
      /\ o = 7 => akc.fwHash = ReadHash(s[7])
  <2> HIDE DEF akc
  <2>1. AkcFrom(s, o = 7) = akc
    BY DEF akc
  <2> QED BY <2>1 DEF AkcFrom
<1>3. /\ didc.header = ReadHeader("didc", <<s[o + 1], s[o + 2]>>)
      /\ didc.key = ReadKey(<<s[o + 3], s[o + 4]>>) /\ didc.sig = ReadSig(<<s[o + 5], s[o + 6]>>)
  <2> HIDE DEF didc
  <2>1. DidcFrom(s, o) = didc
    BY DEF didc
  <2> QED BY <2>1 DEF DidcFrom
<1>4. /\ didsc.certHash = ReadHash(s[o + 7]) /\ didsc.scribeRWKey = ReadKey(<<s[o + 8], s[o + 9]>>)
      /\ didsc.sig = ReadSig(<<s[o + 10], s[o + 11]>>)
  <2> HIDE DEF didsc
  <2>1. DidscFrom(s, o + 6) = didsc
    BY DEF didsc
  <2>2. /\ (o + 6) + 1 = o + 7 /\ (o + 6) + 2 = o + 8 /\ (o + 6) + 3 = o + 9
        /\ (o + 6) + 4 = o + 10 /\ (o + 6) + 5 = o + 11
    OBVIOUS
  <2> QED BY <2>1, <2>2 DEF DidscFrom
<1>5. IsKey(AliasKey[<<d, f>>]) /\ IsKey(DeviceKey[d]) /\ IsKey(RWKey[ScribeOf[d]])
  BY KeysAreKeys
<1>6. /\ AkcHeader(d, f).const["SignaturePurpose"] # Wrong
      /\ DidcHeader(d).const["SignaturePurpose"] # Wrong
  BY Purposes DEF Wrong
<1>7. AkcFWHash(d, f) # JunkHash /\ didsc.certHash # JunkHash
  <2>1. ZeroHash # JunkHash
    BY DEF ZeroHash, JunkHash
  <2>2. AkcFWHash(d, f) # JunkHash
    BY <2>1, JunkAssumption DEF AkcFWHash
  <2>3. SHA256(serializeDeviceIDCertificate(Didc(d))) # JunkHash
    BY DEF SHA256, serializeDeviceIDCertificate, JunkHash
  <2> QED BY <1>1, <2>2, <2>3
<1>8. "akc" \in DOMAIN HeaderConst /\ "didc" \in DOMAIN HeaderConst
  BY DEF HeaderConst
<1> HIDE DEF akc, didc, didsc, c
<1>9. /\ IsBlock(s[1]) /\ IsBlock(s[2]) /\ IsBlock(s[3]) /\ IsBlock(s[4]) /\ IsBlock(s[5])
       /\ IsBlock(s[6]) /\ (o = 7 => IsBlock(s[7]))
       /\ IsBlock(s[o + 1]) /\ IsBlock(s[o + 2]) /\ IsBlock(s[o + 3]) /\ IsBlock(s[o + 4])
       /\ IsBlock(s[o + 5]) /\ IsBlock(s[o + 6]) /\ IsBlock(s[o + 7]) /\ IsBlock(s[o + 8])
       /\ IsBlock(s[o + 9]) /\ IsBlock(s[o + 10]) /\ IsBlock(s[o + 11])
  OBVIOUS
<1>10. s[1] = Half("akc", akc.header, 1) /\ s[2] = Half("akc", akc.header, 2)
  BY <1>1, <1>2, <1>6, <1>8, <1>9, HeaderFrom
<1>11. /\ s[3] = <<"coordinate", akc.pub.x>> /\ s[4] = <<"coordinate", akc.pub.y>>
       /\ s[5] = <<"signature", 1, akc.sig>> /\ s[6] = <<"signature", 2, akc.sig>>
       /\ o = 7 => s[7] = <<"hash", akc.fwHash>>
  <2>1. s[3] = <<"coordinate", akc.pub.x>> /\ s[4] = <<"coordinate", akc.pub.y>>
    BY <1>1, <1>2, <1>5, <1>9, KeyFrom
  <2>2. s[5] = <<"signature", 1, akc.sig>> /\ s[6] = <<"signature", 2, akc.sig>>
    BY <1>1, <1>2, <1>9, SignatureFrom
  <2>3. o = 7 => s[7] = <<"hash", akc.fwHash>>
    BY <1>1, <1>2, <1>7, <1>9, HashFrom
  <2> QED BY <2>1, <2>2, <2>3
<1>12. s[o + 1] = Half("didc", didc.header, 1) /\ s[o + 2] = Half("didc", didc.header, 2)
  BY <1>1, <1>3, <1>6, <1>8, <1>9, HeaderFrom
<1>13. /\ s[o + 3] = <<"coordinate", didc.key.x>> /\ s[o + 4] = <<"coordinate", didc.key.y>>
       /\ s[o + 5] = <<"signature", 1, didc.sig>> /\ s[o + 6] = <<"signature", 2, didc.sig>>
  <2>1. s[o + 3] = <<"coordinate", didc.key.x>> /\ s[o + 4] = <<"coordinate", didc.key.y>>
    BY <1>1, <1>3, <1>5, <1>9, KeyFrom
  <2>2. s[o + 5] = <<"signature", 1, didc.sig>> /\ s[o + 6] = <<"signature", 2, didc.sig>>
    BY <1>1, <1>3, <1>9, SignatureFrom
  <2> QED BY <2>1, <2>2
<1>14. /\ s[o + 7] = <<"hash", didsc.certHash>>
       /\ s[o + 8] = <<"coordinate", didsc.scribeRWKey.x>>
       /\ s[o + 9] = <<"coordinate", didsc.scribeRWKey.y>>
       /\ s[o + 10] = <<"signature", 1, didsc.sig>> /\ s[o + 11] = <<"signature", 2, didsc.sig>>
  <2>1. s[o + 7] = <<"hash", didsc.certHash>>
    BY <1>4, <1>7, <1>9, HashFrom
  <2>2. /\ s[o + 8] = <<"coordinate", didsc.scribeRWKey.x>>
        /\ s[o + 9] = <<"coordinate", didsc.scribeRWKey.y>>
    BY <1>1, <1>4, <1>5, <1>9, KeyFrom
  <2>3. s[o + 10] = <<"signature", 1, didsc.sig>> /\ s[o + 11] = <<"signature", 2, didsc.sig>>
    BY <1>1, <1>4, <1>9, SignatureFrom
  <2> QED BY <2>1, <2>2, <2>3
<1>15. c.akc = akc /\ c.didc = didc /\ c.didsc = didsc
  BY <1>1
<1>16. HoldsChain(s, c, o)
  BY <1>10, <1>11, <1>12, <1>13, <1>14, <1>15, Zenon DEF HoldsChain
<1> QED BY <1>16 DEF c

\* Files are made of blocks.
LEMMA BlocksOfFile ==
  ASSUME Opened, NEW k \in 1 .. Len(file)
  PROVE  IsBlock(file[k])
<1>1. file \in Files[target] /\ target \in {"chain", "ek"}
  BY DEF Opened
<1>2. file \in Seq(Range(file)) /\ \A i \in DOMAIN file : IsBlock(file[i])
  BY <1>1, FilesAssumption
<1> QED BY <1>2

\* A header has constants, whatever it was read from.
LEMMA HeadersHaveConstants ==
  ASSUME NEW kind, NEW blocks
  PROVE  "const" \in DOMAIN ReadHeader(kind, blocks)
<1>1. "const" \in DOMAIN JunkHeader(AnnouncesHash(blocks))
  BY DEF JunkHeader
<1>2. ASSUME NEW c, NEW rest PROVE "const" \in DOMAIN Joined([const |-> c], rest)
  BY DEF Joined
<1> QED BY <1>1, <1>2 DEF ReadHeader

\* A chain that was read and accepted is that of one boot of one device, whose
\* Scribe is among the embedded roots.
LEMMA AcceptedIsGenuine ==
  ASSUME NEW s, NEW announced, NEW o \in Nat,
         \A k \in 1 .. o + 11 : IsBlock(s[k]), o >= 6,
         NEW c, c = [akc |-> AkcFrom(s, announced), didc |-> DidcFrom(s, o),
                     didsc |-> DidscFrom(s, o + 6)],
         ValidateScribeCertificateChain(c, Scribes, Infos) = OK
  PROVE  \E b \in Boots : /\ c.akc = Akc(b[1], b[2]) /\ c.didc = Didc(b[1]) /\ c.didsc = Didsc(b[1])
                          /\ Trusts(b)
<1> DEFINE akc == AkcFrom(s, announced)
           didc == DidcFrom(s, o)
           didsc == DidscFrom(s, o + 6)
<1>1. /\ AkcShape(akc) /\ akc.header = ReadHeader("akc", <<s[1], s[2]>>)
      /\ akc.sig = ReadSig(<<s[5], s[6]>>)
  BY DEF AkcFrom, AkcShape
<1>2. /\ DidcShape(didc) /\ didc.header = ReadHeader("didc", <<s[o + 1], s[o + 2]>>)
      /\ didc.sig = ReadSig(<<s[o + 5], s[o + 6]>>)
  BY DEF DidcFrom, DidcShape
<1>3. DidscShape(didsc) /\ didsc.sig = ReadSig(<<s[o + 10], s[o + 11]>>)
  <2>1. (o + 6) + 4 = o + 10 /\ (o + 6) + 5 = o + 11
    OBVIOUS
  <2> QED BY <2>1 DEF DidscFrom, DidscShape
<1> HIDE DEF akc, didc, didsc
<1>4. c.akc = akc /\ c.didc = didc /\ c.didsc = didsc
  BY DEF akc, didc, didsc
<1>5. /\ validateAliasKeyCertificate(akc, didc, Infos) = OK
      /\ validateDeviceIDCertificate(didc, Scribes) = OK
      /\ validateDeviceIDScribeCertificate(didsc, didc, Scribes) = OK
  BY <1>4, ChainAccepted
<1>6. "const" \in DOMAIN akc.header /\ "const" \in DOMAIN didc.header
  BY <1>1, <1>2, HeadersHaveConstants
<1>7. /\ IsBlock(s[5]) /\ IsBlock(s[6]) /\ IsBlock(s[o + 5]) /\ IsBlock(s[o + 6])
      /\ IsBlock(s[o + 10]) /\ IsBlock(s[o + 11])
  OBVIOUS
<1>8. /\ akc.sig.intact => IsIssued(akc.sig)
      /\ didc.sig.intact => IsIssued(didc.sig)
      /\ didsc.sig.intact => IsIssued(didsc.sig)
  BY <1>1, <1>2, <1>3, <1>7, SignatureFrom
<1>9. akc.sig.intact => \E df \in Boots : akc.sig = Akc(df[1], df[2]).sig
  BY <1>5, <1>6, <1>8, AkcSignature DEF Boots
<1>10. didc.sig.intact => \E d \in Device : didc.sig = Didc(d).sig
  BY <1>5, <1>6, <1>8, DidcSignature
<1>11. didsc.sig.intact => \E d \in Device : didsc.sig = Didsc(d).sig
  BY <1>5, <1>8, DidscSignature
<1>12. PICK d \in Device : /\ didc = Didc(d)
                           /\ \E id \in DOMAIN Scribes :
                                /\ Scribes[id].type = SelfSignedScribeType
                                /\ Scribes[id].subject = PayloadKey[ScribeOf[d]]
  BY <1>2, <1>5, <1>10, AuthenticDidc
<1>13. PICK b \in Boots : b[1] = d /\ akc = Akc(b[1], b[2]) /\ CodeKeyInfo[b[2]] \in Infos
  <2>1. Boots \subseteq Device \X Firmware
    BY DEF Boots
  <2>2. validateAliasKeyCertificate(akc, Didc(d), Infos) = OK
    BY <1>5, <1>12
  <2> QED BY <1>1, <1>9, <2>1, <2>2, AuthenticAkc
<1>14. /\ didsc = Didsc(d)
       /\ \E id \in DOMAIN Scribes : /\ Scribes[id].type = TitanScribeType
                                     /\ Scribes[id].subject = RWKey[ScribeOf[d]]
  <2>1. validateDeviceIDScribeCertificate(didsc, Didc(d), Scribes) = OK
    BY <1>5, <1>12
  <2> QED BY <1>3, <1>11, <2>1, AuthenticDidsc
<1>15. PayloadCert(ScribeOf[d]) \in Range(Scribes) /\ RWCert(ScribeOf[d]) \in Range(Scribes)
  BY <1>12, <1>14, ScribesAssumption DEF Range, PayloadCert, RWCert
<1>16. Trusts(b)
  BY <1>13, <1>15 DEF Trusts
<1> QED BY <1>4, <1>12, <1>13, <1>14, <1>16

\* A sequence that holds an encoding starts with it.
LEMMA HoldsStarts ==
  ASSUME IInv, NEW S, NEW encoded \in Seq(S), Len(encoded) <= Len(file), Holds(file, encoded)
  PROVE  StartsWith(encoded)
<1> DEFINE n == Len(encoded)
           s == SubSeq(file, 1, n)
<1>1. file \in Seq(Range(file)) /\ Len(file) \in Nat /\ n \in Nat /\ n <= Len(file)
  BY FilesAreSequences DEF IInv
<1>2. s = [k \in 1 .. n |-> file[k]]
  BY <1>1
<1>3. encoded = [k \in 1 .. n |-> encoded[k]]
  OBVIOUS
<1>4. \A k \in 1 .. n : file[k] = encoded[k]
  BY DEF Holds
<1>5. s = encoded
  BY <1>2, <1>3, <1>4
<1> QED BY <1>1, <1>5 DEF StartsWith

\* A file that titancertutil calls valid starts with the certificates of one
\* device after one boot, in order and complete: no dropped, doubled, foreign or
\* shifted block gets past parser and validator together (chain_parser.go:35 and
\* the checks of the validator).
THEOREM AcceptedFiles == Spec => []AcceptedFileGenuine
<1>1. IInv => AcceptedFileGenuine
  <2> SUFFICES ASSUME IInv, target = "chain", result = OK
               PROVE  \E b \in Boots : StartsWith(ChainFile[b]) /\ Trusts(b)
    BY DEF AcceptedFileGenuine
  <2> DEFINE o == IF Announced THEN 7 ELSE 6
  <2>1. ChainRead /\ result = ValidateScribeCertificateChain(parsed, Scribes, Infos)
    <3>1. OK \notin {Idle, Missing, <<"reading">>, <<"parsed">>}
      BY DEF OK, Idle, Missing
    <3>2. ~Stopped
      BY DEF Stopped, OK
    <3> QED BY <3>1, <3>2 DEF IInv, Stage, EkRead, ChainRead
  <2>2. /\ o + 11 <= Len(file)
        /\ parsed = [akc |-> AkcFrom(file, Announced), didc |-> DidcFrom(file, o),
                     didsc |-> DidscFrom(file, o + 6)]
    BY <2>1, ChainOfFile
  <2>3. o \in {6, 7} /\ (o = 7 <=> Announced) /\ Announced \in BOOLEAN
    BY AnnouncedBoolean
  <2> HIDE DEF o
  <2>4. /\ file \in Seq(Range(file)) /\ Len(file) \in Nat
        /\ \A k \in 1 .. o + 11 : IsBlock(file[k])
    <3>1. file \in Seq(Range(file)) /\ Len(file) \in Nat
      BY FilesAreSequences DEF IInv
    <3>2. ASSUME NEW k \in 1 .. o + 11 PROVE IsBlock(file[k])
      <4>1. k \in 1 .. Len(file)
        BY <2>2, <2>3, <3>1
      <4> QED BY <4>1, BlocksOfFile DEF IInv
    <3> QED BY <3>1, <3>2
  <2>5. PICK b \in Boots : /\ parsed.akc = Akc(b[1], b[2]) /\ parsed.didc = Didc(b[1])
                           /\ parsed.didsc = Didsc(b[1]) /\ Trusts(b)
    <3>1. o \in Nat /\ o >= 6
      BY <2>3
    <3> QED BY <2>1, <2>2, <2>4, <3>1, AcceptedIsGenuine
  <2> DEFINE d == b[1]
             f == b[2]
             c == Chain(d, f)
  <2>6. d \in Device /\ f \in Firmware /\ c.akc.header = AkcHeader(d, f)
    BY DEF Boots, Chain, Akc
  <2>7. /\ AkcFrom(file, o = 7) = Akc(d, f) /\ DidcFrom(file, o) = Didc(d)
        /\ DidscFrom(file, o + 6) = Didsc(d)
    <3>1. AkcFrom(file, o = 7) = AkcFrom(file, Announced)
      BY <2>3 DEF AkcFrom
    <3> QED BY <2>2, <2>5, <3>1
  <2>8. HoldsChain(file, c, o)
    <3> HIDE DEF d, f
    <3> QED BY <2>3, <2>4, <2>6, <2>7, ChainFrom
  <2>9. o = IF c.akc.header.ExtensionHeaderType = EHTFirmwareHash THEN 7 ELSE 6
    <3>1. file[1] = Half("akc", c.akc.header, 1)
      BY <2>8 DEF HoldsChain
    <3>2. "ExtensionHeaderType" \in DOMAIN c.akc.header
      BY <2>6 DEF AkcHeader
    <3>3. Len(file) > 0
      BY <2>2, <2>3, <2>4
    <3> HIDE DEF c
    <3>4. Announced <=> c.akc.header.ExtensionHeaderType = EHTFirmwareHash
      BY <2>4, <3>1, <3>2, <3>3, Announces DEF Announced
    <3> QED BY <2>3, <3>4
  <2>10. StartsWith(EncodeChain(c))
    <3> HIDE DEF c
    <3>1. /\ Len(EncodeChain(c)) = o + 11 /\ Holds(file, EncodeChain(c))
          /\ \E S : EncodeChain(c) \in Seq(S)
      BY <2>8, <2>9, ChainBlocks
    <3> QED BY <2>2, <3>1, HoldsStarts
  <2> QED BY <2>5, <2>10 DEF ChainFile, Chains
<1> QED BY <1>1, FollowsFile, PTL

=============================================================================
