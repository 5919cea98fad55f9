----------------------------- MODULE MCFirmware -----------------------------
(***************************************************************************)
(* Firmware files for the instances: image descriptors, whole and broken   *)
(* in each way a reader tells apart, laid at the boundaries of an image.   *)
(***************************************************************************)
EXTENDS FirmwareFile, TLC

Empty == [size |-> 0, text |-> <<>>, number |-> <<>>, hash |-> <<>>]

\* The fields of both files; the size is given last.
Join(f, g) ==
  [size |-> 0, text |-> f.text @@ g.text, number |-> f.number @@ g.number,
   hash |-> f.hash @@ g.hash]

Sized(f, n) == [f EXCEPT !.size = n]

\* A descriptor at o: its base structure, its regions, its hash, its blob and
\* its signature, each with the magic given; what is absent takes no bytes, so
\* that the next one stands in its place.
DescriptorAt(o, d) ==
  LET hash == o + 96 + 44 * d.regions
      blob == hash + (IF d.hash = "HASH" THEN IF d.hashType = 4 THEN 68 ELSE 36 ELSE 0)
      sign == blob + (IF d.blobSize > 0 THEN 4 + d.blobSize ELSE 0)
  IN [size   |-> 0,
      text   |-> (o :> "_IMGDSC_") @@ (o + 32 :> "name")
                 @@ (sign :> d.sign) @@ (blob :> d.blob) @@ (hash :> d.hash),
      number |-> (o + 12 :> d.offset) @@ (o + 80 :> d.imageType)
                 @@ (o + 82 :> d.hashType) @@ (o + 83 :> d.scheme)
                 @@ (o + 84 :> d.regions) @@ (o + 92 :> d.blobSize),
      hash   |-> <<>>]

Good(o) ==
  [offset |-> o, imageType |-> 1, hashType |-> 2, scheme |-> 5, regions |-> 1,
   blobSize |-> 0, hash |-> "HASH", blob |-> "BLOB", sign |-> "SIGN"]

Large(o) ==
  [Good(o) EXCEPT !.hashType = 4, !.scheme = 2, !.regions = 2, !.blobSize = 8]

\* A descriptor with one thing other than in a good one.
Odd(o) ==
  {[Good(o) EXCEPT !.scheme = s] : s \in {0, 1, 3, 4, 6}}
  \cup {[Good(o) EXCEPT !.hashType = h] : h \in {0, 1, 9}}
  \cup {[Good(o) EXCEPT !.imageType = 5], [Good(o) EXCEPT !.regions = 0],
        [Good(o) EXCEPT !.offset = o + 65536], [Good(o) EXCEPT !.hash = "none"],
        [Good(o) EXCEPT !.sign = "none"], [Large(o) EXCEPT !.blob = "none"],
        [Large(o) EXCEPT !.hash = "none"]}

None == {Empty}
Some(o, ds) == {DescriptorAt(o, d) : d \in ds}

=============================================================================
