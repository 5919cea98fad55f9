----------------------------- MODULE MCRimtool -----------------------------
(***************************************************************************)
(* Bundles, whole and broken in each way HashBundleV2 tells apart; images  *)
(* with an image descriptor; and files that are both or neither.  A Word   *)
(* of four flash blocks lets the sizes of a copy wrap around in a file     *)
(* longer than that.                                                       *)
(***************************************************************************)
EXTENDS Rimtool, MCFirmware

\* A firmware copy at s: its header and its metadata, at the flash boundary or
\* wherever meta says.
CopyAt(s, c) ==
  [size   |-> 0,
   text   |-> (s :> c.magic) @@ (s + 392 :> c.body) @@ (s + c.meta :> c.tag),
   number |-> (s + 808 :> c.imageSize) @@ (s + 864 :> c.major) @@ (s + 388 :> c.unsigned)
              @@ (s + c.meta + 8 :> c.length),
   hash   |-> <<>>]

\* The metadata's hash is that of the body in f.
HashFor(s, c, f) ==
  LET at == IF c.match = "A" THEN {s + c.meta + 12}
            ELSE IF c.match = "B" THEN {s + c.meta + 44} ELSE {}
  IN [Empty EXCEPT !.hash = [p \in at |-> CalculatedHash(f, s)]]

\* A copy of less than a flash block, with its metadata in the next one.
Copy ==
  [magic |-> "TitanV1", body |-> "firmware", imageSize |-> 2000, major |-> 1, unsigned |-> 0,
   meta |-> 2048, tag |-> "IMG_HASH", length |-> 64, match |-> "A"]

HeaderAt(o, a, b) ==
  [size |-> 0, text |-> o :> "_HAVEND_", number |-> (o + 28 :> a - o) @@ (o + 36 :> b - o),
   hash |-> <<>>]

\* A bundle at o of the copies ca and cb, 4096 bytes apart.
BundleAt(o, ca, cb) ==
  LET a == o + 2048
      b == o + 6144
      f == Join(HeaderAt(o, a, b), Join(CopyAt(a, ca), CopyAt(b, cb)))
  IN Join(f, Join(HashFor(a, ca, f), HashFor(b, cb, f)))

\* Copies with one thing other than in Copy.
OddCopies ==
  {[Copy EXCEPT !.magic = "TitanV3"], [Copy EXCEPT !.magic = "TitanV2"],
   [Copy EXCEPT !.body = "other"], [Copy EXCEPT !.major = 2], [Copy EXCEPT !.unsigned = 2],
   [Copy EXCEPT !.tag = "other"], [Copy EXCEPT !.length = 65],
   [Copy EXCEPT !.match = "B"], [Copy EXCEPT !.match = "none"],
   [Copy EXCEPT !.meta = 2000],
   [Copy EXCEPT !.imageSize = 2049], [Copy EXCEPT !.imageSize = 2048],
   [Copy EXCEPT !.imageSize = 864], [Copy EXCEPT !.imageSize = 868],
   [Copy EXCEPT !.imageSize = 392], [Copy EXCEPT !.imageSize = 100],
   [Copy EXCEPT !.imageSize = 0, !.meta = 0],
   [Copy EXCEPT !.imageSize = Word - 1, !.meta = 0]}

\* The odd copy as either one, or as both.
OddBundles ==
  UNION {{BundleAt(0, c, Copy), BundleAt(0, Copy, c), BundleAt(0, c, c)} : c \in OddCopies}

SameSize(n) ==
  {BundleAt(0, [Copy EXCEPT !.imageSize = n, !.major = v],
               [Copy EXCEPT !.imageSize = n, !.major = v]) : v \in 1 .. 2}

Bundles ==
  {BundleAt(0, Copy, Copy), BundleAt(12, Copy, Copy)}
  \cup SameSize(864) \cup SameSize(868) \cup OddBundles

\* What may stand at the second boundary of the file, if it has one.
Behind == Some(65536, {Good(65536)} \cup
                         {[Good(65536) EXCEPT !.hash = "none"], [Good(65536) EXCEPT !.regions = 0]})

\* Bundles cut off before the end of their metadata, or long enough for a body
\* that wraps around, alone or with a descriptor behind them; and descriptors on
\* both boundaries, of which the search takes the upper one, hashed or not.
MCImages ==
  {Sized(f, n) : f \in Bundles, n \in {8267, 8268, 24576}}
  \cup {Sized(Join(f, d), 65748) : f \in {Empty} \cup Bundles, d \in Behind}
  \cup {Sized(Join(DescriptorAt(0, Good(0)), d), 65748) : d \in Behind}
  \cup {Sized(Empty, 0), Sized(Empty, 65536), Sized(HeaderAt(0, 2048, 6144), 51),
        Sized(Join(HeaderAt(0, 2048, 6144), BundleAt(12, Copy, Copy)), 24576)}

=============================================================================
