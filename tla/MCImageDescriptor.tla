-------------------------- MODULE MCImageDescriptor --------------------------
(***************************************************************************)
(* Images of up to three boundaries: any descriptor on the second one,     *)
(* over none, a good or a large one on the first; and a good or a large    *)
(* one cut off at, before and after the end of each of its structures.     *)
(***************************************************************************)
EXTENDS ImageDescriptor, MCFirmware

Lower == None \cup Some(0, {Good(0), Large(0)})
Upper == None \cup Some(65536, {Good(65536), Large(65536)} \cup Odd(65536))

Whole == {Sized(Join(low, up), n) : low \in Lower, up \in Upper,
                                    n \in {131072, 131080}}

\* The ends of the structures of a good and of a large descriptor.
GoodEnds  == {7, 8, 96, 140, 176, 180, 212}
LargeEnds == {96, 184, 252, 264, 268, 272, 276, 660, 1044}

Cut == {Sized(Join(low, DescriptorAt(65536, Good(65536))), 65536 + e + i) :
          low \in Lower, e \in GoodEnds, i \in {-1, 0}}
       \cup {Sized(Join(low, DescriptorAt(65536, Large(65536))), 65536 + e + i) :
          low \in Lower, e \in LargeEnds, i \in {-1, 0}}

MCImages == Whole \cup Cut

=============================================================================
