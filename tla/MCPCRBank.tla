------------------------------ MODULE MCPCRBank ------------------------------
(***************************************************************************)
(* Two banks, indices on both sides of both ends of the bank, the two      *)
(* PCRs that are launched and one that is not, and data of which one is    *)
(* the digest of the other.                                                *)
(***************************************************************************)
EXTENDS PCRBank

CONSTANTS b1, b2

MCBank  == {b1, b2}
MCIndex == {-1, 0, 17, 22, 24}
MCData  == {<<"image">>, SHA256(<<<<"image">>>>)}

=============================================================================
