---------------------------- MODULE MCPhotoPager ----------------------------
(***************************************************************************)
(* Instances of PhotoPager for TLC.                                        *)
(***************************************************************************)
EXTENDS PhotoPager

\* A card after a save: three slots, of which the second was never filled.
SecondBlank == {1}
=============================================================================
