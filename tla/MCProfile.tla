----------------------------- MODULE MCProfile -----------------------------
(***************************************************************************)
(* Instances of Profile for TLC.                                           *)
(***************************************************************************)
EXTENDS Profile

CONSTANTS ann, bob, eighteen, thirty, al
=============================================================================
