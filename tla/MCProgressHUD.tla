--------------------------- MODULE MCProgressHUD ---------------------------
(***************************************************************************)
(* Instances of ProgressHUD for TLC.                                       *)
(***************************************************************************)
EXTENDS ProgressHUD

CONSTANTS ring, pie
=============================================================================
