------------------------------ MODULE HudFlag ------------------------------
(***************************************************************************)
(* What a progress HUD promises to the controller that owns it             *)
(* (JGProgressHUD.h): a HUD that is down comes up when it is shown and     *)
(* covers the screen; once a dismiss was accepted it goes, in its own      *)
(* time.  Until it has gone a second show does nothing: "The HUD is        *)
(* already visible! Ignoring." (JGProgressHUD.m 510), and no warning at    *)
(* all while it fades (505).  ProgressHUD implements this promise;         *)
(* HomeDeck and Registration are built on it.                              *)
(***************************************************************************)
VARIABLE phase

Phases == {"down", "up", "going"}

Init == phase = "down"

\* show(in:) and dismiss() are calls: they change the phase or do nothing.
Show == phase' = IF phase = "down" THEN "up" ELSE phase

Dismiss == phase' = IF phase = "up" THEN "going" ELSE phase

Gone == phase = "going" /\ phase' = "down"

\* The view under the HUD is freed, and the HUD disappears with it.
ViewGone == phase' = "down"

Next == Show \/ Dismiss \/ Gone \/ ViewGone

Spec == Init /\ [][Next]_phase /\ WF_phase(Gone)
=============================================================================
