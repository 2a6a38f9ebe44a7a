-------------------------- MODULE ProgressHUDProofs --------------------------
(***************************************************************************)
(* Theorems about ProgressHUD: its invariants, and that every step of it   *)
(* is a step of HudFlag or none, for any indicators and any number of      *)
(* timers and blocks.                                                      *)
(***************************************************************************)
EXTENDS ProgressHUD, TLAPS

\* A transition is an animation under way.
Moving == transitioning <=> animation # "none"

\* An indicator that is not drawn is remembered.
IconKept == needsUpdate \/ effective = indicator

HInv ==
    /\ TypeOK
    /\ Moving
    /\ IconKept
    /\ UpCovers
    /\ NoBlockLeft
    /\ IndicatorCurrent

\* A show that is still to come was asked for after the last dismiss.
DelayedIsWanted == delayedShow # "no" => wanted

\* What a step may do to the phase.
Mapped == [Flag!Next]_Phase

LEMMA HInit == Init => HInv /\ Flag!Init
<1> SUFFICES ASSUME Init PROVE HInv /\ Flag!Init
  OBVIOUS
<1> USE DEF Init
<1>1. TypeOK
  BY DEF TypeOK
<1>2. Moving /\ IconKept /\ UpCovers /\ NoBlockLeft /\ IndicatorCurrent
  BY DEF Moving, IconKept, UpCovers, NoBlockLeft, IndicatorCurrent, Phase
<1>3. Flag!Init
  BY DEF Flag!Init, Phase
<1> QED BY <1>1, <1>2, <1>3 DEF HInv

\* The phase goes round: only a HUD that is down comes up, and a dismiss that was
\* accepted is not taken back.
LEMMA PhaseSteps ==
    ASSUME TypeOK, TypeOK',
           visible' /\ ~visible => ~asked',
           visible' /\ visible /\ asked => asked'
    PROVE  Mapped
<1>1. Phase \in {"down", "up", "going"} /\ Phase' \in {"down", "up", "going"}
  BY DEF Phase
<1>2. Phase = "down" => Phase' # "going"
  BY DEF Phase
<1>3. Phase = "going" => Phase' # "up"
  BY DEF Phase
<1> QED BY <1>1, <1>2, <1>3
        DEF Mapped, Flag!Next, Flag!Show, Flag!Dismiss, Flag!Gone, Flag!ViewGone

-----------------------------------------------------------------------------
(* The dismissal                                                           *)

LEMMA TimersCounted ==
    ASSUME NEW pending \in [Timers -> Nat], NEW t \in Timers
    PROVE  /\ OneMore(pending, t) \in [Timers -> Nat]
           /\ pending[t] > 0 => OneLess(pending, t) \in [Timers -> Nat]
BY DEF OneMore, OneLess

\* A dismissal leaves the HUD down, or visible and going, with no block lost.
Dismissing ==
    /\ visible' \in BOOLEAN /\ hidden' \in BOOLEAN /\ alpha' \in {0, 1}
    /\ transitioning' \in BOOLEAN /\ animation' \in {"none", "show", "hide"}
    /\ later' \in Modes \cup {"no"} /\ delayedShow' \in Modes \cup {"no"}
    /\ timers' \in [Timers -> Nat] /\ blocks' \in Nat
    /\ asked' \in BOOLEAN /\ wanted' \in BOOLEAN /\ orphaned' \in BOOLEAN
    /\ Moving'
    /\ visible' => visible /\ asked'
    /\ NoBlockLeft'

LEMMA DismissNowWorks ==
    ASSUME HInv, NEW mode \in Modes, NEW early \in BOOLEAN,
           NEW pending \in [Timers -> Nat], NEW waiting \in Nat,
           waiting > 0 => visible \/ orphaned,
           DismissNow(mode, early, pending, waiting),
           CancelDelayedShow, wanted' = FALSE,
           later' \in Modes \cup {"no"}
    PROVE  Dismissing
<1> USE DEF DismissNow, CancelDelayedShow
<1>1. mode \in {"fade", "cut"} /\ Unblocked(mode) \in Timers
  BY DEF Modes, Timers, Unblocked
<1>2. timers' \in [Timers -> Nat]
  BY <1>1, TimersCounted
<1>3. CASE visible /\ ~early /\ mode = "fade"
  BY <1>2, <1>3 DEF Hide, Dismissing, Moving, NoBlockLeft, HInv, TypeOK
<1>4. CASE visible /\ ~early /\ mode = "cut"
  <2>1. CleanUpAfterDismissal
    BY <1>4 DEF Hide
  <2>2. /\ visible' = FALSE /\ hidden' = TRUE /\ asked' = FALSE /\ orphaned' = FALSE
        /\ transitioning' = FALSE /\ animation' = "none" /\ blocks' = 0 /\ alpha' = alpha
    BY <2>1 DEF CleanUpAfterDismissal, RunBlocks
  <2>3. delayedShow' = "no" /\ alpha \in {0, 1}
    BY DEF HInv, TypeOK
  <2>4. Moving' /\ NoBlockLeft'
    BY <2>2 DEF Moving, NoBlockLeft
  <2> QED BY <1>2, <2>2, <2>3, <2>4 DEF Dismissing
<1>5. CASE ~(visible /\ ~early)
  BY <1>2, <1>5 DEF Dismissing, Moving, NoBlockLeft, HInv, TypeOK
<1> QED BY <1>1, <1>3, <1>4, <1>5

LEMMA DismissWorks ==
    ASSUME HInv, NEW mode \in Modes, NEW pending \in [Timers -> Nat], NEW waiting \in Nat,
           waiting > 0 => visible \/ orphaned,
           DismissAnimated(mode, pending, waiting)
    PROVE  Dismissing /\ (transitioning => UNCHANGED view)
<1>1. CASE transitioning
  BY <1>1 DEF DismissAnimated, CancelDelayedShow, view, Dismissing, Moving, NoBlockLeft,
              HInv, TypeOK
<1>2. CASE ~transitioning
  <2>1. (hasMinimum /\ young) \in BOOLEAN /\ later' \in Modes \cup {"no"}
    BY <1>2 DEF DismissAnimated, HInv, TypeOK
  <2> QED BY <1>2, <2>1, DismissNowWorks DEF DismissAnimated
<1> QED BY <1>1, <1>2

\* A dismissal keeps the invariant when the indicator is the current one.
LEMMA DismissingKeeps ==
    ASSUME HInv, Dismissing,
           hasMinimum' \in BOOLEAN, young' \in BOOLEAN, faded' \in BOOLEAN,
           indicator' \in Indicators, effective' \in Indicators, needsUpdate' \in BOOLEAN,
           IconKept', IndicatorCurrent'
    PROVE  HInv' /\ Mapped
<1>1. TypeOK'
  BY DEF Dismissing, TypeOK
<1>2. UpCovers' /\ Moving' /\ NoBlockLeft'
  BY DEF Dismissing, UpCovers, Phase
<1>3. Mapped
  BY <1>1, PhaseSteps DEF Dismissing, HInv
<1> QED BY <1>1, <1>2, <1>3 DEF HInv

LEMMA DismissCallKeeps ==
    ASSUME HInv,
           \/ \E mode \in Modes : Dismiss(mode)
           \/ \E t \in Timers : TimerFires(t)
    PROVE  HInv' /\ Mapped
<1>1. ASSUME Dismissing /\ (transitioning => UNCHANGED view), UNCHANGED <<time, icon, faded>>
      PROVE  HInv' /\ Mapped
  <2>1. IconKept' /\ IndicatorCurrent'
    BY <1>1 DEF HInv, IconKept, IndicatorCurrent, Dismissing, view, icon
  <2>2. /\ hasMinimum' \in BOOLEAN /\ young' \in BOOLEAN /\ faded' \in BOOLEAN
        /\ indicator' \in Indicators /\ effective' \in Indicators /\ needsUpdate' \in BOOLEAN
    BY <1>1 DEF HInv, TypeOK, time, icon
  <2> QED BY <1>1, <2>1, <2>2, DismissingKeeps
<1>2. ASSUME NEW mode \in Modes, Dismiss(mode) PROVE HInv' /\ Mapped
  <2>1. DismissAnimated(mode, timers, blocks) /\ UNCHANGED <<time, icon, faded>>
    BY <1>2 DEF Dismiss
  <2>2. /\ timers \in [Timers -> Nat] /\ blocks \in Nat
        /\ blocks > 0 => visible \/ orphaned
    BY DEF HInv, TypeOK, NoBlockLeft
  <2> QED BY <1>1, <2>1, <2>2, DismissWorks
<1>3. ASSUME NEW t \in Timers, TimerFires(t), visible PROVE HInv' /\ Mapped
  <2> DEFINE waiting == IF t.block THEN blocks + 1 ELSE blocks
  <2>1. DismissAnimated(t.mode, OneLess(timers, t), waiting) /\ UNCHANGED <<time, icon, faded>>
    BY <1>3 DEF TimerFires
  <2>2. t.mode \in Modes /\ waiting \in Nat
    BY DEF Timers, HInv, TypeOK
  <2>3. OneLess(timers, t) \in [Timers -> Nat]
    BY <1>3, TimersCounted DEF TimerFires, HInv, TypeOK
  <2> HIDE DEF waiting
  <2> QED BY <1>1, <1>3, <2>1, <2>2, <2>3, DismissWorks
<1>4. ASSUME NEW t \in Timers, TimerFires(t), ~visible PROVE HInv' /\ Mapped
  <2>1. timers' \in [Timers -> Nat]
    BY <1>4, TimersCounted DEF TimerFires, HInv, TypeOK
  <2>2. TypeOK'
    BY <1>4, <2>1 DEF TimerFires, HInv, TypeOK, view, time, icon
  <2>3. Moving' /\ IconKept' /\ UpCovers' /\ NoBlockLeft' /\ IndicatorCurrent'
    BY <1>4 DEF TimerFires, HInv, Moving, IconKept, UpCovers, NoBlockLeft, IndicatorCurrent,
                Phase, Covers, view, time, icon
  <2>4. Mapped
    BY <1>4, <2>2, PhaseSteps DEF TimerFires, HInv, view
  <2> QED BY <2>2, <2>3, <2>4 DEF HInv
<1> QED BY <1>2, <1>3, <1>4

-----------------------------------------------------------------------------
(* The presentation                                                        *)

LEMMA ShowKeeps ==
    ASSUME HInv, NEW mode \in Modes, ShowInView(mode),
           UNCHANGED <<later, timers, blocks, orphaned>>,
           delayedShow' \in Modes \cup {"no"}, wanted' \in BOOLEAN
    PROVE  HInv' /\ Mapped
<1> USE DEF ShowInView, FadeIn, UpdateIndicator
<1>0. mode \in {"fade", "cut"}
  BY DEF Modes
<1>1. TypeOK'
  <2>1. CASE transitioning \/ visible
    BY <2>1 DEF HInv, TypeOK, view, time, icon
  <2>2. CASE ~(transitioning \/ visible) /\ mode = "fade"
    BY <2>2 DEF HInv, TypeOK, view, time, icon
  <2>3. CASE ~(transitioning \/ visible) /\ mode = "cut"
    BY <2>3 DEF HInv, TypeOK, view, time, icon
  <2> QED BY <1>0, <2>1, <2>2, <2>3
<1>2. Moving' /\ IconKept' /\ IndicatorCurrent'
  BY <1>0 DEF HInv, TypeOK, Moving, IconKept, IndicatorCurrent, view, icon
<1>3. UpCovers' /\ NoBlockLeft'
  BY <1>0 DEF HInv, TypeOK, UpCovers, NoBlockLeft, Phase, Covers, view
<1>4. Mapped
  <2>1. visible' /\ ~visible => ~asked'
    BY DEF view
  <2>2. visible' /\ visible /\ asked => asked'
    BY DEF view
  <2> QED BY <1>1, <2>1, <2>2, PhaseSteps DEF HInv
<1> QED BY <1>1, <1>2, <1>3, <1>4 DEF HInv

LEMMA ShowCallKeeps ==
    ASSUME HInv,
           \/ \E mode \in ShowModes : Show(mode) \/ ShowAfterDelay(mode)
           \/ DelayedShowFires
    PROVE  HInv' /\ Mapped
<1> USE ShowModesAssumption
<1>1. ASSUME NEW mode \in ShowModes, Show(mode) PROVE HInv' /\ Mapped
  <2>1. mode \in Modes /\ delayedShow' \in Modes \cup {"no"} /\ wanted' \in BOOLEAN
    BY <1>1 DEF Show, Modes, HInv, TypeOK
  <2> QED BY <1>1, <2>1, ShowKeeps DEF Show
<1>2. ASSUME NEW mode \in ShowModes, ShowAfterDelay(mode) PROVE HInv' /\ Mapped
  <2> USE <1>2 DEF ShowAfterDelay, view, time, icon
  <2>1. TypeOK'
    BY DEF HInv, TypeOK, Modes
  <2>2. Moving' /\ IconKept' /\ UpCovers' /\ NoBlockLeft' /\ IndicatorCurrent'
    BY DEF HInv, Moving, IconKept, UpCovers, NoBlockLeft, IndicatorCurrent, Phase, Covers
  <2>3. Mapped
    BY <2>1, PhaseSteps DEF HInv
  <2> QED BY <2>1, <2>2, <2>3 DEF HInv
<1>3. CASE DelayedShowFires /\ ~visible
  <2>1. delayedShow \in Modes /\ delayedShow' \in Modes \cup {"no"} /\ wanted' \in BOOLEAN
    BY <1>3 DEF DelayedShowFires, HInv, TypeOK
  <2> QED BY <1>3, <2>1, ShowKeeps DEF DelayedShowFires
<1>4. CASE DelayedShowFires /\ visible
  <2> USE <1>4 DEF DelayedShowFires, view, time, icon
  <2>1. TypeOK'
    BY DEF HInv, TypeOK
  <2>2. Moving' /\ IconKept' /\ UpCovers' /\ NoBlockLeft' /\ IndicatorCurrent'
    BY DEF HInv, Moving, IconKept, UpCovers, NoBlockLeft, IndicatorCurrent, Phase, Covers
  <2>3. Mapped
    BY <2>1, PhaseSteps DEF HInv
  <2> QED BY <2>1, <2>2, <2>3 DEF HInv
<1> QED BY <1>1, <1>2, <1>3, <1>4

LEMMA ShowFinishedKeeps == ASSUME HInv, ShowFinished PROVE HInv' /\ Mapped
<1> USE DEF ShowFinished, UpdateIndicator
<1>1. effective' = indicator' /\ indicator' \in Indicators /\ needsUpdate' = FALSE
  BY DEF HInv, IconKept, TypeOK
<1>2. IconKept' /\ IndicatorCurrent'
  BY <1>1 DEF IconKept, IndicatorCurrent
<1>3. hasMinimum' \in BOOLEAN /\ young' \in BOOLEAN /\ faded' \in BOOLEAN
  BY DEF HInv, TypeOK
<1>4. CASE later = "no"
  <2>1. TypeOK'
    BY <1>1, <1>3, <1>4 DEF HInv, TypeOK
  <2>2. Moving' /\ UpCovers' /\ NoBlockLeft'
    BY <1>4 DEF HInv, Moving, UpCovers, NoBlockLeft, Phase, Covers
  <2>3. Mapped
    BY <1>4, <2>1, PhaseSteps DEF HInv
  <2> QED BY <1>2, <2>1, <2>2, <2>3 DEF HInv
<1>5. CASE later # "no"
  <2>1. /\ later \in Modes /\ hasMinimum \in BOOLEAN /\ later' \in Modes \cup {"no"}
        /\ timers \in [Timers -> Nat] /\ blocks \in Nat
        /\ blocks > 0 => visible \/ orphaned
    BY <1>5 DEF HInv, TypeOK, NoBlockLeft
  <2>2. Dismissing
    BY <1>5, <2>1, DismissNowWorks
  <2> QED BY <1>1, <1>2, <1>3, <2>2, DismissingKeeps
<1> QED BY <1>4, <1>5

-----------------------------------------------------------------------------
(* The other steps                                                         *)

LEMMA GoneKeeps == ASSUME HInv, HideFinished \/ ViewFreed PROVE HInv' /\ Mapped
<1> USE DEF HideFinished, ViewFreed, CleanUpAfterDismissal, RunBlocks, time, icon
<1>1. TypeOK'
  <2>1. CASE HideFinished
    BY <2>1 DEF HInv, TypeOK
  <2>2. CASE ViewFreed
    <3>1. orphaned' = TRUE \/ orphaned' = FALSE
      <4>1. CASE blocks > 0
        BY <2>2, <4>1
      <4>2. CASE ~(blocks > 0)
        BY <2>2, <4>2
      <4> QED BY <4>1, <4>2
    <3>2. visible' = FALSE /\ asked' = FALSE
      BY <2>2
    <3>3. UNCHANGED <<hidden, alpha, transitioning, animation, later, time, delayedShow,
                      timers, blocks, icon, wanted, faded>>
      BY <2>2
    <3>4. orphaned' \in BOOLEAN
      BY <3>1, Zenon
    <3> HIDE DEF ViewFreed, HideFinished
    <3> QED BY <3>2, <3>3, <3>4 DEF HInv, TypeOK
  <2> QED BY <2>1, <2>2
<1>2. Moving' /\ IconKept' /\ UpCovers' /\ NoBlockLeft' /\ IndicatorCurrent'
  BY DEF HInv, TypeOK, Moving, IconKept, UpCovers, NoBlockLeft, IndicatorCurrent, Phase
<1>3. Mapped
  BY <1>1, PhaseSteps DEF HInv
<1> QED BY <1>1, <1>2, <1>3 DEF HInv

LEMMA OthersKeep ==
    ASSUME HInv,
           \/ \E t \in Timers : DismissAfterDelay(t)
           \/ PerformAfterDismiss \/ SetMinimumDisplayTime \/ MinimumPasses
           \/ UNCHANGED vars
    PROVE  HInv' /\ Mapped
<1> USE DEF view, time, icon
<1>0. UNCHANGED <<view, icon, later, asked, wanted, orphaned, faded, delayedShow>>
  BY DEF DismissAfterDelay, PerformAfterDismiss, SetMinimumDisplayTime, MinimumPasses, vars
<1>1. timers' \in [Timers -> Nat]
  BY TimersCounted
     DEF DismissAfterDelay, PerformAfterDismiss, SetMinimumDisplayTime, MinimumPasses, vars,
         HInv, TypeOK
<1>2. blocks' \in Nat /\ (blocks' > 0 => visible \/ blocks' = blocks)
  BY DEF DismissAfterDelay, PerformAfterDismiss, SetMinimumDisplayTime, MinimumPasses, vars,
         HInv, TypeOK
<1>3. hasMinimum' \in BOOLEAN /\ young' \in BOOLEAN
  BY DEF DismissAfterDelay, PerformAfterDismiss, SetMinimumDisplayTime, MinimumPasses, vars,
         HInv, TypeOK
<1>4. TypeOK'
  BY <1>0, <1>1, <1>2, <1>3 DEF HInv, TypeOK
<1>5. Moving' /\ IconKept' /\ UpCovers' /\ NoBlockLeft' /\ IndicatorCurrent'
  BY <1>0, <1>2 DEF HInv, Moving, IconKept, UpCovers, NoBlockLeft, IndicatorCurrent,
                    Phase, Covers
<1>6. Mapped
  BY <1>0, <1>4, PhaseSteps DEF HInv
<1> QED BY <1>4, <1>5, <1>6 DEF HInv

LEMMA IndicatorKeeps ==
    ASSUME HInv, NEW i \in Indicators, SetIndicatorView(i) PROVE HInv' /\ Mapped
<1> USE DEF SetIndicatorView, view, time
<1>1. TypeOK'
  <2>1. indicator' \in Indicators /\ effective' \in Indicators
    BY DEF HInv, TypeOK
  <2>2. needsUpdate' \in BOOLEAN
    BY DEF HInv, TypeOK
  <2> HIDE DEF SetIndicatorView
  <2>3. UNCHANGED <<view, later, time, delayedShow, timers, blocks,
                    asked, wanted, orphaned, faded>>
    BY DEF SetIndicatorView
  <2> QED BY <2>1, <2>2, <2>3 DEF HInv, TypeOK
<1>2. IconKept' /\ IndicatorCurrent'
  BY DEF HInv, TypeOK, IconKept, IndicatorCurrent
<1>3. Moving' /\ UpCovers' /\ NoBlockLeft'
  BY DEF HInv, Moving, UpCovers, NoBlockLeft, Phase, Covers
<1>4. Mapped
  BY <1>1, PhaseSteps DEF HInv
<1> QED BY <1>1, <1>2, <1>3, <1>4 DEF HInv

LEMMA HNext == HInv /\ [Next]_vars => HInv' /\ Mapped
<1> SUFFICES ASSUME HInv, [Next]_vars PROVE HInv' /\ Mapped
  OBVIOUS
<1>1. CASE Call
  BY <1>1, ShowCallKeeps, DismissCallKeeps, OthersKeep, IndicatorKeeps DEF Call
<1>2. CASE ShowFinished \/ HideFinished \/ DelayedShowFires \/ MinimumPasses \/ ViewFreed
  BY <1>2, ShowFinishedKeeps, GoneKeeps, ShowCallKeeps, OthersKeep
<1>3. CASE \E t \in Timers : TimerFires(t)
  BY <1>3, DismissCallKeeps
<1>4. CASE UNCHANGED vars
  BY <1>4, OthersKeep
<1> QED BY <1>1, <1>2, <1>3, <1>4 DEF Next

-----------------------------------------------------------------------------
(* The theorems                                                            *)

LEMMA HInvariant == Spec => []HInv
BY HInit, HNext, PTL DEF Spec

\* Every variable keeps its type: no timer is taken off twice
\* (JGProgressHUD.m 644-666).
THEOREM TypeCorrect == Spec => []TypeOK
<1>1. HInv => TypeOK
  BY DEF HInv
<1> QED BY <1>1, HInvariant, PTL

\* An animated show covers the screen until a dismiss is accepted
\* (JGProgressHUD.m 504-550, 602-642, 1146-1162).
THEOREM ShownCovers == Spec => []UpCovers
<1>1. HInv => UpCovers
  BY DEF HInv
<1> QED BY <1>1, HInvariant, PTL

\* A block given for the end of the HUD is not left behind
\* (JGProgressHUD.m 575-596, 668-672).
THEOREM BlocksRun == Spec => []NoBlockLeft
<1>1. HInv => NoBlockLeft
  BY DEF HInv
<1> QED BY <1>1, HInvariant, PTL

\* An indicator set during an animation is drawn at the end of it
\* (JGProgressHUD.m 470-474, 1053-1067).
THEOREM IndicatorDrawn == Spec => []IndicatorCurrent
<1>1. HInv => IndicatorCurrent
  BY DEF HInv
<1> QED BY <1>1, HInvariant, PTL

\* The safety of the refinement: whatever calls meet whatever animations and
\* timers, the phase of the HUD moves as HudFlag says: down, up, going, down
\* (JGProgressHUD.m 457-672).
THEOREM MovesAsAFlag == Spec => Flag!Init /\ [][Flag!Next]_Phase
<1>1. Init => Flag!Init
  BY HInit
<1>2. HInv /\ [Next]_vars => [Flag!Next]_Phase
  BY HNext DEF Mapped
<1> QED BY <1>1, <1>2, HInvariant, PTL DEF Spec

-----------------------------------------------------------------------------
(* What appears was asked for                                              *)

\* Whatever takes back the wish to be shown takes back the delayed show too.
LEMMA WishKept ==
    ASSUME DelayedIsWanted, [Next]_vars
    PROVE  DelayedIsWanted' /\ (~visible /\ visible' => wanted')
<1> DEFINE Kept == DelayedIsWanted' /\ (~visible /\ visible' => wanted')
<1> USE DEF DelayedIsWanted
<1>1. ASSUME NEW mode, NEW pending, NEW waiting, DismissAnimated(mode, pending, waiting)
      PROVE  Kept
  <2>1. delayedShow' = "no"
    BY <1>1 DEF DismissAnimated, CancelDelayedShow
  <2>2. ~visible => visible' = visible
    BY <1>1 DEF DismissAnimated, DismissNow, view
  <2> QED BY <2>1, <2>2
<1>2. ASSUME NEW mode, Show(mode) \/ ShowAfterDelay(mode)
      PROVE  Kept
  BY <1>2 DEF Show, ShowAfterDelay, view
<1>3. ASSUME NEW mode, Dismiss(mode)
      PROVE  Kept
  BY <1>1, <1>3 DEF Dismiss
<1>4. ASSUME NEW t, DismissAfterDelay(t)
      PROVE  Kept
  BY <1>4 DEF DismissAfterDelay, view
<1>5. CASE PerformAfterDismiss \/ SetMinimumDisplayTime \/ MinimumPasses
  BY <1>5 DEF PerformAfterDismiss, SetMinimumDisplayTime, MinimumPasses, view
<1>6. ASSUME NEW i, SetIndicatorView(i)
      PROVE  Kept
  BY <1>6 DEF SetIndicatorView, view
<1>7. CASE ShowFinished
  <2>1. CASE later = "no"
    BY <1>7, <2>1 DEF ShowFinished
  <2>2. CASE later # "no"
    BY <1>7, <2>2 DEF ShowFinished, DismissNow, CancelDelayedShow
  <2> QED BY <2>1, <2>2
<1>8. CASE HideFinished \/ ViewFreed
  BY <1>8 DEF HideFinished, ViewFreed, CleanUpAfterDismissal
<1>9. CASE DelayedShowFires
  BY <1>9 DEF DelayedShowFires, view
<1>10. ASSUME NEW t, TimerFires(t)
       PROVE  Kept
  <2>1. CASE visible
    BY <1>1, <1>10, <2>1 DEF TimerFires
  <2>2. CASE ~visible
    BY <1>10, <2>2 DEF TimerFires, view
  <2> QED BY <2>1, <2>2
<1>11. CASE UNCHANGED vars
  BY <1>11 DEF vars, view
<1>12. CASE Call
  <2>1. ASSUME NEW mode \in ShowModes, Show(mode) \/ ShowAfterDelay(mode)
        PROVE  Kept
    BY <1>2, <2>1
  <2>2. ASSUME NEW mode \in Modes, Dismiss(mode)
        PROVE  Kept
    BY <1>3, <2>2
  <2>3. ASSUME NEW t \in Timers, DismissAfterDelay(t)
        PROVE  Kept
    BY <1>4, <2>3
  <2>4. ASSUME NEW i \in Indicators, SetIndicatorView(i)
        PROVE  Kept
    BY <1>6, <2>4
  <2> QED BY <1>12, <1>5, <2>1, <2>2, <2>3, <2>4 DEF Call
<1>13. ASSUME NEW t \in Timers, TimerFires(t)
       PROVE  Kept
  BY <1>10, <1>13
<1>14. Kept
  BY <1>5, <1>7, <1>8, <1>9, <1>11, <1>12, <1>13 DEF Next
<1> QED BY <1>14

\* "You may call dismiss to stop the HUD from appearing before the delay has
\* passed" (JGProgressHUD.h): a HUD only appears while a show asked for after
\* the last dismiss stands, in whatever order timers and delays run out
\* (JGProgressHUD.m 552-573, 602-672).
THEOREM AppearsOnlyIfWanted == Spec => ShownIfWanted
<1>1. Init => DelayedIsWanted
  BY DEF Init, DelayedIsWanted
<1>2. DelayedIsWanted /\ [Next]_vars => DelayedIsWanted'
  BY WishKept
<1>3. DelayedIsWanted /\ [Next]_vars => [~visible /\ visible' => wanted']_vars
  BY WishKept
<1> QED BY <1>1, <1>2, <1>3, PTL DEF Spec, ShownIfWanted
=============================================================================
