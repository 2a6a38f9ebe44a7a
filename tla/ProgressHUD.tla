---------------------------- MODULE ProgressHUD ----------------------------
(***************************************************************************)
(* One JGProgressHUD, whose calls meet its own animations and timers.      *)
(* Everything runs on the main queue: a call, the end of an animation and  *)
(* the firing of a timer are one step each.  While an animation is under   *)
(* way a show is ignored and a dismiss is put off to its end; a dismiss    *)
(* before the minimum display time puts itself off with a timer; delayed   *)
(* dismissals cannot be called off.                                        *)
(*                                                                         *)
(* The blocks that run after a dismissal are counted, and taken not to     *)
(* call the HUD back; layout, labels and the keyboard are left out.        *)
(***************************************************************************)
EXTENDS Integers

CONSTANTS
    ShowModes,    \* how the HUD is shown: "fade" (animated) or "cut"
    Indicators,   \* indicator views
    MaxTimers,    \* bound: pending delayed dismissals when another is asked for
    MaxBlocks     \* bound: waiting blocks when another is given

ASSUME ShowModesAssumption == ShowModes \subseteq {"fade", "cut"}
ASSUME IndicatorsAssumption == Indicators # {}
ASSUME BoundsAssumption == MaxTimers \in Nat /\ MaxBlocks \in Nat

Modes == {"fade", "cut"}

\* dismissAfterDelay:animated:completion:, with or without a block.
Timers == [mode : Modes, block : BOOLEAN]

VARIABLES
    visible,        \* it has a superview and a targetView
    hidden,         \* the property of UIView
    alpha,          \* the property of UIView: 0 once a fade out has begun
    transitioning,  \* _transitioning
    animation,      \* the animation whose completion is still to come
    later,          \* _dismissAfterTransitionFinished, with its mode
    hasMinimum,     \* minimumDisplayTime > 0
    young,          \* less than that has passed since _displayTimestamp
    delayedShow,    \* _displayBlock, with its mode
    timers,         \* delayed dismissals pending, of each kind
    blocks,         \* number of _dismissActions
    indicator,      \* indicatorView
    effective,      \* effectiveIndicatorView, the one that is drawn
    needsUpdate,    \* _effectiveIndicatorViewNeedsUpdate
    asked,          \* history: a dismiss was accepted in this presentation
    wanted,         \* history: a show was asked for, and no dismiss since
    orphaned,       \* history: the view was freed while blocks waited
    faded           \* history: the last presentation was animated

view == <<visible, hidden, alpha, transitioning, animation>>
icon == <<indicator, effective, needsUpdate>>
time == <<hasMinimum, young>>
vars == <<view, later, time, delayedShow, timers, blocks, icon,
          asked, wanted, orphaned, faded>>

TypeOK ==
    /\ visible \in BOOLEAN /\ hidden \in BOOLEAN /\ alpha \in {0, 1}
    /\ transitioning \in BOOLEAN
    /\ animation \in {"none", "show", "hide"}
    /\ later \in Modes \cup {"no"}
    /\ hasMinimum \in BOOLEAN /\ young \in BOOLEAN
    /\ delayedShow \in Modes \cup {"no"}
    /\ timers \in [Timers -> Nat]
    /\ blocks \in Nat
    /\ indicator \in Indicators /\ effective \in Indicators
    /\ needsUpdate \in BOOLEAN
    /\ asked \in BOOLEAN /\ wanted \in BOOLEAN
    /\ orphaned \in BOOLEAN /\ faded \in BOOLEAN

\* hitTest with JGProgressHUDInteractionTypeBlockAllTouches: what UIKit finds
\* under a touch is neither hidden nor transparent.
Covers == visible /\ ~hidden /\ alpha = 1

Phase == IF ~visible THEN "down" ELSE IF asked THEN "going" ELSE "up"

-----------------------------------------------------------------------------
Init ==
    /\ visible = FALSE /\ hidden = TRUE /\ alpha = 1
    /\ transitioning = FALSE /\ animation = "none" /\ later = "no"
    /\ hasMinimum \in BOOLEAN /\ young = FALSE
    /\ delayedShow = "no"
    /\ timers = [t \in Timers |-> 0]
    /\ blocks = 0
    /\ indicator \in Indicators /\ effective = indicator /\ needsUpdate = FALSE
    /\ asked = FALSE /\ wanted = FALSE /\ orphaned = FALSE /\ faded = FALSE

\* cleanUpAfterPresentation draws the indicator set during the transition.
UpdateIndicator ==
    /\ effective' = IF needsUpdate THEN indicator ELSE effective
    /\ needsUpdate' = FALSE
    /\ UNCHANGED indicator

\* Mutant: the alpha is left to the animation of the dismissal.
FadeInAsIs ==
    /\ transitioning' = TRUE /\ animation' = "show"
    /\ UNCHANGED alpha

\* FadeAnimation's show: UIKit sees the end value of an animation at once.
FadeIn ==
    /\ transitioning' = TRUE /\ animation' = "show"
    /\ alpha' = 1

\* showInView:animated:, which ends in cleanUpAfterPresentation at once when
\* it is not animated; nothing sets the alpha then.
ShowInView(mode) ==
    IF transitioning \/ visible
    THEN UNCHANGED <<view, time, icon, asked, faded>>
    ELSE /\ visible' = TRUE
         /\ hidden' = FALSE
         /\ young' = TRUE /\ UNCHANGED hasMinimum
         /\ asked' = FALSE
         /\ faded' = (mode = "fade")
         /\ \/ /\ mode = "fade"
               /\ FadeIn
               /\ UNCHANGED icon
            \/ /\ mode = "cut"
               /\ UNCHANGED <<transitioning, animation, alpha>>
               /\ UpdateIndicator

\* Mutant: the blocks are kept.
KeepBlocks == UNCHANGED blocks

RunBlocks == blocks' = 0

CleanUpAfterDismissal ==
    /\ hidden' = TRUE
    /\ visible' = FALSE
    /\ transitioning' = FALSE /\ animation' = "none"
    /\ asked' = FALSE /\ orphaned' = FALSE
    /\ RunBlocks
    /\ UNCHANGED alpha

\* FadeAnimation's hide, or the end of the dismissal at once.
Hide(mode, waiting) ==
    \/ /\ mode = "fade"
       /\ transitioning' = TRUE /\ animation' = "hide" /\ alpha' = 0
       /\ asked' = TRUE /\ blocks' = waiting
       /\ UNCHANGED <<visible, hidden, orphaned>>
    \/ /\ mode = "cut"
       /\ CleanUpAfterDismissal

Unblocked(mode) == [mode |-> mode, block |-> FALSE]

OneMore(pending, t) == [pending EXCEPT ![t] = @ + 1]

\* Mutant: a timer that has fired is taken off a second time.
OneLessTwice(pending, t) == [pending EXCEPT ![t] = @ - 2]

OneLess(pending, t) == [pending EXCEPT ![t] = @ - 1]

\* dismissAnimated: when no transition is under way.  Before the minimum time
\* it sets a timer for the rest of it.
DismissNow(mode, early, pending, waiting) ==
    IF visible /\ ~early
    THEN Hide(mode, waiting) /\ timers' = pending
    ELSE /\ transitioning' = FALSE /\ animation' = "none"
         /\ blocks' = waiting /\ asked' = visible
         /\ timers' = IF visible THEN OneMore(pending, Unblocked(mode)) ELSE pending
         /\ UNCHANGED <<visible, hidden, alpha, orphaned>>

\* Mutant: a dismiss leaves a show that is still to come.
LeaveDelayedShow == UNCHANGED delayedShow

CancelDelayedShow == delayedShow' = "no"

\* Mutant: a dismiss during a transition is ignored, as a show is.
DismissNowOrNever(mode, pending, waiting) ==
    /\ CancelDelayedShow
    /\ wanted' = FALSE
    /\ IF transitioning
       THEN /\ timers' = pending /\ blocks' = waiting /\ asked' = visible
            /\ UNCHANGED <<view, later, orphaned>>
       ELSE DismissNow(mode, hasMinimum /\ young, pending, waiting) /\ UNCHANGED later

\* dismissAnimated:, with the timers and blocks that are pending by then.
DismissAnimated(mode, pending, waiting) ==
    /\ CancelDelayedShow
    /\ wanted' = FALSE
    /\ IF transitioning
       THEN /\ later' = mode
            /\ timers' = pending /\ blocks' = waiting /\ asked' = visible
            /\ UNCHANGED <<view, orphaned>>
       ELSE DismissNow(mode, hasMinimum /\ young, pending, waiting) /\ UNCHANGED later

-----------------------------------------------------------------------------
(* The calls of the owner.                                                 *)

Show(mode) ==
    /\ ShowInView(mode)
    /\ wanted' = TRUE
    /\ UNCHANGED <<later, delayedShow, timers, blocks, orphaned>>

\* A second delayed show cancels the first.
ShowAfterDelay(mode) ==
    /\ delayedShow' = mode
    /\ wanted' = TRUE
    /\ UNCHANGED <<view, later, time, timers, blocks, icon, asked, orphaned, faded>>

FewTimers == \A t \in Timers : timers[t] < MaxTimers

Dismiss(mode) ==
    /\ FewTimers
    /\ DismissAnimated(mode, timers, blocks)
    /\ UNCHANGED <<time, icon, faded>>

\* The timer is set whether or not the HUD is visible.
DismissAfterDelay(t) ==
    /\ FewTimers
    /\ t.block => blocks < MaxBlocks
    /\ timers' = OneMore(timers, t)
    /\ UNCHANGED <<view, later, time, delayedShow, blocks, icon,
                   asked, wanted, orphaned, faded>>

PerformAfterDismiss ==
    /\ visible /\ blocks < MaxBlocks
    /\ blocks' = blocks + 1
    /\ UNCHANGED <<view, later, time, delayedShow, timers, icon,
                   asked, wanted, orphaned, faded>>

\* setIndicatorView: drawn at once, or at the end of a presentation.
SetIndicatorView(i) ==
    /\ indicator' = i
    /\ IF transitioning /\ i # indicator
       THEN needsUpdate' = TRUE /\ UNCHANGED effective
       ELSE effective' = (IF i = indicator THEN effective ELSE i) /\ UNCHANGED needsUpdate
    /\ UNCHANGED <<view, later, time, delayedShow, timers, blocks,
                   asked, wanted, orphaned, faded>>

SetMinimumDisplayTime ==
    /\ hasMinimum' = ~hasMinimum
    /\ UNCHANGED <<view, later, young, delayedShow, timers, blocks, icon,
                   asked, wanted, orphaned, faded>>

-----------------------------------------------------------------------------
(* What happens later.                                                     *)

\* The animation of a show ends: cleanUpAfterPresentation.
ShowFinished ==
    /\ animation = "show"
    /\ young' = TRUE /\ UNCHANGED hasMinimum
    /\ UpdateIndicator
    /\ IF later = "no"
       THEN /\ transitioning' = FALSE /\ animation' = "none"
            /\ hidden' = FALSE
            /\ UNCHANGED <<visible, alpha, delayedShow, timers, blocks,
                           asked, wanted, orphaned, faded>>
       ELSE /\ DismissNow(later, hasMinimum, timers, blocks)
            /\ CancelDelayedShow /\ wanted' = FALSE
    /\ later' = "no"
    /\ UNCHANGED faded

\* The animation of a dismissal ends.
HideFinished ==
    /\ animation = "hide"
    /\ CleanUpAfterDismissal
    /\ later' = "no"
    /\ UNCHANGED <<time, delayedShow, timers, icon, wanted, faded>>

\* The block of dismissAfterDelay:animated:completion:.
TimerFires(t) ==
    /\ timers[t] > 0
    /\ IF visible
       THEN DismissAnimated(t.mode, OneLess(timers, t),
                            IF t.block THEN blocks + 1 ELSE blocks)
       ELSE /\ timers' = OneLess(timers, t)
            /\ UNCHANGED <<view, later, delayedShow, blocks, asked, wanted, orphaned>>
    /\ UNCHANGED <<time, icon, faded>>

\* The block of showInView:animated:afterDelay:.
DelayedShowFires ==
    /\ delayedShow # "no"
    /\ delayedShow' = "no"
    /\ IF visible THEN UNCHANGED <<view, time, icon, asked, faded>>
                  ELSE ShowInView(delayedShow)
    /\ UNCHANGED <<later, timers, blocks, wanted, orphaned>>

MinimumPasses ==
    /\ young
    /\ young' = FALSE /\ UNCHANGED hasMinimum
    /\ UNCHANGED <<view, later, delayedShow, timers, blocks, icon,
                   asked, wanted, orphaned, faded>>

\* The controller that owns the view is gone: targetView is weak.  An animation
\* still calls its completion.
ViewFreed ==
    /\ visible
    /\ visible' = FALSE /\ asked' = FALSE
    /\ orphaned' = (blocks > 0)
    /\ UNCHANGED <<hidden, alpha, transitioning, animation, later, time,
                   delayedShow, timers, blocks, icon, wanted, faded>>

Call ==
    \/ \E mode \in ShowModes : Show(mode) \/ ShowAfterDelay(mode)
    \/ \E mode \in Modes : Dismiss(mode)
    \/ \E t \in Timers : DismissAfterDelay(t)
    \/ PerformAfterDismiss \/ SetMinimumDisplayTime
    \/ \E i \in Indicators : SetIndicatorView(i)

Next ==
    \/ Call
    \/ ShowFinished \/ HideFinished \/ DelayedShowFires \/ MinimumPasses \/ ViewFreed
    \/ \E t \in Timers : TimerFires(t)

\* Animations end, timers fire and time passes; nobody has to call.
Fairness ==
    /\ WF_vars(ShowFinished) /\ WF_vars(HideFinished)
    /\ WF_vars(MinimumPasses)
    /\ \A t \in Timers : WF_vars(TimerFires(t))

Spec == Init /\ [][Next]_vars /\ Fairness

-----------------------------------------------------------------------------
(* Properties                                                              *)

\* The HUD keeps the promise of HudFlag: a show brings it up unless it is
\* there already, and once it is visible a dismiss is never lost: it goes,
\* although a dismiss met an animation or came before the minimum time
\* (JGProgressHUD.m 602-628, 484-488).
Flag == INSTANCE HudFlag WITH phase <- Phase

IsAFlag == Flag!Spec

\* From an animated show until a dismiss is accepted, the HUD covers the screen
\* (JGProgressHUD.m 1146-1162): the screens under it count on that.
UpCovers == Phase = "up" /\ faded => Covers

\* "You may call dismiss to stop the HUD from appearing before the delay has
\* passed" (JGProgressHUD.h, showInView:animated:afterDelay:): what appears
\* was asked for after the last dismiss.
ShownIfWanted == [][~visible /\ visible' => wanted']_vars

\* "Schedules the given block to be executed when this HUD disapears"
\* (JGProgressHUD.h, performAfterDismiss:): no block is left once it has gone,
\* unless it went with its view.
NoBlockLeft == blocks > 0 => visible \/ orphaned

\* A presentation that is complete shows the indicator that was set last, also
\* when it was set during an animation (JGProgressHUD.m 470-474, 1053-1067).
IndicatorCurrent == visible /\ ~transitioning => effective = indicator
=============================================================================
