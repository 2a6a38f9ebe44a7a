------------------------------ MODULE HomeDeck ------------------------------
(***************************************************************************)
(* The home screen of one phone, HomeController.swift: the deck of cards   *)
(* and the linked list that is meant to follow it, the progress HUD that   *)
(* keeps the screen from being touched, and the chain of requests          *)
(*     fetchCurrentUser -> fetchSwipes -> fetchUsersFromFirestore          *)
(* whose callbacks run while the user refreshes, opens the settings, signs *)
(* out and in, or restarts the app.                                        *)
(*                                                                         *)
(* A card that is swiped leaves the deck at once (the code removes it when *)
(* an animation of half a second ends).  The HUD is that of HudFlag, which *)
(* ProgressHUD implements: it takes its time to go, and a fetch that shows *)
(* it meanwhile runs without it.                                           *)
(***************************************************************************)
EXTENDS Integers, SequencesExt

CONSTANTS
    Users,        \* accounts
    Nobody,       \* no user: signed out, or no profile fetched, or no card
    Feeds,        \* what a query may return: sequences of users, by age
    MaxFetches,   \* bound: fetches started in one run of the app
    MayFail       \* whether requests may fail

ASSUME NobodyAssumption == Nobody \notin Users
ASSUME FeedsAssumption ==
    /\ Feeds \subseteq Seq(Users)
    /\ \A feed \in Feeds : \A j, k \in DOMAIN feed : feed[j] = feed[k] => j = k
ASSUME MaxFetchesAssumption == MaxFetches \in Nat \ {0}
ASSUME MayFailAssumption == MayFail \in BOOLEAN

Sessions == Users \cup {Nobody}

\* The card of a person, and the query that brought it: a refresh brings new
\* cards of the same people.
Cards == [who : Users, query : Nat]

VARIABLES
    session,      \* Auth.auth().currentUser
    modal,        \* the full-screen controller presented over the home screen
    hud,          \* the phase of the HUD over the home screen
    user,         \* self.user
    deck,         \* the cards of cardDeckView, front to back
    chain,        \* topCardView, its nextCardView, and so on
    profileGets,  \* profileGets[u]: reads of users/u in flight
    swipeGets,    \* swipeGets[u]: reads of swipes/u by fetchSwipes in flight
    queries,      \* queries for cards in flight
    fetches,      \* fetches started since the app was launched
    landed,       \* queries that have returned since then
    late,         \* whether a controller that was left may still call its delegate
    hasSwipes,    \* users that have a document in the collection "swipes"
    last,         \* history: the card seen and the card saved, last swipe
    overlapped,   \* history: the last fetch began before an earlier one, or its
                  \* HUD, was over
    relogged      \* history: somebody signed in since the deck was cleared

requests == <<profileGets, swipeGets, queries>>
counters == <<fetches, landed>>
history  == <<last, overlapped, relogged>>
vars == <<session, modal, hud, user, deck, chain, profileGets, swipeGets,
          queries, fetches, landed, late, hasSwipes, last, overlapped, relogged>>

Hud == INSTANCE HudFlag WITH phase <- hud

TypeOK ==
    /\ session \in Sessions
    /\ modal \in {"closed", "none", "registration", "settings"}
    /\ hud \in Hud!Phases
    /\ user \in Sessions
    /\ deck \in Seq(Cards)
    /\ chain \in Seq(Cards)
    /\ profileGets \in [Users -> Nat]
    /\ swipeGets \in [Users -> Nat]
    /\ queries \in Nat
    /\ fetches \in 0..MaxFetches
    /\ landed \in Nat
    /\ late \in BOOLEAN
    /\ hasSwipes \subseteq Users
    /\ last \in [seen : Sessions, saved : Sessions]
    /\ overlapped \in BOOLEAN
    /\ relogged \in BOOLEAN

\* The home screen is in front and the HUD lets touches through, which it may
\* do as soon as it was dismissed.
Touchable == modal = "none" /\ hud # "up" /\ session # Nobody

InFlight ==
    \/ queries > 0
    \/ \E u \in Users : profileGets[u] > 0 \/ swipeGets[u] > 0

-----------------------------------------------------------------------------
\* fetchCurrentUser, called while s is signed in: the HUD comes first, then
\* the guard, then the deck is emptied and the profile is read.
FetchCurrentUser(s) ==
    /\ Hud!Show
    /\ IF s = Nobody
       THEN UNCHANGED <<deck, profileGets, fetches, overlapped, relogged>>
       ELSE /\ fetches < MaxFetches
            /\ fetches' = fetches + 1
            /\ deck' = <<>>
            /\ profileGets' = [profileGets EXCEPT ![s] = @ + 1]
            /\ overlapped' = (InFlight \/ hud = "going")
            /\ relogged' = FALSE

\* Mutant: topCardView is not set to nil.
StartQueryKeepsTop ==
    /\ queries' = queries + 1
    /\ UNCHANGED chain

\* fetchUsersFromFirestore up to its query: the list is dropped.
StartQuery ==
    /\ queries' = queries + 1
    /\ chain' = <<>>

\* Before the first launch: an earlier run may have left somebody signed in.
Init ==
    /\ session \in Sessions
    /\ modal = "closed"
    /\ Hud!Init
    /\ user = Nobody
    /\ deck = <<>>
    /\ chain = <<>>
    /\ profileGets = [u \in Users |-> 0]
    /\ swipeGets = [u \in Users |-> 0]
    /\ queries = 0
    /\ fetches = 0
    /\ landed = 0
    /\ late = FALSE
    /\ hasSwipes \in SUBSET Users
    /\ last = [seen |-> Nobody, saved |-> Nobody]
    /\ overlapped = FALSE
    /\ relogged = FALSE

\* The app is started, or killed and started again.  SceneDelegate makes the
\* home screen: viewDidLoad calls fetchCurrentUser, viewDidAppear presents the
\* registration when nobody is signed in.
Launch ==
    /\ modal' = IF session = Nobody THEN "registration" ELSE "none"
    /\ hud' = "up"
    /\ user' = Nobody
    /\ deck' = <<>>
    /\ chain' = <<>>
    /\ profileGets' = [u \in Users |-> IF u = session THEN 1 ELSE 0]
    /\ swipeGets' = [u \in Users |-> 0]
    /\ queries' = 0
    /\ fetches' = IF session = Nobody THEN 0 ELSE 1
    /\ landed' = 0
    /\ late' = FALSE
    /\ last' = [seen |-> Nobody, saved |-> Nobody]
    /\ overlapped' = FALSE
    /\ relogged' = FALSE
    /\ UNCHANGED <<session, hasSwipes>>

\* Mutant: the fetch goes on only when another profile than the last arrives.
ProfileArrivesAnew(u) ==
    /\ profileGets[u] > 0
    /\ profileGets' = [profileGets EXCEPT ![u] = @ - 1]
    /\ user' = u
    /\ swipeGets' = IF session \in {Nobody, user} THEN swipeGets
                    ELSE [swipeGets EXCEPT ![session] = @ + 1]
    /\ UNCHANGED <<session, modal, hud, deck, chain, queries, counters, late, hasSwipes, history>>

\* The profile arrives: fetchSwipes asks again who is signed in.
ProfileArrives(u) ==
    /\ profileGets[u] > 0
    /\ profileGets' = [profileGets EXCEPT ![u] = @ - 1]
    /\ user' = u
    /\ swipeGets' = IF session = Nobody THEN swipeGets
                    ELSE [swipeGets EXCEPT ![session] = @ + 1]
    /\ UNCHANGED <<session, modal, hud, deck, chain, queries, counters, late, hasSwipes, history>>

\* Mutant: a failure takes the HUD down.
ProfileFailsOpenly(u) ==
    /\ MayFail
    /\ profileGets[u] > 0
    /\ profileGets' = [profileGets EXCEPT ![u] = @ - 1]
    /\ Hud!Dismiss
    /\ UNCHANGED <<session, modal, user, deck, chain, swipeGets, queries,
                   counters, late, hasSwipes, history>>

\* The read of the profile fails, or the account has no profile.
ProfileFails(u) ==
    /\ MayFail
    /\ profileGets[u] > 0
    /\ profileGets' = [profileGets EXCEPT ![u] = @ - 1]
    /\ UNCHANGED <<session, modal, hud, user, deck, chain, swipeGets, queries,
                   counters, late, hasSwipes, history>>

\* The user's swipes arrive: without a document the callback returns.
SwipesArrive(u) ==
    /\ swipeGets[u] > 0
    /\ swipeGets' = [swipeGets EXCEPT ![u] = @ - 1]
    /\ IF u \in hasSwipes THEN StartQuery ELSE UNCHANGED <<queries, chain>>
    /\ UNCHANGED <<session, modal, hud, user, deck, profileGets, counters, late, hasSwipes, history>>

SwipesFail(u) ==
    /\ MayFail
    /\ swipeGets[u] > 0
    /\ swipeGets' = [swipeGets EXCEPT ![u] = @ - 1]
    /\ UNCHANGED <<session, modal, hud, user, deck, chain, profileGets, queries,
                   counters, late, hasSwipes, history>>

\* Mutant: the feed is compared with the profile fetched last.
NotProfileUser(feed) == \A k \in DOMAIN feed : feed[k] # user

\* The cards of a feed, which leaves out the user signed in at that moment.
NotCurrentUser(feed) == \A k \in DOMAIN feed : feed[k] # session

Batch(feed) == [k \in DOMAIN feed |-> [who |-> feed[k], query |-> landed + 1]]

\* The list starts at the first new card unless it has a top card already.
Relinked(batch) == IF chain = <<>> THEN batch ELSE chain

\* A query returns: the HUD goes, the new cards are linked to each other and
\* put behind those in the deck.
QueryReturns ==
    /\ queries > 0
    /\ queries' = queries - 1
    /\ landed' = landed + 1
    /\ Hud!Dismiss
    /\ \E feed \in Feeds :
          /\ NotCurrentUser(feed)
          /\ deck' = deck \o Batch(feed)
          /\ chain' = Relinked(Batch(feed))
    /\ UNCHANGED <<session, modal, user, profileGets, swipeGets, fetches, late, hasSwipes, history>>

\* Mutant: the callback runs although no query is in flight.
QueryFailsTwice ==
    /\ MayFail
    /\ queries' = queries - 1
    /\ Hud!Dismiss
    /\ UNCHANGED <<session, modal, user, deck, chain, profileGets, swipeGets,
                   counters, late, hasSwipes, history>>

\* A query fails: the HUD goes, nothing comes.
QueryFails ==
    /\ MayFail
    /\ queries > 0
    /\ queries' = queries - 1
    /\ Hud!Dismiss
    /\ UNCHANGED <<session, modal, user, deck, chain, profileGets, swipeGets,
                   counters, late, hasSwipes, history>>

\* handleRefresh: no HUD.
Refresh ==
    /\ Touchable
    /\ fetches < MaxFetches
    /\ fetches' = fetches + 1
    /\ deck' = <<>>
    /\ StartQuery
    /\ overlapped' = InFlight
    /\ relogged' = FALSE
    /\ UNCHANGED <<session, modal, hud, user, profileGets, swipeGets, landed, late, hasSwipes, last>>

\* removeFromSuperview, on a card that may have left the deck already.
RemoveCard(cards, card) ==
    IF \E k \in DOMAIN cards : cards[k] = card
    THEN RemoveAt(cards, CHOOSE k \in DOMAIN cards : cards[k] = card)
    ELSE cards

\* The like or dislike button is pressed, or the card in front is panned away:
\* in each case it is topCardView that is saved and removed.  Saving may create
\* the user's document (SwipeMatch).
Swipe ==
    /\ Touchable
    /\ chain # <<>>
    /\ last' = [seen  |-> IF deck = <<>> THEN Nobody ELSE Head(deck).who,
                saved |-> Head(chain).who]
    /\ deck' = RemoveCard(deck, Head(chain))
    /\ chain' = Tail(chain)
    /\ hasSwipes' \in {hasSwipes, hasSwipes \cup {session}}
    /\ UNCHANGED <<session, modal, hud, user, requests, counters, late, overlapped, relogged>>

\* Presenting a screen takes longer than the HUD takes to go.
OpenSettings ==
    /\ Touchable /\ hud = "down"
    /\ modal' = "settings"
    /\ UNCHANGED <<session, hud, user, deck, chain, requests, counters, late, hasSwipes, history>>

\* The buttons of the navigation bar work during a save, and a second save too:
\* leaving the settings, or saving, may leave a save behind.
MayLeaveSave == late' \in {late, TRUE}

CancelSettings ==
    /\ modal = "settings"
    /\ modal' = "none"
    /\ MayLeaveSave
    /\ UNCHANGED <<session, hud, user, deck, chain, requests, counters, hasSwipes, history>>

\* The settings are saved, their controller dismissed and didSaveSettings called.
SaveSettings ==
    /\ modal = "settings"
    /\ modal' = "none"
    /\ MayLeaveSave
    /\ FetchCurrentUser(session)
    /\ UNCHANGED <<session, user, chain, swipeGets, queries, landed, hasSwipes, last>>

\* handleLogout: the home screen appears again and presents the registration.
Logout ==
    /\ modal = "settings"
    /\ session' = Nobody
    /\ modal' = "registration"
    /\ MayLeaveSave
    /\ UNCHANGED <<hud, user, deck, chain, requests, counters, hasSwipes, history>>

\* LoginController signs in.  Its delegate is nil: nothing is fetched.
Login(u) ==
    /\ modal = "registration"
    /\ session' = u
    /\ modal' = "none"
    /\ relogged' = TRUE
    /\ UNCHANGED <<hud, user, deck, chain, requests, counters, late, hasSwipes, last, overlapped>>

\* RegistrationController creates an account, which signs in to it.
CreateAccount(u) ==
    /\ modal = "registration"
    /\ u \notin hasSwipes
    /\ session' = u
    /\ relogged' = TRUE
    /\ UNCHANGED <<modal, hud, user, deck, chain, requests, counters, late, hasSwipes, last, overlapped>>

\* The photograph is uploaded and the profile is on its way: the completion
\* dismisses the registration and calls didFinishLoggingIn.  It may run once
\* more: when the profile is written, if the controller is still there.
Register ==
    /\ modal = "registration"
    /\ session # Nobody
    /\ modal' = "none"
    /\ late' = TRUE
    /\ FetchCurrentUser(session)
    /\ UNCHANGED <<session, user, chain, swipeGets, queries, landed, hasSwipes, last>>

\* The callback of a controller that was left dismisses it once more; whether
\* UIKit runs what is to follow a dismissal that changes nothing is left open.
LateCallback ==
    /\ late
    /\ late' = FALSE
    /\ FetchCurrentUser(session)
    /\ UNCHANGED <<session, modal, user, chain, swipeGets, queries, landed, hasSwipes, last>>

\* The animation that hides the HUD is over.
HudGone ==
    /\ Hud!Gone
    /\ UNCHANGED <<session, modal, user, deck, chain, requests, counters, late,
                   hasSwipes, history>>

Callback ==
    \/ \E u \in Users : \/ ProfileArrives(u) \/ ProfileFails(u)
                        \/ SwipesArrive(u) \/ SwipesFail(u)
    \/ QueryReturns \/ QueryFails \/ LateCallback \/ HudGone

Touch ==
    \/ Refresh \/ Swipe \/ OpenSettings \/ CancelSettings \/ SaveSettings \/ Logout
    \/ \E u \in Users : Login(u) \/ CreateAccount(u)
    \/ Register

Next == Callback \/ Touch \/ Launch

Spec == Init /\ [][Next]_vars

\* Requests are answered and animations end.  Nothing forces what the user does, or a restart.
Fairness ==
    /\ \A u \in Users : /\ WF_vars(ProfileArrives(u) \/ ProfileFails(u))
                        /\ WF_vars(SwipesArrive(u) \/ SwipesFail(u))
    /\ WF_vars(QueryReturns \/ QueryFails)
    /\ WF_vars(HudGone)

FairSpec == Spec /\ Fairness

-----------------------------------------------------------------------------
(* Properties                                                              *)

\* "we are going to set up the nextcardview realationship for all cards"
\* (HomeController.swift 162): whenever the deck can be touched, the linked
\* list from topCardView runs through exactly its cards, front to back.
AllCardsLinked == Touchable => chain = deck

\* So it does as long as a fetch begins only when the one before it is over
\* and its HUD has gone.
DeckIsLinked == ~overlapped => AllCardsLinked

\* "use the id that we are swiping for" (HomeController.swift 223): the person
\* saved is the one whose card was in front.
SwipeSavesCardSeen == last.saved # Nobody => last.seen = last.saved

\* The deck can only be touched once a profile has been fetched: the match view
\* unwraps it (HomeController.swift 292, MatchView.swift 42), and the HUD is all
\* that holds the user back (HomeController.swift 84-105, 156).
ProfileBeforeTouch == Touchable => user # Nobody

\* Nobody meets their own card, unless they signed in after the deck was made:
\* a query that returns while nobody is signed in leaves nobody out, and login
\* does not fetch again (HomeController.swift 173-177).
OwnCardHidden ==
    session # Nobody /\ ~relogged => \A k \in DOMAIN deck : deck[k].who # session

\* A fetch for an account that has swiped before takes the HUD down, whatever
\* else the user starts meanwhile (HomeController.swift 84-156).
NoMoreLaunches == <>[][~Launch]_vars

FetchEnds ==
    NoMoreLaunches =>
        \A u \in Users :
            (session = u /\ u \in hasSwipes /\ profileGets[u] > 0)
                ~> (hud = "down" \/ session # u)
=============================================================================
