# Swiper: a verification project

Swiper is an iOS dating app (Swift, UIKit) on top of Firebase: people register,
edit a profile, swipe left or right on the cards of others, and are told of a
match when two people like each other. There is no server code: the phones read
and write Firestore documents directly, every step is a callback, and what is
correct depends on the order in which callbacks, touches, logins and restarts
happen. The repository has no tests. These modules state what the code should
do in all those orders, and check it.

## 1. Inventory

Paths are relative to `src/TinderClone/TinderClone/`.

| Part | Code | State | Operations |
|---|---|---|---|
| Home screen | `Controller/HomeController.swift`, `Views/CardView.swift` | profile (`user`), the cards in `cardDeckView`, the linked list `topCardView`/`nextCardView`, one HUD | launch, `fetchCurrentUser`, `fetchSwipes`, `fetchUsersFromFirestore`, refresh, swipe, settings |
| Swiping and matching | `HomeController.swift` 201-295 | chains of callbacks in flight; the collection `swipes` in Firestore | `saveSwipeToFirestore`, `checkIfMatchExists`, `presentMatchView` |
| Match view | `Views/MatchView.swift` | the person and the user shown | load both photographs, animate |
| Registration | `ViewModel/RegistrationViewModel.swift`, `Controller/RegistrationController.swift` | the form, the HUD | create account, upload image, write `users/uid` |
| Login | `Controller/Login/*` | the form, the HUD, a delegate | sign in |
| Settings and profile | `Controller/SettingsController.swift`, `Model/User.swift` | a copy of the profile | load, edit, upload, save, cancel, logout |
| Photographs | `ViewModel/CardViewModel.swift`, `Controller/User Details/*` | index, bars, pages | next, previous, swipe a page |
| Firestore SDK | `../Pods/FirebaseFirestore` (vendored) | a queue of writes per user and a cache, both on disk; callbacks, the pipeline and the write stream in memory | get, set, update, change of account, restart of the network |
| Image loading | `../Pods/SDWebImage` (vendored) | the load of an image view, a cache, failed URLs | set image, cancel |
| Progress HUD | `../Pods/JGProgressHUD` (vendored) | hidden, appearing, visible, disappearing; timers and blocks that wait | show, dismiss, each of them delayed |
| Layout, scene and app delegate, other Pods | | | not part of the program's logic |

How they interact: the home screen presents Registration (which pushes Login)
and Settings over itself, and they call it back through delegates
(`didFinishLoggingIn`, `didSaveSettings`). Everybody asks `Auth.auth().currentUser`
afresh in each callback, so a chain that one user began can be continued by
another. The phones meet only in Firestore.

What is hard, and what makes each part correct:

* **Swiping and matching.** Four asynchronous calls in a row, on two phones at
  once, cut short by errors, offline reads, logouts and restarts. Correct: a match
  view is true; a mutual like is noticed by the one who was second, or by both;
  the last verdict wins; no verdict erases another.
* **Home screen.** Fetches overlap, the HUD is the only lock, the list and the deck
  are two copies of one thing. Correct: the list is the deck; the verdict is saved
  for the card seen; no touch before the profile; the own card hidden; the HUD
  comes down.
* **Registration.** Four requests in a row that may each fail, a completion that is
  called twice, bindings that do not own their controller. Correct: the button
  follows the form; the profile written is that of the account created; nothing is
  called after its controller is freed; the HUD comes down. (A try that failed after
  the account was made cannot be repeated: `createUser` then finds the address taken,
  and the account stays signed in without a profile.)
* **Settings.** A copy of the profile that may not have arrived when it is saved,
  uploads that end late, Save and Cancel in reach under the HUD. Correct: saving
  changes only what the user edited; a profile names photographs that are there; the
  home screen's copy follows.
* **Progress HUD.** It is the only lock of every screen, and its calls meet its own
  animations and timers. Correct: a HUD that is up covers the screen; no dismiss is
  lost; nothing appears after a dismiss. (Not so: that the last of show and dismiss
  wins. A show during the fade of the one before is ignored.)
* **Writes.** Batches of several accounts, sent down a pipeline over a stream that
  breaks and restarts, answered by position. Correct: an answer reaches the callback
  of the write it is about, in order, once; nothing is skipped, stuck or, if it was
  sent twice, left wrong.
* **Photographs.** Index arithmetic; loads that end late. Correct: the index is that of
  a photograph, and the photograph shown is that of the white bar.

The hazards, each at its line, are in `PROJECT.json`.

## 2. Plan

In the order in which they were written:

1. `SwipeMatch`, `MCSwipeMatch`, `SwipeMatchProofs`;
2. `HomeDeck`, `MCHomeDeck`, `HomeDeckProofs`;
3. `Profile`, `MCProfile`: the document `users/uid`, the settings and the home
   screen's copy;
4. `Registration`, `MCRegistration`, `RegistrationProofs`: the form, the chain of an
   attempt to register, and the login page;
5. `PhotoPager`, `MCPhotoPager`, `PhotoPagerProofs`: the photographs of a card and of
   the details screen;
6. `HudFlag`, the abstract specification of a progress HUD; `ProgressHUD`,
   `MCProgressHUD`, `ProgressHUDProofs`: JGProgressHUD, which implements it. `HomeDeck`
   and `Registration` instantiate `HudFlag` for their HUDs;
7. `WriteQueue`, the abstract specification of a write of the app; `WritePipeline`,
   `MCWritePipeline`, `WritePipelineProofs`: the Firestore SDK's path of a write, which
   implements it;
8. `ProfileProofs`, and `LatestWins` in `SwipeMatchProofs`;
9. `WriteQueueProofs`: what the abstract queue promises, proved once and handed to
   `WritePipeline` by its refinement; the safety cores of the liveness properties; the
   matches of shared phones; the photographs of several accounts.

To come: the credentials of a stream. A change of account is posted on the main queue
(`FIRAuth.m` 1716), and so is the answer to a request for a token (`FIRAuth.m` 2179,
2188); the provider drops an answer that a change overtook, the stream one that a restart
overtook (`stream.cc` 149). `WritePipeline` takes from this that the token of a stream is
that of the account whose queue is open, which is read from the code and not checked.

`HomeDeck` takes from the other modules only outcomes: that a swipe may create the
user's document in `swipes` (`SwipeMatch`), that registering yields a session, that
settings are saved or not. `SwipeMatch` and `Profile` keep the queue of writes of an
account, sent in order and acknowledged or refused one by one, with acknowledgements
that may be lost: the promise of `WriteQueue` in their own words, which is not itself
shown as a refinement; `WritePipeline` shows where it comes from.
(Both let the right callback hear a refusal; see the finding `writes_rejected`.) `Profile` takes from `Registration` that an attempt whose
account and photograph are there writes one document and then calls back, and from
`HomeDeck` that some fetches of the profile begin. `SwipeMatch` takes from `HomeDeck` only that some card is
on top.

## 3. SwipeMatch

One swipe is a number `i`; `swipe[i]` says who swiped on which phone, on whom and how,
`stage[i]` how far its chain of callbacks has come:

| Stage | In the code |
|---|---|
| `get` | `getDocument` of `swipes/uid` is in flight (`HomeController.swift` 227) |
| `queued` | `updateData` or `setData(merge: true)` is in the SDK's queue (234, 247) |
| `orphan` | the same, after a restart: the callback is lost (`sync_engine.cc` 426) |
| `written` | the server acknowledged, the callback is about to run |
| `check` | `getDocument` of `swipes/cardUID` is in flight (268) |
| `answered`, `stale` | its answer, from the server or from the cache, awaits its callback (276) |
| `done`, `dropped` | over, as meant or early |

Each transition is an action; each `if let err` and `guard ... else { return }` of the
code is an action or a disjunct. `docs` and `swipes` are the collection on the
server, `cache` what a phone saw of other people's documents, `session` who is
signed in. `Overlay`/`LocalView` are the SDK's local view: unacknowledged writes of
the signed-in user over what is cached. `NextInQueue` sends one queue in order,
and only while its owner is signed in (`LocalStore::HandleUserChange`). `Swipe` lets
any card be on top at any time: what the deck does is `HomeDeck`'s subject.

Simplifications: the cached copy of the swiper's own document is not kept, the
answer to `get` (only whether the document exists) may be as old as the request or
as new as the callback; writes of one queue to *different* documents are not
ordered among each other, which is more than the SDK allows and only arises on a
shared phone; photographs and texts of the match view are left out.

## 4. HomeDeck

One phone. `deck` are the subviews of `cardDeckView` front to back (`sendSubviewToBack`
puts later cards behind), `chain` is `topCardView` and what follows it by
`nextCardView`. A card is a person and the number of the query that brought it: a
refresh makes new card views of the same people. `profileGets`, `swipeGets` and
`queries` count the requests in flight of the three fetch steps; none is ever
cancelled. `Touchable` is the only guard of the user's actions: nothing is presented
over the screen and the HUD is not up (its `hitTest` swallows touches; while it fades
they go through). The HUD is a `HudFlag`: `Hud!Show` and `Hud!Dismiss` are its calls,
`HudGone` the end of its fade, and a show before that does nothing. `overlapped` (a
fetch began while another was under way, or under a HUD that was fading), `relogged`
and `last` are history variables the properties speak of.

`FetchCurrentUser` and `StartQuery` are the shared beginnings of several handlers.
`Login` changes only the session, because the controller's delegate is nil.
Registering is two steps: `CreateAccount` signs in to the new account at once (the
user may then give up, or the upload fail), and `Register` is the completion that
dismisses the controller and calls `didFinishLoggingIn` while the profile is still
being written. `Launch` is a start or a restart of the app.

`late` says that a controller that was left may still call its delegate: a save that
was in flight when the settings were cancelled or logged out of, the second of two
saves, or the second completion of a registration (`RegistrationViewModel.swift` 98
and 120). `LateCallback` is that call. Whether UIKit runs the completion of a
dismissal that has nothing to dismiss is not in this repository: the action may
happen and is never forced.

Simplifications: a swiped card leaves the deck at once, in the code after the half
second of its animation; a feed is any of `Feeds` that does
not hold the user signed in at that moment; the details screen and the match view
(which cover the screen and change nothing here) are left out; at most one late call
is pending at a time; an account is not created any more once the registration was
left by way of the login screen; a sign-in that is answered after the login page was
left (`Registration` has it) would change the session under the home screen, and is
left out here.

## 5. Profile

Accounts that take turns on one phone (each account is on this phone only). There are
up to four copies of a profile: `docs[u]` on the server, the writes in `queue[u]` that
wait on disk, `form` (`SettingsController.user`) and `home` (`HomeController.user`).
`Missing` is a field that is not there, `Blank` the `""` or `-1` that `handleSave`
writes for it; `Read` and `Saved` are the two conversions, and `Registered` is the
document of a new account, whose field `"Age"` no reader asks for.

`Save`, `CancelSettings`, `Logout` and typing need only the settings in front: the HUD of a save or
an upload lies over the table, not over the navigation bar nor the keyboard. `Covered` is what it does
stop: sliders and the photograph buttons, so one upload is in flight at a time. A
write carries `caller`, whose callback waits for it: the settings in front, settings
that were left, the registration, or nobody (after a restart). `SaveEnds` is that
callback. `UploadFails` leaves the HUD (`stuck`) when `putData` fails, or when what
was picked is not an image.

`edited`, `spoiled` and `astray` are history variables that name the exceptions of the
properties: `spoiled`, a save was made before its copy had arrived, or a write was
refused after a later copy was made of it; `astray`, nothing made the home screen
fetch (a login, a failed read, a restarted app's write, a dismissal without its
completion).

Simplifications: photographs are numbers; texts are model values; a read is answered
with the local view of the moment in which its callback runs; the settings open as
soon as the home screen has a profile, whatever its HUD does; the fetch chain after
the profile is `HomeDeck`'s subject.

## 6. Registration

One phone. `filled` and `enabled` are the form and its button; `email` the address,
which stands for the account; `page` what is presented over the home screen: the form,
the login page, either of them on its way out (`closing`), or nothing (`gone`: the
controllers are freed). `stage[t]` is how far attempt `t` has come in

    createUser -> putData -> downloadURL -> setData
    creating      uploading  locating       writing

and `wrote[t]` the user whose document it writes, asked for when the URL arrives.
`PhotoLocated` is the whole callback of `downloadURL`: HUD down, write begun, and the
completion that dismisses the controller, all before the profile exists. `writing`
becomes `orphan` when the write is still waiting under another controller. `Report`
is `showHUDWithError`; its HUD goes after four seconds (`ErrorHudEnds`).

Everything the user can do needs `FormTouchable` or `LoginTouchable`: no HUD that is
up lies over the page. That is the only lock of this code, and what
`ProfileForNewAccount` and `UnownedAlive` rest on. `Logout` stands for all that happens
on the home screen until a new form is presented.

The login page has one HUD for all its sign-ins, a `HudFlag` (`loginHud`). After a
failed sign-in it fades, and the button is touched through it: a second sign-in is
then under way without a HUD, because its show was ignored. `signIns` are the sign-ins
in flight of the page in front, `strays` those of a page that was left, whose
completions keep the controller alive (`LoginController.swift` 71 captures it
strongly) and still sign in (`StrayAnswered`). `alone` is a history variable, the
attempts that began with no sign-in in flight: only of them `ProfileForNewAccount`
speaks, because a stray one can change who is signed in in the middle of an attempt.

The two HUDs of the form are flags here: they are shown once each, and the one that is
dismissed is followed by another over the same form, or by its end.

Simplifications: of the texts only whether they are empty, and the address; a
password is never wrong by itself (`LoginFails` may always happen); which account a
login names is any that exists.

## 7. PhotoPager

The photographs of one person, `0 .. Count - 1` as in the code; `Blanks` are the slots
saved as `""`, which have a bar and a page but no URL. `index` is
`CardViewModel.imageIndex`, `bar` the white bar, `image` what the one image view of the
card shows. A tap sets the index, whose observer (`ShowPhoto`) sets image and bar.
`SetImage` is SDWebImage's `sd_setImage`: it cancels the load before, shows the
placeholder, and sets the photograph at once when it is in memory. A load that ends
asks on the main queue whether it was cancelled, and sets the image in the same block
(`SDWebImageDownloaderOperation.m` 611, `SDWebImageManager.m` 399): `PhotoArrives`. The
details screen starts at the first page whatever the card shows; `target` is the page a
swipe goes to until `didFinishAnimating`.

`Count` is at least 1 because every profile has a photograph or a blank:
`CardNeverEmpty` of `Profile`.

Simplifications: one swipe of a page at a time; the pages have image views of their own
that load one photograph each, so nothing can be confused there.

## 8. HudFlag and ProgressHUD

`HudFlag` is the promise: `down`, `up`, and `going` after a dismiss was accepted until
the HUD is gone. `ProgressHUD` is one JGProgressHUD with the fade animation, the one the
app uses; everything runs on the main queue, so a call, the end of an animation and the
firing of a timer are one step each. `animation` is the animation whose completion is
still to come, which comes although the view under the HUD was freed meanwhile
(`ViewFreed`). `later` is the dismiss put off to the end of the show animation,
`timers` the delayed dismissals, by their mode and whether they have a block, `young`
that the minimum display time has not passed. `Covers` is what `hitTest` and UIKit make
of it: a view is not touched when it is hidden or its alpha is 0, and UIKit takes the
value at the end of an animation.

`asked`, `wanted`, `orphaned` and `faded` are history variables: a dismiss was
accepted; a show was asked for and no dismiss since; the view was freed while blocks
waited; the presentation was animated. The last is needed: `show(in:animated:)` without
animation does not set the alpha that a fade out has left at 0, so a HUD shown so after
it was once dismissed with animation is there, and neither seen nor felt. The app only
uses `show(in:)`, which is animated.

Simplifications: blocks run after a dismissal are counted and do not call the HUD;
labels, layout, the keyboard, VoiceOver and the delegate (which the app does not set)
are left out.

## 9. WriteQueue and WritePipeline

`WriteQueue`: the writes of an account wait in the order in which they were made, the
database applies them from the head on, once or more, they leave from the head, and
the callback hears "ok" of a write that was applied, or "error" of one that was
refused, or that was applied and taken for the one refused.

`WritePipeline` is the SDK:

| Variable | In the code |
|---|---|
| `queue[u]`, `nextId` | `LevelDbMutationQueue` of account `u`, on disk, and the `next_batch_id_` computed when it is opened |
| `callbacks[u]` | `SyncEngine::mutation_callbacks_`, by batch id |
| `pipeline` | `RemoteStore::write_pipeline_` |
| `stream`, `shaken`, `idle` | the write stream's `state_`, `handshake_complete_`, idle timer |
| `up`, `down`, `ended` | what is under way in the gRPC call, and how it has ended |
| `posted` | completions of gRPC on the worker queue: of the one Read outstanding, and of an operation that failed |
| `applied`, `value` | the server: what it has applied, and the last of it |

A step is one operation of the worker queue with every call it makes: a write of the
app fills the pipeline in the same step, a response notifies the callback, takes the
batch off the disk and refills. A response is matched with the front of the pipeline and
names no batch; the module lets it carry the batch it answers, for `ResponsesMatch`
alone. `Close` (`DropCall`) forgets the call with all that was under way in it.
`HandleCredentialChange` opens the queue of another account, or restarts the streams
for the same one. `AppRestarts` keeps the disk, and may fall between the callback and
the removal of the batch (`sync_engine.cc` 357 and 361).

Batch ids are given again when a queue is opened after it drained; the code never sees
the running number `write`, which is how the properties tell two batches of one id
apart.

What is assumed of the server: it takes the requests of a stream in order, answers each
it applies and ends the stream at one it refuses; it refuses a write by itself,
whenever it is sent (`bad`, chosen when it is made); it does not end a write stream
with status OK while writes wait (`remote_store.cc` 456 asserts that nobody does); it
does not apply a request of a stream that broke after one of the next stream. Of the
device: a transaction of leveldb is atomic, and the token of a stream is that of the
account whose queue is open.

Simplifications: `Open` and `Healthy` are one state, the delay of the backoff and what
resets it are left out, so is the empty request `TearDown` sends, the stream token, the
local views of documents, and the watch stream that shares the network's restarts.

## 10. Runs

| Run | Instance | Shows |
|---|---|---|
| `swipe_own` | 2 people, 2 phones, 2 swipes | `TypeOK`, `MatchMeansBothLiked`, `NoMissedMatch`; with fairness `MutualLikeIsTold` |
| `swipe_shared` | 3 people, 2 phones, one of them shared, 2 swipes | `MatchIsReciprocated`, `LatestSwipeWins`, `SwipesNeverErased` |
| `deck` | 3 people, 3 feeds, 4 fetches, failures | `TypeOK`, `DeckIsLinked`, `ProfileBeforeTouch`, `OwnCardHidden` |
| `deck_ends` | 2 people, 4 feeds, 3 fetches, no failures | with fairness `FetchEnds` |
| `deck_wrong_card` | 3 people, 3 feeds, 3 fetches | violates `SwipeSavesCardSeen`: a finding |
| `profile` | 1 account, 2 photographs, 2 waiting writes, 2 reads; one text field and one slot edited | `TypeOK`, `PhotosAreUploaded`, `CardNeverEmpty`, `SavesKeepTheRest` |
| `profile_two` | 2 accounts, no edits, 2 waiting writes each, 1 read each | `HomeIsCurrent` |
| `photos` | 3 slots, one of them blank | `TypeOK`, `PhotoOfBar`, `BarOfPage` |
| `registration` | 2 addresses, 2 attempts, 1 sign-in in flight | `TypeOK`, `ButtonMatchesForm`, `ProfileForNewAccount`, `UnownedAlive`, `HudMeansSignIn`; with fairness `RegistrationEnds`, `LoginEnds` |
| `hud` | one HUD, both modes to dismiss, both to show, 2 indicators, 1 timer of each kind before another, 1 block | `TypeOK`, `UpCovers`, `NoBlockLeft`, `ShownIfWanted`; the refinement `IsAFlag`, with its fairness |
| `writes` | 2 accounts, 5 writes, pipeline of 4, 1 change of account or token, 1 broken call, restart or token not got | `TypeOK`, `ResponsesMatch`, `CallbacksQueued`, `IdleOnlyWhenDrained`, `ServerCatchesUp`; the refinement `IsAWriteQueue`; with fairness `EventuallyDrained` |
| `writes_rejected` | 1 account, 4 writes | violates `RejectedIsTheProblem`: a finding |

Why the bounds are enough. A match takes two swipes, one from each side; two swipes
also suffice for two first writes of one document (`swipe_shared`: the third person
swipes on both others), and for a change of mind (`LatestSwipeWins`), with a first write
that is sent again before the second. All other steps are unbounded: any number of
failures, logins, logouts, restarts, lost acknowledgements and repeated writes.
`MaxFetches` bounds the fetches of one launch (relaunching starts anew): two may
overlap, a third begins while they return, and the fourth follows when all is over.
In `profile` two waiting writes are a save behind another (or behind that of the
registration), two photographs the one of the registration and one picked; the fields
are treated alike but for their conversions, so one text and one slot are edited, and
the others show what is kept. `photos` has as many slots as a profile and no other
bound. `profile_two` needs the second
account for what a read or a save of the first does after a logout. In `registration`
two attempts are one that fails and a repetition, which meets the account of the first
or asks for another; one sign-in in flight is enough to be the one of a page in front, a
stray one, or one under a HUD that is gone. In `hud` a timer of each of the four kinds
can be pending when another is set. In `writes` the pipeline holds four of five
batches, so that one has to wait for a slot (`kMaxPendingWrites` is 10: the proofs hold
for any size); a change of account and a trouble can each fall at any point of the
other's recovery. `writes_rejected` needs four batches in flight, no trouble and no
second account.

The findings:

* `deck_wrong_card`: `topCardView` outlives the deck it points into. `fetchCurrentUser`
  empties the deck but not the list, and what should cover the deck until the list is
  made anew does not always: the query of an earlier refresh returns, takes the HUD
  down and fills the deck; or the HUD of the last fetch is still fading when the next
  one begins, whose show is then ignored. The next swipe is saved for the person on a
  card that is gone, where a comment says "use the id that we are swiping for"
  (line 223).
* `writes_rejected`: a refused write can be mistaken for an applied one. The server
  applies some writes, refuses the next and ends the stream. When an operation of the
  client fails on the ended stream before the acknowledgements were all handled, the
  call is finished and those are dropped (`grpc_stream.cc` 231-252, 312-323). The
  error is then taken to be about the front of the pipeline (`remote_store.cc` 515),
  an applied write: its callback hears the error, and the refused one is sent again,
  until it is at the front. No write is lost or skipped (`IsAWriteQueue`), but for the
  app it means: `saveSwipeToFirestore` drops the match check of a swipe that was
  stored.

Met while modelling, and not kept as runs:

* "You and X have liked each other" (`MatchView.swift` 72) may be shown to a user who
  signed in, on a shared phone, while another user's check was in flight:
  `checkIfMatchExists` asks again who is signed in after its read. `MatchIsReciprocated`
  is what is true on a shared phone, `MatchMeansBothLiked` on one with one account.
* README.md (47) recommends logging in as a workaround. It ends behind the HUD:
  `LoginController.delegate` is never set, so after a launch without a session nothing
  is fetched.
* A comment in `User.swift` (58) says that only images the user has entered become
  card images. After the first save an account with one photograph has three:
  `handleSave` writes `""` for the others and `toCardViewModel` only leaves out nil.
* JGProgressHUD shown without animation after an animated dismissal stays transparent
  and lets touches through (`UpCovers` speaks of animated presentations only).

Known and not repeated as a property: an account that has never swiped has no
document in `swipes`, and `fetchSwipes` returns without taking the HUD down (the bug
README.md reports). `FetchEnds` therefore speaks of accounts that have swiped.

## 11. Fairness

`SwipeMatch`: callbacks run once their call has returned (the main queue is served),
the SDK keeps sending the queue of the signed-in user until the server accepts or
rejects (its write stream is restarted with backoff), and a one-shot read is
answered while the phone is online from time to time. No failure, restart, login or
swipe is ever forced. `MutualLikeIsTold` assumes in its statement that phones stay
signed in from some time on: the queue of a signed-out user is not sent. `HomeDeck`:
every request is answered, well or with an error; the user and the system that
restarts the app are not fair, and the liveness properties speak of behaviours in
which the app is relaunched only finitely often. `Registration`: the requests of an
attempt and the sign-in of the page in front are answered, the timer of the error HUD
fires and animations end; the user is not fair. `ProfileWritten` needs no fairness: the
HUD is down before. `ProgressHUD`: animations end, timers fire and time passes; nobody
has to call. That is what `HudFlag` promises in turn, `WF(Gone)`, and what `HomeDeck`
assumes of `HudGone`. `WritePipeline`: the worker queue runs what is posted to it and its
timers, a token comes or is refused, and the server takes the next request
(`WF(StreamStep \/ ServerStep)`); writes, changes of account and trouble are bounded and
never forced, so `EventuallyDrained` speaks of what happens once they have stopped. The
idle timer needs no fairness. `Profile` states safety only, and so does `PhotoPager`.

## 12. Proofs

TLAPS checks every theorem for any set of users, phones and cards, any number of
swipes, any feeds and any number of fetches, from the named assumptions of the
modules (`Nobody` is not a user; constants have their types; nobody is twice in a
feed).

`SwipeMatchProofs`:

* `TypeCorrect`: `TypeOK` is inductive by itself.
* `MatchesReciprocated`: an answer that holds a like was read from the server, from
  a cache or from the overlay, so a like by that person was made; a chain that has
  come past its write has been stored. The invariant says both of every stage, of
  `swipes`, `cache`, `answer` and `shown`.
* `SwipesKept`: `swipes` changes only in `Store`, in one place, by a write in a queue.
* `LatestWins`: the reads of one user on one phone end in the order of the swipes
  (`ReadsInOrder`), so writes enter the queue in that order, and once one is stored none
  before it is still to be sent (`WritesInOrder`), although a write may be stored twice.
* `MatchesHonest`, `ApartPairsNotMissed`: what remains true where phones are shared. A
  phone lays nothing over the document of an account it never had (`NoOverlay`), so what
  it reads of it was stored (`AnswersOK`, `MatchesOK`): a match told to the account that
  swiped, about somebody with no account on the phone, is two likes on the server. And
  of two people who never shared a phone (`Apart`) the invariant says what a check still
  in flight will find: of two stored likes, the one that reads later reads after both; a
  callback that meets another session ends as `dropped`, never as `done`.
* `MatchesMeanBothLiked` and `MutualLikesNotMissed` assume `OneAccount` (a phone has one
  account, which may be on several phones) because they are false without it. Then the
  user asked for in the callback is the swiper, and everybody is apart from everybody
  else: they are corollaries.
* `ChainsEnd`, `QuietMeansTold`: a step leaves each swipe where it is or closer to its
  end (`StepsLeft`), no write of somebody signed in is held up behind another account's
  (`QueueMoves`), and when nothing can move a mutual like was told, or one of its chains
  was cut short, is stranded in another account's queue, or waits for its account to
  sign in. Each of the exceptions is needed. That is `MutualLikeIsTold` but for the
  fairness that makes things quiet.

`HomeDeckProofs`: the inductive invariant `DeckInv` adds to the properties
`ProfileFirst` (before the first profile nothing is in flight but its own read, under
the HUD), `CardsDistinct` (needed so that removing the swiped card from the deck and
from the list is the same thing), and, while fetches do not overlap, `OneRequest` (the
three steps of a fetch follow each other) and `DeckFollows` (where deck and list stand
in each of them). `TypeCorrect`, `NoTouchWithoutProfile`, `DeckLinked` and
`NotMyOwnCard` follow from it. `HudUpMeansAtWork` is the state that `FetchEnds` leads out
of: under the conditions of that property, a HUD that is up has a request in flight
whose answer takes it down or makes the next one.

`RegistrationProofs`: the inductive invariant `RegInv` says why the HUD is a lock. An
attempt at work is the last one made (`LastAttempt`) and under the HUD, with the form
in front (`AttemptCovered`); so neither the login page nor a logout can
change who is signed in, which is the account of the attempt if no sign-in was in flight
when it began (`AttemptSignedIn`). `ButtonFollowsForm`, `ProfileOfItsAccount`,
`NothingOutlivesTheForm` and `LoginHudWaits` follow. `HudIsOneAttempt` does the same for
`RegistrationEnds`: while the HUD of the form is up, the last attempt, and no other, has
an answer to come.

`ProgressHUDProofs`: the inductive invariant `HInv` adds to the properties `Moving` (the
flag of a transition is up exactly while a completion is to come, also after the view
was freed) and `IconKept` (an indicator not drawn is remembered). From it `ShownCovers`,
`BlocksRun`, `IndicatorDrawn` and `MovesAsAFlag` (each step is a step of `HudFlag` or a
stutter) follow for any number of timers and blocks. `AppearsOnlyIfWanted` needs one more,
`DelayedIsWanted`: a show that waits for its delay is one that no dismiss has followed.

`WriteQueueProofs`: what anybody may rely on who writes through `WriteQueue`, whatever
implements it. Its invariant `Inv` says that a write is in one queue, in the order of
making, and that of those waiting only the first may have been answered (`Unheard`, by
an app that died before it took the write off the disk). From it nothing is lost
(`WritesAreKept`), answers are true and final (`AnswersAreTrue`, `AnswersAreFinal`), and
the database holds a prefix of what waits (`DatabaseHasPrefix`).

`WritePipelineProofs`: the whole of what `writes` checks but the fairness of its liveness, for any
accounts, any pipeline size and any bounds, the refinement `ImplementsWriteQueue`
among it. The inductive invariant:

* `IdsOK`, `QueuedOnce`: in a queue ids and writes grow, no two queues share one, ids are
  below `nextId`, writes at most `made`, and a callback belongs to a batch that is
  queued. (Ids are given again only when no queue holds them: `LoadNextBatchId`.)
* `PipelineOK`: the pipeline is the head of the open queue, as much as fits.
* `CallOK`: nothing is under way unless the stream is open, only a handshake before the
  handshake is done, and the idle timer is armed only with an empty pipeline.
* `AnswersOK`: after the handshake the responses answer the first batches of the
  pipeline, which are applied, and the requests under way are all the others; a refusal
  is about the first of those. So responses match although they name nothing.
* `AppliedOK`, `ServerCatchesUp`: what is applied was not refused and is still queued, or
  older than all that is; and if the last write applied is older than another one that
  was, the newer is in the queue and will be sent again.
* `NotTold`: a callback still registered has heard nothing, so answers come once.

Each operation of the pipeline is a lemma or two (`Refilled` keeps the head of a queue
when it is appended to, or loses its first; `NotifyUser` answers at most one write),
on sequences and without recursion.

The theorems of `WriteQueueProofs` are then instantiated under the refinement
(`Promise`), and translated back to the SDK's own state: `NoWriteIsLost`,
`CallbacksHearTheTruth`, `ServerTakesPrefix`, `AnswersStand`, and, with
`ServerCatchesUp`, `DrainedServerIsCurrent`. None of them is proved about the pipeline
itself.

`EventuallyDrained` is proved up to its fairness. `QueueNeverStuck`: while the open queue
holds a write, the stream is being opened, or a request, a response or a failure is to be
handled (`StreamOK` is what keeps it so: the stream of a pipeline that holds something is
starting, open or backing off, an open one has its handshake under way until it is shaken,
and a failure that is posted is one of a call that has ended). `EveryStepDescends`: a step that spends no bounded
trouble (a write, a change of account, a break) lowers the triple of the length of the
queue, the state of the call (`CallRank`) and the messages in transit (`Transit`), in
lexicographic order. Both were first checked by TLC. What TLC alone shows is that
fairness takes those steps.

`ProfileProofs`: all that `profile` and `profile_two` check, for any accounts, texts, ages and
bounds. The inductive invariant `PInv`:

* `SettingsInFront`: only settings in front hold a copy or an upload, and somebody is
  signed in then.
* `CopiesGood`: the photographs that are uploaded can be shared out, an album for each
  account and none in two albums, so that every copy of an account's profile (on the
  server, in a waiting write, in the form, on the home screen) takes its photographs
  from that account's album and has at least one or a blank. A new photograph joins the
  album of the account that is signed in when its upload ends, which is the one that
  picked it because leaving the settings forgets the upload. `PhotosUploaded`,
  `CardsNeverEmpty` and `PhotosStayApart` (nobody's photographs in another's profile)
  are what it says.
* `WritesKeep`: the first write of a queue keeps the rest of the document, and each of the
  others the rest of the write before it; `FormKeeps`: so would a save now keep the rest of
  the last of them. A write is made from what the SDK showed when the profile was read,
  which is the last write that waits, so the chain is never broken until a write is
  refused or made blind. `SavesKeep` is its first link.
* `HomeFollows`: the home screen has the last write of its user, or a read is in flight, or
  the last write will begin one when it is acknowledged. `HomeCurrent` is the case in
  which nothing is under way.

`PhotoPagerProofs`: the invariant adds `OneLoad` (under a bar that has a photograph only
that photograph is on its way), which is what cancelling gives. `TypeCorrect`,
`PhotoMatchesBar` and `PageMatchesBar` hold for any number of photographs.

Only model-checked is what is out of the prover's reach, liveness under fairness:
`MutualLikeIsTold`, `FetchEnds`, `RegistrationEnds`, `LoginEnds`, `EventuallyDrained` and
the fairness of `HudFlag` in `IsAFlag`. The theorems named above for four of them say
that the system is not stuck short of what they promise; `LoginHudWaits` says it of
`LoginEnds`.

## 13. Not modelled

Layout and drawing; downloading and decoding of photographs; Firebase Auth beyond who
is signed in; security rules of Firestore, whose refusals are possible everywhere; the
bio field of the settings, which nothing reads.

Of the Firestore SDK: the watch stream and its targets, limbo resolution, queries and
views, indexes, bundles, transactions (the app uses none) and garbage collection. The
app reads each document once, which `SwipeMatch` and `Profile` take as a request with an
answer from the server or the cache.

The rest of the vendored code (gRPC, BoringSSL, abseil, leveldb, nanopb, other parts of
Firebase and SDWebImage, about 680,000 lines of C, C++ and Objective-C) is third-party
code below the interfaces named above: what is modelled of it is what the app's own
3,200 lines of Swift rest on, the HUD, the image view's loads and the path of a write. It is
not this program's logic, and models of a TLS library or of an HTTP/2 transport would
say nothing about it.
