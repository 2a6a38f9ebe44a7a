------------------------------- MODULE Profile -------------------------------
(***************************************************************************)
(* The profile of an account on the one phone that uses it: the document   *)
(* users/uid that registration creates and the settings save as a whole    *)
(* (SettingsController.swift), the copy of it that the settings edit, and  *)
(* the copy the home screen keeps (HomeController.user).                   *)
(*                                                                         *)
(* A write waits in the queue of its user, on disk, until the server       *)
(* acknowledges it; a read sees the last write that waits.  Settings can   *)
(* be left while a read, an upload or a save is under way.                 *)
(***************************************************************************)
EXTENDS Integers, SequencesExt

CONSTANTS
    Users,      \* accounts
    Nobody,     \* Auth.auth().currentUser == nil
    None,       \* no document, or no copy of one
    Missing,    \* nil: a field that is not in the document
    Blank,      \* what handleSave writes for nil: "" or -1
    Texts,      \* what may be typed for a name or a profession
    Ages,       \* what may be typed for an age, or set with a slider
    Youngest,   \* defaultMinSeekingAge
    Typed,      \* bound: the fields that are ever typed in
    Picked,     \* bound: the slots that a photograph is ever picked for
    MaxPhotos,  \* bound: photographs chosen
    MaxWrites,  \* bound: writes waiting in one queue
    MaxGets     \* bound: reads of one profile in flight for the home screen

ASSUME UsersAssumption == Nobody \notin Users
ASSUME ValuesAssumption ==
    /\ Youngest \in Ages
    /\ Missing # Blank /\ {Missing, Blank} \cap (Texts \cup Ages \cup (1..MaxPhotos)) = {}
ASSUME BoundsAssumption ==
    MaxPhotos \in Nat /\ MaxWrites \in Nat \ {0} /\ MaxGets \in Nat \ {0}

Slots    == {"imageUrl1", "imageUrl2", "imageUrl3"}
Sliders  == {"minSeekingAge", "maxSeekingAge"}
Fields   == {"fullname", "proffession", "age"} \cup Sliders \cup Slots
Photos   == 1..MaxPhotos
Values   == {Missing, Blank} \cup Texts \cup Ages \cup Photos
Profiles == [Fields -> Values]
Sessions == Users \cup {Nobody}

ASSUME NoneAssumption == None \notin Profiles
ASSUME EditsAssumption == Typed \subseteq Fields \ Slots /\ Picked \subseteq Slots

VARIABLES
    session,   \* Auth.auth().currentUser
    screen,    \* the controller in front
    docs,      \* the collection "users" on the server
    queue,     \* queue[u]: u's writes that the server has not acknowledged
    home,      \* HomeController.user, and whose profile it is
    homeGets,  \* homeGets[u]: reads of users/u for the home screen in flight
    form,      \* SettingsController.user
    loading,   \* whether the settings' read is in flight
    upload,    \* the photograph being uploaded, and its slot
    stuck,     \* whether the HUD of an upload was left over the settings
    photos,    \* photographs chosen so far
    uploaded,  \* those whose upload is complete
    edited,    \* history: fields edited since the settings were loaded
    spoiled,   \* history: a write was refused, or made before there was a copy
    astray     \* history: something no fetch of the home screen followed

settings == <<form, loading, upload, stuck, edited>>
storage  == <<photos, uploaded>>
history  == <<spoiled, astray>>
vars == <<session, screen, docs, queue, home, homeGets, settings, storage, history>>

NoUpload == [slot |-> "none", photo |-> 0]
Unknown  == [who |-> Nobody, data |-> None]

\* A write of u's document, and whose callback waits for it: the settings on
\* the screen, settings that were left, the registration, or nobody any more.
Writes == [data : Profiles, edited : SUBSET Fields,
           caller : {"settings", "left", "registration", "lost"}]

TypeOK ==
    /\ session \in Sessions
    /\ screen \in {"registration", "home", "settings"}
    /\ \A u \in Users : docs[u] = None \/ docs[u] \in Profiles
    /\ \A u \in Users : queue[u] \in Seq(Writes) /\ Len(queue[u]) <= MaxWrites
    /\ home = Unknown \/ home \in [who : Users, data : Profiles]
    /\ homeGets \in [Users -> 0..MaxGets]
    /\ form = None \/ form \in Profiles
    /\ upload = NoUpload \/ upload \in [slot : Slots, photo : Photos]
    /\ photos \in 0..MaxPhotos
    /\ uploaded \subseteq 1..photos
    /\ edited \subseteq Fields
    /\ {loading, stuck, spoiled, astray} \subseteq BOOLEAN

-----------------------------------------------------------------------------
(* Documents and copies of them                                            *)

\* Mutant: a field the settings save but User.init does not read.
ReadNoProfession(doc) == [doc EXCEPT !["proffession"] = Missing]

\* User.init: a document without a name gives an empty one.
Read(doc) == [doc EXCEPT !["fullname"] = IF @ = Missing THEN Blank ELSE @]

\* Mutant: nil is left out of the document.
SavedAsIs(copy) == [f \in Fields |-> IF copy = None THEN Missing ELSE copy[f]]

\* The document that handleSave writes.
Saved(copy) ==
    [f \in Fields |-> IF copy = None THEN Blank
                      ELSE IF copy[f] = Missing THEN Blank ELSE copy[f]]

\* The document that registration writes.  It has a field "Age", which nobody
\* reads, and none called "age".
Registered(name, photo) ==
    [f \in Fields |-> CASE f = "fullname"  -> name
                        [] f = "imageUrl1" -> photo
                        [] f \in Sliders   -> Youngest
                        [] OTHER           -> Missing]

\* The photographs of a card: those of the copy that are not nil.
CardPhotos(copy) == {copy[s] : s \in Slots} \ {Missing}

\* users/u as the SDK sees it: the last write of the signed-in user that waits.
LocalView(u) ==
    IF u = session /\ queue[u] # <<>> THEN Last(queue[u]).data ELSE docs[u]

\* The callback of every write of q is called by its controller no more.
LeftBy(q, callers, caller) ==
    [k \in DOMAIN q |-> IF q[k].caller \in callers THEN [q[k] EXCEPT !.caller = caller]
                        ELSE q[k]]

-----------------------------------------------------------------------------
\* The app is installed; nobody has an account yet.
Init ==
    /\ session = Nobody
    /\ screen = "registration"
    /\ docs = [u \in Users |-> None]
    /\ queue = [u \in Users |-> <<>>]
    /\ home = Unknown
    /\ homeGets = [u \in Users |-> 0]
    /\ form = None /\ upload = NoUpload /\ edited = {}
    /\ loading = FALSE /\ stuck = FALSE
    /\ photos = 0 /\ uploaded = {}
    /\ spoiled = FALSE /\ astray = FALSE

\* The app is killed and started again: the queues are on disk.
Launch ==
    /\ screen' = IF session = Nobody THEN "registration" ELSE "home"
    /\ queue' = [u \in Users |-> LeftBy(queue[u], {"settings", "left", "registration"}, "lost")]
    /\ home' = Unknown
    /\ homeGets' = [u \in Users |-> IF u = session THEN 1 ELSE 0]
    /\ form' = None /\ upload' = NoUpload /\ edited' = {}
    /\ loading' = FALSE /\ stuck' = FALSE
    /\ astray' = FALSE
    /\ UNCHANGED <<session, docs, storage, spoiled>>

\* HomeController.fetchCurrentUser.
FetchHome(u) ==
    /\ homeGets[u] < MaxGets
    /\ homeGets' = [homeGets EXCEPT ![u] = @ + 1]

\* Mutant: the callback of a failed read runs although no read is in flight.
HomeFailsAgain(u) ==
    /\ homeGets' = [homeGets EXCEPT ![u] = @ - 1]
    /\ astray' = TRUE
    /\ UNCHANGED <<session, screen, docs, queue, home, settings, storage, spoiled>>

\* The read of the home screen fails, or finds no document.
HomeFails(u) ==
    /\ homeGets[u] > 0
    /\ homeGets' = [homeGets EXCEPT ![u] = @ - 1]
    /\ astray' = TRUE
    /\ UNCHANGED <<session, screen, docs, queue, home, settings, storage, spoiled>>

\* It is answered.  It may be the profile of somebody who has signed out.
HomeArrives(u) ==
    /\ homeGets[u] > 0
    /\ LocalView(u) # None
    /\ homeGets' = [homeGets EXCEPT ![u] = @ - 1]
    /\ home' = [who |-> u, data |-> Read(LocalView(u))]
    /\ astray' = (u # session)
    /\ UNCHANGED <<session, screen, docs, queue, settings, storage, spoiled>>

\* RegistrationController and RegistrationViewModel, up to the write of the
\* profile: the account is there and signed in to, the photograph uploaded.
Register(u) ==
    /\ screen = "registration"
    /\ docs[u] = None /\ queue[u] = <<>>
    /\ photos < MaxPhotos
    /\ session' = u
    /\ screen' = "home"
    /\ photos' = photos + 1
    /\ uploaded' = uploaded \cup {photos + 1}
    /\ \E name \in Texts :
          queue' = [queue EXCEPT ![u] =
                       Append(@, [data |-> Registered(name, photos + 1),
                                  edited |-> Fields, caller |-> "registration"])]
    /\ FetchHome(u)
    /\ UNCHANGED <<docs, home, settings, history>>

\* LoginController: the home screen is not told.
Login(u) ==
    /\ screen = "registration"
    /\ docs[u] # None \/ queue[u] # <<>>
    /\ session' = u
    /\ screen' = "home"
    /\ astray' = TRUE
    /\ UNCHANGED <<docs, queue, home, homeGets, settings, storage, spoiled>>

-----------------------------------------------------------------------------
(* The settings                                                            *)

\* handleSettings and viewDidLoad: the profile is read again.
OpenSettings ==
    /\ screen = "home"
    /\ session # Nobody
    /\ home # Unknown
    /\ screen' = "settings"
    /\ form' = None /\ upload' = NoUpload /\ edited' = {}
    /\ loading' = TRUE /\ stuck' = FALSE
    /\ UNCHANGED <<session, docs, queue, home, homeGets, storage, history>>

FormArrives ==
    /\ loading
    /\ LocalView(session) # None
    /\ loading' = FALSE
    /\ form' = Read(LocalView(session))
    /\ UNCHANGED <<session, screen, docs, queue, home, homeGets, upload, stuck, edited,
                   storage, history>>

FormFails ==
    /\ loading
    /\ loading' = FALSE
    /\ UNCHANGED <<session, screen, docs, queue, home, homeGets, form, upload, stuck,
                   edited, storage, history>>

\* The HUD of an upload or of a save lies over the table, not over the
\* navigation bar nor the keyboard.
Covered ==
    \/ stuck
    \/ upload # NoUpload
    \/ \E k \in DOMAIN queue[session] : queue[session][k].caller = "settings"

\* What the text field or slider of f may hand to its handler.
Inputs(f) ==
    CASE f = "age"      -> Ages \cup {Missing}
      [] f \in Sliders  -> Ages
      [] OTHER          -> Texts \cup {Blank}

\* handleNameChange, handleProff, handleAge, handleMinAgeChange and
\* handleMaxAgeChange: without a profile they change nothing.
Edit(f) ==
    /\ screen = "settings"
    /\ form # None
    /\ f \in Sliders => ~Covered
    /\ \E value \in Inputs(f) : form' = [form EXCEPT ![f] = value]
    /\ edited' = edited \cup {f}
    /\ UNCHANGED <<session, screen, docs, queue, home, homeGets, loading, upload, stuck,
                   storage, history>>

\* Mutant: the field is set before the photograph is uploaded.
PickPhotoAtOnce(slot) ==
    /\ screen = "settings"
    /\ ~Covered
    /\ photos < MaxPhotos
    /\ photos' = photos + 1
    /\ upload' = [slot |-> slot, photo |-> photos + 1]
    /\ form' = IF form = None THEN None ELSE [form EXCEPT ![slot] = photos + 1]
    /\ UNCHANGED <<session, screen, docs, queue, home, homeGets, loading, stuck, edited,
                   uploaded, history>>

\* A photograph is picked for a slot and its upload begins.
PickPhoto(slot) ==
    /\ screen = "settings"
    /\ ~Covered
    /\ photos < MaxPhotos
    /\ photos' = photos + 1
    /\ upload' = [slot |-> slot, photo |-> photos + 1]
    /\ UNCHANGED <<session, screen, docs, queue, home, homeGets, form, loading, stuck, edited,
                   uploaded, history>>

\* The photograph is stored and its URL known: it goes into the profile, if
\* there is one.
UploadEnds ==
    /\ upload # NoUpload
    /\ upload' = NoUpload
    /\ uploaded' = uploaded \cup {upload.photo}
    /\ IF form = None
       THEN UNCHANGED <<form, edited>>
       ELSE /\ form' = [form EXCEPT ![upload.slot] = upload.photo]
            /\ edited' = edited \cup {upload.slot}
    /\ UNCHANGED <<session, screen, docs, queue, home, homeGets, loading, stuck, photos, history>>

\* Only an error of the second step, the URL, takes the HUD down.
UploadFails ==
    /\ upload # NoUpload
    /\ upload' = NoUpload
    /\ stuck' \in BOOLEAN
    /\ UNCHANGED <<session, screen, docs, queue, home, homeGets, form, loading, edited,
                   storage, history>>

\* handleSave: what was edited, and what was not, in one document.
Save ==
    /\ screen = "settings"
    /\ Len(queue[session]) < MaxWrites
    /\ queue' = [queue EXCEPT ![session] =
                    Append(@, [data |-> Saved(form), edited |-> edited, caller |-> "settings"])]
    /\ spoiled' = (spoiled \/ form = None)
    /\ UNCHANGED <<session, screen, docs, home, homeGets, settings, storage, astray>>

\* The settings' controller is dismissed.
Leave ==
    /\ form' = None /\ upload' = NoUpload /\ edited' = {}
    /\ loading' = FALSE /\ stuck' = FALSE

CancelSettings ==
    /\ screen = "settings"
    /\ screen' = "home"
    /\ Leave
    /\ queue' = [queue EXCEPT ![session] = LeftBy(@, {"settings"}, "left")]
    /\ UNCHANGED <<session, docs, home, homeGets, storage, history>>

Logout ==
    /\ screen = "settings"
    /\ session' = Nobody
    /\ screen' = "registration"
    /\ Leave
    /\ queue' = [queue EXCEPT ![session] = LeftBy(@, {"settings"}, "left")]
    /\ UNCHANGED <<docs, home, homeGets, storage, history>>

-----------------------------------------------------------------------------
(* Answers to writes                                                       *)

\* Mutant: the settings are closed, the home screen is not told.
SaveEndsSilently(u, caller) ==
    /\ IF caller = "settings" THEN screen' = "home" /\ Leave
                              ELSE UNCHANGED <<screen, settings>>
    /\ UNCHANGED <<homeGets, astray>>

\* The callback of an acknowledged write.  The settings on the screen are
\* dismissed and the home screen fetches.  For a controller that is dismissed
\* already, UIKit may or may not run the completion that fetches.
SaveEnds(u, caller) ==
    \/ /\ caller = "settings"
       /\ screen' = "home"
       /\ Leave
       /\ FetchHome(u)
       /\ UNCHANGED astray
    \/ /\ caller \in {"left", "registration"}
       /\ FetchHome(u)
       /\ UNCHANGED <<screen, settings, astray>>
    \/ /\ caller \in {"left", "registration"}
       /\ astray' = TRUE
       /\ UNCHANGED <<screen, settings, homeGets>>
    \/ /\ caller = "lost"
       /\ UNCHANGED <<screen, settings, homeGets, astray>>

\* The server applies the oldest write of the signed-in user: the document is
\* replaced (merge is false).
WriteAcknowledged(u) ==
    /\ session = u
    /\ queue[u] # <<>>
    /\ LET write == Head(queue[u])
       IN  /\ docs' = [docs EXCEPT ![u] = write.data]
           /\ queue' = [queue EXCEPT ![u] =
                           IF write.caller = "settings" THEN LeftBy(Tail(@), {"settings"}, "left")
                           ELSE Tail(@)]
           /\ SaveEnds(u, write.caller)
    /\ UNCHANGED <<session, home, storage, spoiled>>

\* It refuses it: the callback takes the HUD down.
WriteRefused(u) ==
    /\ session = u
    /\ queue[u] # <<>>
    /\ queue' = [queue EXCEPT ![u] = Tail(@)]
    /\ spoiled' = TRUE
    /\ astray' = TRUE
    /\ UNCHANGED <<session, screen, docs, home, homeGets, settings, storage>>

Next ==
    \/ \E u \in Users : \/ HomeArrives(u) \/ HomeFails(u) \/ Register(u) \/ Login(u)
                        \/ WriteAcknowledged(u) \/ WriteRefused(u)
    \/ \E f \in Typed : Edit(f)
    \/ \E s \in Picked : PickPhoto(s)
    \/ OpenSettings \/ FormArrives \/ FormFails \/ UploadEnds \/ UploadFails
    \/ Save \/ CancelSettings \/ Logout \/ Launch

Spec == Init /\ [][Next]_vars

-----------------------------------------------------------------------------
(* Properties                                                              *)

Copies == {docs[u] : u \in Users} \cup {form, home.data}
            \cup UNION {{w.data : w \in Range(queue[u])} : u \in Users}

\* A profile names a photograph only when its upload is complete, whatever is
\* saved or left during the upload (SettingsController.swift 418-448).
PhotosAreUploaded ==
    \A copy \in Copies \ {None} : CardPhotos(copy) \cap Photos \subseteq uploaded

\* Every card has a photograph, or a blank in its place: without one a tap on it
\* and the details screen would trap (CardViewModel.swift 29, 39,
\* SwippingPhotosController.swift 20).  A save before there is a copy keeps this.
CardNeverEmpty == \A copy \in Copies \ {None} : CardPhotos(copy) # {}

\* Saving writes the whole document, and yet changes no field that was neither
\* edited nor missing: unless a save came before the profile to be edited, or a
\* write was refused after a later copy had been made of it
\* (SettingsController.swift 345-363).
SavesKeepTheRest ==
    [][ \A u \in Users :
          (docs[u] # None /\ docs'[u] # docs[u] /\ ~spoiled) =>
              \A f \in Fields : \/ docs'[u][f] = docs[u][f]
                                \/ docs[u][f] = Missing
                                \/ f \in Head(queue[u]).edited ]_vars

\* When nothing is under way, the home screen has the profile of the user signed
\* in as the server has it: its ages are those asked for, its photograph is that
\* of the match view (HomeController.swift 99, 144-145, 293).
HomeIsCurrent ==
    ( /\ session # Nobody
      /\ ~astray
      /\ \A u \in Users : homeGets[u] = 0
      /\ queue[session] = <<>> )
    => home.who = session /\ home.data = Read(docs[session])
=============================================================================
