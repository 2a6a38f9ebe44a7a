---------------------------- MODULE Registration ----------------------------
(***************************************************************************)
(* Signing up and signing in on one phone: RegistrationController with its *)
(* view model, and the LoginController it pushes.                          *)
(*                                                                         *)
(* An attempt to register is a chain of four requests                      *)
(*     createUser -> putData -> downloadURL -> setData                     *)
(* whose callbacks use the controller (unowned in its bindings, weak in    *)
(* its completion) and ask afresh who is signed in.  What keeps the user   *)
(* from doing anything else meanwhile is the HUD over the form.            *)
(*                                                                         *)
(* Under the login page the same holds, except that its one HUD is shown   *)
(* anew: while it fades after a failure (HudFlag's "going") the show of a  *)
(* second try is ignored, and the page stays open to touches.              *)
(***************************************************************************)
EXTENDS Integers

CONSTANTS
    Users,      \* accounts: one for each email address
    Nobody,     \* Auth.auth().currentUser == nil, or no email typed
    MaxTries,   \* bound: attempts to register
    MaxSignIns  \* bound: sign-ins in flight

ASSUME NobodyAssumption == Nobody \notin Users
ASSUME MaxTriesAssumption == MaxTries \in Nat \ {0}
ASSUME MaxSignInsAssumption == MaxSignIns \in Nat

Sessions == Users \cup {Nobody}
Tries    == 1..MaxTries
FormFields  == {"fullName", "email", "password", "image"}
LoginFields == {"email", "password"}

(***************************************************************************)
(* How far an attempt has come.                                            *)
(*   creating, uploading, locating   createUser, putData, downloadURL      *)
(*   writing                         setData, its callback is waiting      *)
(*   orphan                          setData, the controller is another    *)
(*   done, failed                    over                                  *)
(***************************************************************************)
Stages   == {"idle", "creating", "uploading", "locating", "writing", "orphan", "done", "failed"}
Unowned  == {"creating", "uploading", "locating"}

VARIABLES
    session,      \* Auth.auth().currentUser
    accounts,     \* the accounts that exist
    profiles,     \* the users that have a document in "users"
    page,         \* what is presented over the home screen
    email,        \* the address in the form
    filled,       \* the fields of the form that are not empty
    enabled,      \* whether the register button is enabled
    hud,          \* registeringHUD
    errorHud,     \* the HUD of an error, for four seconds
    loginFilled,  \* the fields of the login form that are not empty
    loginHud,     \* loginHUD of the login page, a phase of HudFlag
    signIns,      \* the sign-ins of the login page that are in flight
    strays,       \* those of pages that were left
    made,         \* attempts made
    stage,        \* stage[t]: how far attempt t has come
    alone,        \* the attempts begun with no sign-in in flight
    asked,        \* asked[t]: the account it is to create
    wrote         \* wrote[t]: the user whose profile it wrote

accountVars == <<session, accounts, profiles>>
formVars    == <<email, filled, enabled>>
loginVars   == <<loginFilled, loginHud, signIns, strays>>
attempts    == <<made, stage, alone, asked, wrote>>
vars == <<accountVars, page, formVars, hud, errorHud, loginVars, attempts>>

Login == INSTANCE HudFlag WITH phase <- loginHud

TypeOK ==
    /\ session \in Sessions
    /\ accounts \subseteq Users
    /\ profiles \subseteq accounts
    /\ page \in {"form", "login", "closing", "gone"}
    /\ email \in Sessions
    /\ filled \subseteq FormFields
    /\ loginFilled \subseteq LoginFields
    /\ {enabled, hud, errorHud} \subseteq BOOLEAN
    /\ loginHud \in Login!Phases
    /\ signIns \in Nat /\ strays \in Nat /\ signIns + strays <= MaxSignIns
    /\ made \in 0..MaxTries
    /\ stage \in [Tries -> Stages] /\ alone \subseteq Tries
    /\ asked \in [Tries -> Sessions]
    /\ wrote \in [Tries -> Sessions]

\* A new RegistrationController, or none.
EmptyForm ==
    /\ email' = Nobody /\ filled' = {} /\ enabled' = FALSE
    /\ hud' = FALSE /\ errorHud' = FALSE
    /\ loginFilled' = {} /\ loginHud' = "down" /\ signIns' = 0

\* Nobody is signed in; some accounts, with profiles, may exist.
Init ==
    /\ session = Nobody
    /\ accounts \in SUBSET Users
    /\ profiles = accounts
    /\ page = "form"
    /\ email = Nobody /\ filled = {} /\ enabled = FALSE
    /\ hud = FALSE /\ errorHud = FALSE
    /\ loginFilled = {} /\ Login!Init /\ signIns = 0 /\ strays = 0
    /\ made = 0 /\ alone = {}
    /\ stage = [t \in Tries |-> "idle"]
    /\ asked = [t \in Tries |-> Nobody]
    /\ wrote = [t \in Tries |-> Nobody]

-----------------------------------------------------------------------------
(* The form                                                                *)

\* The form can be touched: no HUD lies over it.
FormTouchable == page = "form" /\ ~hud /\ ~errorHud

\* checkFormValidity, and the binding that enables the button.
CheckFormValidity == enabled' = (filled' = FormFields)

\* handleTextChange: a text is typed into f, or cleared.
TypeText(f) ==
    /\ FormTouchable
    /\ \/ filled' = filled \cup {f}
       \/ filled' = filled \ {f}
    /\ email' \in IF f # "email" THEN {email}
                  ELSE IF f \in filled' THEN Users ELSE {Nobody}
    /\ CheckFormValidity
    /\ UNCHANGED <<accountVars, page, hud, errorHud, loginVars, attempts>>

\* Mutant: picking an image does not check the form.
PickImageUnchecked ==
    /\ FormTouchable
    /\ \/ filled' = filled \cup {"image"}
       \/ filled' = filled \ {"image"}
    /\ UNCHANGED <<accountVars, page, email, enabled, hud, errorHud, loginVars, attempts>>

\* The image picker returns an image, or something that is not one.
PickImage ==
    /\ FormTouchable
    /\ \/ filled' = filled \cup {"image"}
       \/ filled' = filled \ {"image"}
    /\ CheckFormValidity
    /\ UNCHANGED <<accountVars, page, email, hud, errorHud, loginVars, attempts>>

\* handleTapButton and performRegistration: HUD up, createUser is called.
TapRegister ==
    /\ FormTouchable
    /\ enabled
    /\ made < MaxTries
    /\ made' = made + 1
    /\ stage' = [stage EXCEPT ![made + 1] = "creating"]
    /\ asked' = [asked EXCEPT ![made + 1] = email]
    /\ alone' = IF strays = 0 THEN alone \cup {made + 1} ELSE alone
    /\ hud' = TRUE
    /\ UNCHANGED <<accountVars, page, formVars, errorHud, loginVars, wrote>>

-----------------------------------------------------------------------------
(* The chain of an attempt                                                 *)

\* completion(err): while the controller is there, an error HUD takes the
\* place of the other.
Report == IF page = "gone" THEN UNCHANGED <<hud, errorHud>>
                           ELSE hud' = FALSE /\ errorHud' = TRUE

\* Mutant: the HUD goes when the account is there.
AccountCreatedOpenly(t) ==
    /\ stage[t] = "creating"
    /\ asked[t] \notin accounts
    /\ accounts' = accounts \cup {asked[t]}
    /\ session' = asked[t]
    /\ stage' = [stage EXCEPT ![t] = "uploading"]
    /\ hud' = FALSE
    /\ UNCHANGED <<profiles, page, formVars, errorHud, loginVars, made, alone, asked, wrote>>

\* createUser succeeds, and signs in; the photograph is sent.
AccountCreated(t) ==
    /\ stage[t] = "creating"
    /\ asked[t] \notin accounts
    /\ accounts' = accounts \cup {asked[t]}
    /\ session' = asked[t]
    /\ stage' = [stage EXCEPT ![t] = "uploading"]
    /\ UNCHANGED <<profiles, page, formVars, hud, errorHud, loginVars, made, alone, asked, wrote>>

\* Mutant: a failed request is not reported.
RequestFailsSilently(t) ==
    /\ stage[t] \in Unowned
    /\ stage' = [stage EXCEPT ![t] = "failed"]
    /\ UNCHANGED <<accountVars, page, formVars, hud, errorHud, loginVars, made, alone, asked, wrote>>

\* createUser (when the address is taken, always), putData or downloadURL fail.
\* The account stays, and stays signed in.
RequestFails(t) ==
    /\ stage[t] \in Unowned
    /\ stage' = [stage EXCEPT ![t] = "failed"]
    /\ Report
    /\ UNCHANGED <<accountVars, page, formVars, loginVars, made, alone, asked, wrote>>

PhotoStored(t) ==
    /\ stage[t] = "uploading"
    /\ stage' = [stage EXCEPT ![t] = "locating"]
    /\ UNCHANGED <<accountVars, page, formVars, hud, errorHud, loginVars, made, alone, asked, wrote>>

\* The URL arrives: the binding takes the HUD down, the profile of whoever is
\* signed in is written, and the completion dismisses the controller although
\* the write has only begun.
PhotoLocated(t) ==
    /\ stage[t] = "locating"
    /\ stage' = [stage EXCEPT ![t] = "writing"]
    /\ wrote' = [wrote EXCEPT ![t] = session]
    /\ hud' = FALSE
    /\ page' = IF page = "gone" THEN "gone" ELSE "closing"
    /\ UNCHANGED <<accountVars, formVars, errorHud, loginVars, made, alone, asked>>

\* Mutant: it is not the write of one user that the SDK keeps.
ProfileWrittenForSession(t) ==
    /\ stage[t] \in {"writing", "orphan"}
    /\ profiles' = profiles \cup {session}
    /\ stage' = [stage EXCEPT ![t] = "done"]
    /\ UNCHANGED <<session, accounts, page, formVars, hud, errorHud, loginVars, made, alone, asked, wrote>>

\* The profile is written.  The completion would dismiss the controller again.
ProfileWritten(t) ==
    /\ stage[t] \in {"writing", "orphan"}
    /\ session = wrote[t]
    /\ profiles' = profiles \cup {wrote[t]}
    /\ stage' = [stage EXCEPT ![t] = "done"]
    /\ UNCHANGED <<session, accounts, page, formVars, hud, errorHud, loginVars, made, alone, asked, wrote>>

\* It is refused: the error reaches a controller only while it is being closed.
ProfileRefused(t) ==
    /\ stage[t] \in {"writing", "orphan"}
    /\ session = wrote[t]
    /\ stage' = [stage EXCEPT ![t] = "failed"]
    /\ IF stage[t] = "writing" THEN Report ELSE UNCHANGED <<hud, errorHud>>
    /\ UNCHANGED <<accountVars, page, formVars, loginVars, made, alone, asked, wrote>>

\* After four seconds.
ErrorHudEnds ==
    /\ errorHud
    /\ errorHud' = FALSE
    /\ UNCHANGED <<accountVars, page, formVars, hud, loginVars, attempts>>

-----------------------------------------------------------------------------
(* The login page                                                          *)

\* Mutant: the button can be reached under the HUD.
GoToLoginAnyTime ==
    /\ page = "form"
    /\ page' = "login"
    /\ loginFilled' = {}
    /\ UNCHANGED <<accountVars, formVars, hud, errorHud, loginHud, signIns, strays, attempts>>

\* handleGoToLogin pushes a new LoginController.
GoToLogin ==
    /\ FormTouchable
    /\ page' = "login"
    /\ loginFilled' = {}
    /\ UNCHANGED <<accountVars, formVars, hud, errorHud, loginHud, signIns, strays, attempts>>

\* Only a HUD that is up covers the page: through one that fades it is touched.
LoginTouchable == page = "login" /\ loginHud # "up"

\* The page is left with n sign-ins in flight, whose completions keep the
\* controller; its HUD is seen no more.
LeaveLogin(n) ==
    /\ Login!ViewGone
    /\ loginFilled' = {}
    /\ signIns' = 0
    /\ strays' = strays + n

\* handleBack.
GoBack ==
    /\ LoginTouchable
    /\ page' = "form"
    /\ LeaveLogin(signIns)
    /\ UNCHANGED <<accountVars, formVars, hud, errorHud, attempts>>

TypeLogin(f) ==
    /\ LoginTouchable
    /\ \/ loginFilled' = loginFilled \cup {f}
       \/ loginFilled' = loginFilled \ {f}
    /\ UNCHANGED <<accountVars, page, formVars, hud, errorHud, loginHud, signIns, strays,
                   attempts>>

\* handleLogin and performLogin: the button is enabled when both are there.
TapLogin ==
    /\ LoginTouchable
    /\ loginFilled = LoginFields
    /\ signIns + strays < MaxSignIns
    /\ signIns' = signIns + 1
    /\ Login!Show
    /\ UNCHANGED <<accountVars, page, formVars, hud, errorHud, loginFilled, strays, attempts>>

\* Signed in: the whole navigation is dismissed.
LoginSucceeds(u) ==
    /\ signIns > 0
    /\ u \in accounts
    /\ session' = u
    /\ page' = "closing"
    /\ LeaveLogin(signIns - 1)
    /\ UNCHANGED <<accounts, profiles, formVars, hud, errorHud, attempts>>

\* Mutant: the HUD stays when the sign-in fails.
LoginFailsUnderHud ==
    /\ signIns > 0
    /\ signIns' = signIns - 1
    /\ UNCHANGED <<accountVars, page, formVars, hud, errorHud, loginFilled, loginHud, strays,
                   attempts>>

LoginFails ==
    /\ signIns > 0
    /\ signIns' = signIns - 1
    /\ Login!Dismiss
    /\ UNCHANGED <<accountVars, page, formVars, hud, errorHud, loginFilled, strays, attempts>>

\* The sign-in of a page that was left is answered: it signs in all the same,
\* and dismisses a controller that is nowhere any more.
StrayAnswered ==
    /\ strays > 0
    /\ strays' = strays - 1
    /\ session' \in accounts \cup {session}
    /\ UNCHANGED <<accounts, profiles, page, formVars, hud, errorHud, loginFilled, loginHud,
                   signIns, attempts>>

LoginHudGone ==
    /\ Login!Gone
    /\ UNCHANGED <<accountVars, page, formVars, hud, errorHud, loginFilled, signIns, strays,
                   attempts>>

-----------------------------------------------------------------------------
\* The animation is over and the controllers are freed.
Closed ==
    /\ page = "closing"
    /\ page' = "gone"
    /\ EmptyForm
    /\ UNCHANGED <<accountVars, strays, attempts>>

\* The user signs out from the settings: the home screen presents a new form.
Logout ==
    /\ page = "gone"
    /\ session # Nobody
    /\ session' = Nobody
    /\ page' = "form"
    /\ EmptyForm
    /\ stage' = [t \in Tries |-> IF stage[t] = "writing" THEN "orphan" ELSE stage[t]]
    /\ UNCHANGED <<strays, accounts, profiles, made, alone, asked, wrote>>

\* The app is killed and started again: of an attempt only a write on disk is
\* left, and whoever is signed in meets no form.
Launch ==
    /\ page' = IF session = Nobody THEN "form" ELSE "gone"
    /\ EmptyForm
    /\ stage' = [t \in Tries |-> CASE stage[t] \in Unowned  -> "failed"
                                   [] stage[t] = "writing" -> "orphan"
                                   [] OTHER -> stage[t]]
    /\ strays' = 0
    /\ UNCHANGED <<accountVars, made, alone, asked, wrote>>

Answer(t) ==
    \/ AccountCreated(t) \/ PhotoStored(t) \/ PhotoLocated(t)
    \/ RequestFails(t)

Next ==
    \/ \E t \in Tries : Answer(t) \/ ProfileWritten(t) \/ ProfileRefused(t)
    \/ \E f \in FormFields \ {"image"} : TypeText(f)
    \/ PickImage \/ TapRegister \/ ErrorHudEnds
    \/ GoToLogin \/ GoBack \/ TapLogin \/ LoginFails \/ LoginHudGone \/ StrayAnswered
    \/ \E f \in LoginFields : TypeLogin(f)
    \/ \E u \in Users : LoginSucceeds(u)
    \/ Closed \/ Logout \/ Launch

Spec == Init /\ [][Next]_vars

\* Requests are answered, timers and animations end.
Fairness ==
    /\ \A t \in Tries : WF_vars(Answer(t))
    /\ WF_vars(ErrorHudEnds)
    /\ WF_vars(Closed)
    /\ WF_vars(LoginFails \/ \E u \in Users : LoginSucceeds(u))

FairSpec == Spec /\ Fairness

-----------------------------------------------------------------------------
(* Properties                                                              *)

\* Whatever is typed, cleared or picked in any order, by any controller, the
\* button is enabled when the form is complete and only then: performRegistration
\* returns under the HUD when it is not (RegistrationViewModel.swift 39-43, 48,
\* RegistrationController.swift 403-404).
ButtonMatchesForm == enabled <=> filled = FormFields

\* saveInfoToFirestore asks who is signed in when the photograph is there.  For
\* an attempt begun with no sign-in in flight it is the account it created: the
\* HUD covers the way to the login page (RegistrationViewModel.swift 105,
\* RegistrationController.swift 204-212).  The condition is needed: a sign-in
\* tapped while the login HUD fades from a failure is not covered, the user can
\* go back and register, and its answer changes who is signed in.
ProfileForNewAccount == \A t \in alone : stage[t] = "writing" => wrote[t] = asked[t]

\* The bindings do not own the controller and trap when it is gone: no attempt
\* outlives it before its last use of them (RegistrationController.swift 186-204,
\* RegistrationViewModel.swift 93).
UnownedAlive == page = "gone" => \A t \in Tries : stage[t] \notin Unowned

\* Registering ends: the form is there to be touched again, or gone
\* (RegistrationViewModel.swift 53-98, RegistrationController.swift 107-114).
RegistrationEnds == hud ~> (page = "gone" \/ ~(hud \/ errorHud))

\* The login page never keeps its HUD without a sign-in to wait for: whatever is
\* tapped while it fades, the answer to the last sign-in takes it down
\* (LoginController.swift 72, 119-126).
HudMeansSignIn == loginHud = "up" => signIns > 0

\* So the page becomes touchable again, or goes.
LoginEnds == loginHud = "up" ~> loginHud # "up"
=============================================================================
