------------------------- MODULE RegistrationProofs -------------------------
(***************************************************************************)
(* Theorems about Registration for every set of accounts and any number of *)
(* attempts.                                                               *)
(***************************************************************************)
EXTENDS Registration, TLAPS

\* The form remembers the address typed, and the button follows the form.
FormFollows ==
    /\ "email" \in filled => email \in Users
    /\ enabled <=> filled = FormFields

\* Who is signed in has an account.
SessionKnown == session # Nobody => session \in accounts

\* An attempt that still uses the controller has it in front, under the HUD.
AttemptCovered == \A t \in Tries : stage[t] \in Unowned => hud /\ page = "form"

\* An attempt that writes has closed the form; signing in has another page,
\* whose HUD is up only over a sign-in.
PagesApart ==
    /\ \A t \in Tries : stage[t] = "writing" => page \in {"closing", "gone"}
    /\ signIns > 0 \/ loginHud # "down" => page = "login"
    /\ loginHud = "up" => signIns > 0

\* So there is one such attempt, and it is the last that was made.
LastAttempt == \A t \in Tries : /\ stage[t] \in Unowned => t = made
                                /\ t > made => stage[t] = "idle" /\ t \notin alone

\* It is signed in to its account from the moment it has created it, and stays
\* so when it was begun with no sign-in in flight: none can begin meanwhile.
AttemptSignedIn ==
    \A t \in Tries :
        /\ stage[t] # "idle" => asked[t] \in Users
        /\ stage[t] \in {"uploading", "locating"} => session \in accounts
        /\ stage[t] \in Unowned /\ t \in alone => strays = 0
        /\ stage[t] \in {"uploading", "locating"} /\ t \in alone => session = asked[t]
        /\ stage[t] = "writing" /\ t \in alone => wrote[t] = asked[t]
        /\ stage[t] \in {"writing", "orphan"} => wrote[t] \in accounts

RegInv ==
    /\ TypeOK
    /\ FormFollows
    /\ SessionKnown
    /\ AttemptCovered
    /\ PagesApart
    /\ LastAttempt
    /\ AttemptSignedIn

LEMMA RegInit == Init => RegInv
<1> SUFFICES ASSUME Init PROVE RegInv
  OBVIOUS
<1>1. TypeOK
  <2>1. made \in 0..MaxTries
    BY MaxTriesAssumption DEF Init
  <2>2. /\ stage \in [Tries -> Stages] /\ asked \in [Tries -> Sessions]
        /\ wrote \in [Tries -> Sessions]
    BY DEF Init, Sessions, Stages
  <2>3. {enabled, hud, errorHud} \subseteq BOOLEAN /\ loginHud \in Login!Phases
    BY DEF Init, Login!Init, Login!Phases
  <2>4. signIns \in Nat /\ strays \in Nat /\ signIns + strays <= MaxSignIns
    BY MaxSignInsAssumption, SMT DEF Init
  <2>5. alone \subseteq Tries
    BY DEF Init
  <2> QED BY <2>1, <2>2, <2>3, <2>4, <2>5 DEF Init, TypeOK, Sessions
<1>2. FormFollows /\ SessionKnown
  BY DEF Init, FormFollows, SessionKnown, FormFields
<1>3. AttemptCovered /\ PagesApart /\ LastAttempt /\ AttemptSignedIn
  BY DEF Init, Login!Init, AttemptCovered, PagesApart, LastAttempt, AttemptSignedIn, Unowned
<1> QED BY <1>1, <1>2, <1>3 DEF RegInv

\* The steps of the form and of the login page that leave accounts and attempts
\* alone.
LEMMA AttemptsKept ==
    ASSUME RegInv, TypeOK', FormFollows',
           UNCHANGED <<session, accounts, profiles, made, stage, alone, asked, wrote>>,
           \/ hud' = hud /\ page' = page /\ strays' = strays
           \/ \A t \in Tries : stage[t] \notin Unowned,
           PagesApart'
    PROVE  RegInv'
<1>1. SessionKnown' /\ LastAttempt' /\ AttemptSignedIn'
  BY DEF RegInv, SessionKnown, LastAttempt, AttemptSignedIn
<1>2. AttemptCovered'
  BY DEF RegInv, AttemptCovered
<1> QED BY <1>1, <1>2 DEF RegInv

LEMMA FormKeeps ==
    ASSUME RegInv,
           \/ \E f \in FormFields \ {"image"} : TypeText(f)
           \/ PickImage
    PROVE  RegInv'
<1>1. CASE \E f \in FormFields \ {"image"} : TypeText(f)
  <2> PICK f \in FormFields \ {"image"} : TypeText(f)
    BY <1>1
  <2> USE DEF TypeText, CheckFormValidity, accountVars, loginVars, attempts
  <2>1. filled' \subseteq FormFields /\ enabled' \in BOOLEAN
    BY DEF RegInv, TypeOK
  <2>2. email' \in Sessions /\ ("email" \in filled' => email' \in Users)
    BY DEF RegInv, TypeOK, FormFollows, Sessions
  <2>3. TypeOK'
    BY <2>1, <2>2 DEF RegInv, TypeOK
  <2>4. FormFollows' /\ PagesApart'
    BY <2>2 DEF FormFollows, RegInv, PagesApart
  <2> QED BY <2>3, <2>4, AttemptsKept
<1>2. CASE PickImage
  <2> USE <1>2 DEF PickImage, CheckFormValidity, accountVars, loginVars, attempts
  <2>1. filled' \subseteq FormFields /\ enabled' \in BOOLEAN
    BY DEF RegInv, TypeOK, FormFields
  <2>2. "email" \in filled' => email' \in Users
    BY DEF RegInv, FormFollows
  <2>3. TypeOK'
    BY <2>1 DEF RegInv, TypeOK
  <2>4. FormFollows' /\ PagesApart'
    BY <2>2 DEF FormFollows, RegInv, PagesApart
  <2> QED BY <2>3, <2>4, AttemptsKept
<1> QED BY <1>1, <1>2

LEMMA PagesKeep ==
    ASSUME RegInv,
           \/ ErrorHudEnds \/ GoToLogin \/ GoBack \/ TapLogin \/ LoginFails \/ LoginHudGone
           \/ Closed \/ \E f \in LoginFields : TypeLogin(f)
    PROVE  RegInv'
<1> USE DEF ErrorHudEnds, GoToLogin, GoBack, TapLogin, LoginFails, LoginHudGone, Closed,
            TypeLogin, FormTouchable, LoginTouchable, LeaveLogin, EmptyForm,
            Login!Show, Login!Dismiss, Login!Gone, Login!ViewGone, Login!Phases,
            accountVars, formVars, loginVars, attempts
<1>1. TypeOK'
  <2>1. /\ loginHud' \in Login!Phases
        /\ signIns' \in Nat /\ strays' \in Nat /\ signIns' + strays' <= MaxSignIns
    BY MaxSignInsAssumption DEF RegInv, TypeOK
  <2>2. UNCHANGED <<session, accounts, profiles, made, stage, alone, asked, wrote>>
    OBVIOUS
  <2>3. /\ page' \in {"form", "login", "closing", "gone"} /\ email' \in Sessions
        /\ filled' \subseteq FormFields /\ loginFilled' \subseteq LoginFields
        /\ {enabled', hud', errorHud'} \subseteq BOOLEAN
    BY DEF RegInv, TypeOK, Sessions
  <2> QED BY <2>1, <2>2, <2>3 DEF RegInv, TypeOK
<1>2. FormFollows'
  BY DEF RegInv, FormFollows, FormFields
<1>3. \/ hud' = hud /\ page' = page /\ strays' = strays
      \/ \A t \in Tries : stage[t] \notin Unowned
  BY DEF RegInv, AttemptCovered
<1>4. UNCHANGED <<session, accounts, profiles, made, stage, alone, asked, wrote>>
  OBVIOUS
<1>5. PagesApart'
  BY DEF RegInv, TypeOK, PagesApart
<1> QED BY <1>1, <1>2, <1>3, <1>4, <1>5, AttemptsKept

\* A stray answer changes who is signed in under no attempt begun alone.
LEMMA StrayKeeps == ASSUME RegInv, StrayAnswered PROVE RegInv'
<1> USE DEF StrayAnswered, formVars, attempts
<1>1. strays > 0 /\ strays' \in Nat /\ signIns + strays' <= MaxSignIns
  BY MaxSignInsAssumption DEF RegInv, TypeOK
<1>2. session' \in Sessions /\ (session' # Nobody => session' \in accounts)
  BY DEF RegInv, TypeOK, SessionKnown, Sessions
<1>3. TypeOK' /\ SessionKnown'
  BY <1>1, <1>2 DEF RegInv, TypeOK, SessionKnown
<1>4. FormFollows' /\ AttemptCovered' /\ PagesApart' /\ LastAttempt'
  BY DEF RegInv, FormFollows, AttemptCovered, PagesApart, LastAttempt
<1>5. AttemptSignedIn'
  BY <1>1 DEF RegInv, AttemptSignedIn, Unowned
<1> QED BY <1>3, <1>4, <1>5 DEF RegInv

LEMMA TapRegisterKeeps == ASSUME RegInv, TapRegister PROVE RegInv'
<1> USE DEF TapRegister, FormTouchable, accountVars, formVars, loginVars
<1>1. email \in Users
  BY DEF RegInv, FormFollows, FormFields
<1>2. made \in Nat /\ made + 1 \in Tries /\ made' = made + 1
  BY MaxTriesAssumption DEF RegInv, TypeOK, Tries
<1>3. /\ stage \in [Tries -> Stages] /\ asked \in [Tries -> Sessions]
      /\ \A t \in Tries : stage[t] \notin Unowned
  BY DEF RegInv, TypeOK, AttemptCovered
<1>4. \A t \in Tries : /\ stage'[t] = IF t = made + 1 THEN "creating" ELSE stage[t]
                       /\ asked'[t] = IF t = made + 1 THEN email ELSE asked[t]
  BY <1>2, <1>3
<1>5. TypeOK'
  <2>1. stage' \in [Tries -> Stages] /\ asked' \in [Tries -> Sessions]
    BY <1>1, <1>2, <1>3 DEF Stages, Sessions
  <2>2. made' \in 0..MaxTries
    BY <1>2 DEF Tries
  <2> QED BY <2>1, <2>2 DEF RegInv, TypeOK
<1>6. FormFollows' /\ SessionKnown'
  BY DEF RegInv, FormFollows, SessionKnown
<1>7. AttemptCovered' /\ PagesApart'
  BY <1>3, <1>4 DEF RegInv, AttemptCovered, PagesApart
<1>8. LastAttempt'
  <2> SUFFICES ASSUME NEW t \in Tries
               PROVE  /\ stage'[t] \in Unowned => t = made'
                      /\ t > made' => stage'[t] = "idle" /\ t \notin alone'
    BY DEF LastAttempt
  <2>1. t \in Int
    BY DEF Tries
  <2> QED BY <1>2, <1>3, <1>4, <2>1 DEF RegInv, LastAttempt
<1>9. AttemptSignedIn'
  <2>1. made + 1 \notin alone
    BY <1>2 DEF RegInv, LastAttempt
  <2>2. \A t \in alone' : t = made + 1 => strays = 0
    BY <2>1
  <2>3. \A t \in Tries : t \in alone' /\ t # made + 1 => t \in alone
    OBVIOUS
  <2> QED BY <1>1, <1>2, <1>3, <1>4, <2>2, <2>3 DEF RegInv, AttemptSignedIn, Unowned
<1> QED BY <1>5, <1>6, <1>7, <1>8, <1>9 DEF RegInv

LEMMA AccountCreatedKeeps ==
    ASSUME RegInv, NEW t \in Tries, AccountCreated(t) PROVE RegInv'
<1> USE DEF AccountCreated, formVars, loginVars
<1>1. asked[t] \in Users /\ stage[t] \in Unowned
  BY DEF RegInv, AttemptSignedIn, Unowned
<1>2. \A s \in Tries : s # t => stage[s] \notin Unowned
  BY <1>1 DEF RegInv, LastAttempt
<1>3. \A s \in Tries : stage'[s] = IF s = t THEN "uploading" ELSE stage[s]
  BY DEF RegInv, TypeOK
<1>4. TypeOK'
  BY <1>1 DEF RegInv, TypeOK, Sessions, Stages
<1>5. FormFollows' /\ SessionKnown'
  BY DEF RegInv, FormFollows, SessionKnown
<1>6. AttemptCovered' /\ PagesApart' /\ LastAttempt'
  BY <1>1, <1>3 DEF RegInv, AttemptCovered, PagesApart, LastAttempt, Unowned
<1>7. AttemptSignedIn'
  BY <1>1, <1>2, <1>3 DEF RegInv, AttemptSignedIn, Unowned
<1> QED BY <1>4, <1>5, <1>6, <1>7 DEF RegInv

LEMMA RequestFailsKeeps ==
    ASSUME RegInv, NEW t \in Tries, RequestFails(t) PROVE RegInv'
<1> USE DEF RequestFails, Report, accountVars, formVars, loginVars
<1>1. \A s \in Tries : s # t => stage[s] \notin Unowned
  BY DEF RegInv, LastAttempt
<1>2. \A s \in Tries : stage'[s] = IF s = t THEN "failed" ELSE stage[s]
  BY DEF RegInv, TypeOK
<1>3. TypeOK'
  BY DEF RegInv, TypeOK, Stages
<1>4. FormFollows' /\ SessionKnown'
  BY DEF RegInv, FormFollows, SessionKnown
<1>5. AttemptCovered' /\ PagesApart'
  BY <1>1, <1>2 DEF RegInv, AttemptCovered, PagesApart, Unowned
<1>6. LastAttempt' /\ AttemptSignedIn'
  BY <1>2 DEF RegInv, LastAttempt, AttemptSignedIn, Unowned
<1> QED BY <1>3, <1>4, <1>5, <1>6 DEF RegInv

LEMMA PhotoStoredKeeps ==
    ASSUME RegInv, NEW t \in Tries, PhotoStored(t) PROVE RegInv'
<1> USE DEF PhotoStored, accountVars, formVars, loginVars
<1>1. \A s \in Tries : stage'[s] = IF s = t THEN "locating" ELSE stage[s]
  BY DEF RegInv, TypeOK
<1>2. TypeOK'
  BY DEF RegInv, TypeOK, Stages
<1>3. FormFollows' /\ SessionKnown'
  BY DEF RegInv, FormFollows, SessionKnown
<1>4. AttemptCovered' /\ PagesApart' /\ LastAttempt' /\ AttemptSignedIn'
  BY <1>1 DEF RegInv, AttemptCovered, PagesApart, LastAttempt, AttemptSignedIn, Unowned
<1> QED BY <1>2, <1>3, <1>4 DEF RegInv

LEMMA PhotoLocatedKeeps ==
    ASSUME RegInv, NEW t \in Tries, PhotoLocated(t) PROVE RegInv'
<1> USE DEF PhotoLocated, accountVars, formVars, loginVars
<1>1. /\ \A s \in Tries : s # t => stage[s] \notin Unowned
      /\ t \in alone => session = asked[t]
      /\ asked[t] \in Users /\ session \in accounts
  BY NobodyAssumption DEF RegInv, LastAttempt, AttemptSignedIn, SessionKnown, Unowned
<1>2. \A s \in Tries : /\ stage'[s] = IF s = t THEN "writing" ELSE stage[s]
                       /\ wrote'[s] = IF s = t THEN session ELSE wrote[s]
  BY DEF RegInv, TypeOK
<1>3. TypeOK'
  BY DEF RegInv, TypeOK, Stages
<1>4. FormFollows' /\ SessionKnown'
  BY DEF RegInv, FormFollows, SessionKnown
<1>5. AttemptCovered' /\ PagesApart'
  <2>1. signIns = 0 /\ loginHud = "down" /\ page' \in {"closing", "gone"}
    BY DEF RegInv, TypeOK, AttemptCovered, PagesApart, Unowned
  <2> QED BY <1>1, <1>2, <2>1 DEF AttemptCovered, PagesApart, Unowned
<1>6. LastAttempt' /\ AttemptSignedIn'
  BY <1>1, <1>2 DEF RegInv, LastAttempt, AttemptSignedIn, Unowned
<1> QED BY <1>3, <1>4, <1>5, <1>6 DEF RegInv

LEMMA WriteAnsweredKeeps ==
    ASSUME RegInv, NEW t \in Tries, ProfileWritten(t) \/ ProfileRefused(t) PROVE RegInv'
<1> USE DEF ProfileWritten, ProfileRefused, Report, accountVars, formVars, loginVars
<1>1. PICK over \in {"done", "failed"} : stage' = [stage EXCEPT ![t] = over]
  OBVIOUS
<1>2. \A s \in Tries : stage'[s] = IF s = t THEN over ELSE stage[s]
  BY <1>1 DEF RegInv, TypeOK
<1>3. wrote[t] \in accounts
  BY DEF RegInv, AttemptSignedIn
<1>4. TypeOK'
  BY <1>1, <1>3 DEF RegInv, TypeOK, Stages
<1>5. FormFollows' /\ SessionKnown'
  BY DEF RegInv, FormFollows, SessionKnown
<1>6. LastAttempt' /\ AttemptSignedIn'
  BY <1>2 DEF RegInv, LastAttempt, AttemptSignedIn, Unowned
<1>7. AttemptCovered' /\ PagesApart'
  BY <1>2 DEF RegInv, AttemptCovered, PagesApart, Unowned
<1> QED BY <1>4, <1>5, <1>6, <1>7 DEF RegInv
LEMMA LoginSucceedsKeeps ==
    ASSUME RegInv, NEW u \in Users, LoginSucceeds(u) PROVE RegInv'
<1> USE DEF LoginSucceeds, LeaveLogin, Login!ViewGone, Login!Phases, formVars, attempts
<1>1. page = "login" /\ \A t \in Tries : stage[t] \notin Unowned
  BY DEF RegInv, PagesApart, AttemptCovered
<1>2. TypeOK'
  BY MaxSignInsAssumption DEF RegInv, TypeOK, Sessions
<1>3. FormFollows' /\ SessionKnown' /\ PagesApart'
  BY DEF RegInv, FormFollows, SessionKnown, PagesApart
<1>4. AttemptCovered' /\ LastAttempt' /\ AttemptSignedIn'
  BY <1>1 DEF RegInv, AttemptCovered, LastAttempt, AttemptSignedIn, Unowned
<1> QED BY <1>2, <1>3, <1>4 DEF RegInv

\* A new form, after a logout or a start of the app, inherits no attempt.
LEMMA NewFormKeeps == ASSUME RegInv, Logout \/ Launch PROVE RegInv'
<1> USE DEF Logout, Launch, EmptyForm, Login!Phases, accountVars
<1>1. \A t \in Tries : /\ stage'[t] \notin Unowned /\ stage'[t] # "writing"
                       /\ stage'[t] = "idle" <=> stage[t] = "idle"
                       /\ stage'[t] = "orphan" => stage[t] \in {"writing", "orphan"}
  BY DEF RegInv, TypeOK, AttemptCovered, Unowned, Stages
<1>2. TypeOK'
  <2>1. session' \in Sessions /\ email' \in Sessions
    BY DEF RegInv, TypeOK, Sessions
  <2>2. stage' \in [Tries -> Stages]
    BY DEF RegInv, TypeOK, Stages
  <2>3. /\ {enabled', hud', errorHud'} \subseteq BOOLEAN /\ loginHud' \in Login!Phases
        /\ filled' \subseteq FormFields /\ loginFilled' \subseteq LoginFields
        /\ page' \in {"form", "login", "closing", "gone"}
    OBVIOUS
  <2>4. signIns' = 0 /\ strays' \in {0, strays}
    OBVIOUS
  <2>5. signIns' \in Nat /\ strays' \in Nat /\ signIns' + strays' <= MaxSignIns
    <3> HIDE DEF Logout, Launch
    <3>1. signIns \in Nat /\ strays \in Nat /\ signIns + strays <= MaxSignIns
      BY DEF RegInv, TypeOK
    <3>2. strays' = 0 \/ strays' = strays
      BY <2>4
    <3>3. signIns' = 0
      BY <2>4
    <3>4. strays' \in Nat /\ strays' <= MaxSignIns
      BY <3>1, <3>2, MaxSignInsAssumption
    <3> QED BY <3>3, <3>4
  <2>6. UNCHANGED <<accounts, profiles, made, alone, asked, wrote>>
    OBVIOUS
  <2> HIDE DEF Logout, Launch
  <2> QED BY <2>1, <2>2, <2>3, <2>5, <2>6 DEF RegInv, TypeOK
<1>3. FormFollows' /\ SessionKnown'
  BY DEF RegInv, FormFollows, SessionKnown, FormFields
<1>4. AttemptCovered' /\ PagesApart' /\ LastAttempt' /\ AttemptSignedIn'
  BY <1>1 DEF RegInv, AttemptCovered, PagesApart, LastAttempt, AttemptSignedIn, Unowned
<1> QED BY <1>2, <1>3, <1>4 DEF RegInv

LEMMA RegNext == RegInv /\ [Next]_vars => RegInv'
<1> SUFFICES ASSUME RegInv, [Next]_vars PROVE RegInv'
  OBVIOUS
<1>1. ASSUME NEW t \in Tries, Answer(t) \/ ProfileWritten(t) \/ ProfileRefused(t)
      PROVE  RegInv'
  BY <1>1, AccountCreatedKeeps, PhotoStoredKeeps, PhotoLocatedKeeps, RequestFailsKeeps,
     WriteAnsweredKeeps DEF Answer
<1>2. ASSUME NEW u \in Users, LoginSucceeds(u) PROVE RegInv'
  BY <1>2, LoginSucceedsKeeps
<1>3. CASE UNCHANGED vars
  <2> USE <1>3 DEF vars, accountVars, formVars, loginVars, attempts
  <2>1. TypeOK' /\ FormFollows' /\ PagesApart'
    BY DEF RegInv, TypeOK, FormFollows, PagesApart
  <2> QED BY <2>1, AttemptsKept
<1> QED BY <1>1, <1>2, <1>3, FormKeeps, PagesKeep, StrayKeeps, TapRegisterKeeps, NewFormKeeps DEF Next

-----------------------------------------------------------------------------
(* The theorems                                                            *)

LEMMA RegInvariant == Spec => []RegInv
BY RegInit, RegNext, PTL DEF Spec

\* Every variable keeps its type; a profile belongs to an account that exists
\* (RegistrationViewModel.swift 46-122).
THEOREM TypeCorrect == Spec => []TypeOK
<1>1. RegInv => TypeOK
  BY DEF RegInv
<1> QED BY <1>1, RegInvariant, PTL

\* The register button is enabled for a complete form and no other
\* (RegistrationViewModel.swift 39-43, RegistrationController.swift 403-404).
THEOREM ButtonFollowsForm == Spec => []ButtonMatchesForm
<1>1. RegInv => ButtonMatchesForm
  BY DEF RegInv, FormFollows, ButtonMatchesForm
<1> QED BY <1>1, RegInvariant, PTL

\* An attempt begun with no sign-in in flight writes the profile of the account it
\* created, although it asks who is signed in two requests later
\* (RegistrationViewModel.swift 105).
THEOREM ProfileOfItsAccount == Spec => []ProfileForNewAccount
<1>1. RegInv => ProfileForNewAccount
  BY DEF RegInv, TypeOK, AttemptSignedIn, ProfileForNewAccount
<1> QED BY <1>1, RegInvariant, PTL

\* No attempt uses the controller's bindings after the controller is gone
\* (RegistrationController.swift 186-212, RegistrationViewModel.swift 93).
THEOREM NothingOutlivesTheForm == Spec => []UnownedAlive
<1>1. RegInv => UnownedAlive
  BY DEF RegInv, AttemptCovered, UnownedAlive
<1> QED BY <1>1, RegInvariant, PTL

\* The HUD of the login page is up only over a sign-in, however many were tapped
\* while it faded (LoginController.swift 72, 119-126).
THEOREM LoginHudWaits == Spec => []HudMeansSignIn
<1>1. RegInv => HudMeansSignIn
  BY DEF RegInv, PagesApart, HudMeansSignIn
<1> QED BY <1>1, RegInvariant, PTL

-----------------------------------------------------------------------------
(* The HUD of the form                                                     *)

\* The HUD lies over the form for one attempt, the last one made, which is at work.
HudMeansAttempt == hud => \A t \in Tries : stage[t] \in Unowned <=> t = made

LEMMA AttemptStays == ASSUME RegInv, HudMeansAttempt, [Next]_vars PROVE HudMeansAttempt'
<1> SUFFICES ASSUME hud' PROVE \A t \in Tries : stage'[t] \in Unowned <=> t = made'
  BY DEF HudMeansAttempt
<1>a. /\ stage \in [Tries -> Stages] /\ made \in 0..MaxTries
      /\ \A t \in Tries : stage[t] \in Unowned => t = made
  BY DEF RegInv, TypeOK, LastAttempt
<1>1. CASE TapRegister
  <2>1. made + 1 \in Tries /\ made' = made + 1 /\ \A t \in Tries : stage[t] \notin Unowned
    BY <1>1, <1>a, MaxTriesAssumption
       DEF TapRegister, FormTouchable, RegInv, AttemptCovered, Tries
  <2>2. \A t \in Tries : stage'[t] = IF t = made + 1 THEN "creating" ELSE stage[t]
    BY <1>1, <1>a, <2>1 DEF TapRegister
  <2> QED BY <2>1, <2>2 DEF Unowned
<1>2. ASSUME NEW t \in Tries, AccountCreated(t) \/ PhotoStored(t)
      PROVE  \A s \in Tries : stage'[s] \in Unowned <=> s = made'
  <2>1. hud /\ made' = made /\ stage[t] \in Unowned
    BY <1>2 DEF AccountCreated, PhotoStored, Unowned
  <2>2. \A s \in Tries : s # t => stage'[s] = stage[s]
    BY <1>2, <1>a DEF AccountCreated, PhotoStored
  <2>3. stage'[t] \in Unowned
    BY <1>2, <1>a DEF AccountCreated, PhotoStored, Unowned
  <2> QED BY <2>1, <2>2, <2>3 DEF HudMeansAttempt
<1>3. ASSUME NEW t \in Tries, PhotoLocated(t) \/ RequestFails(t)
      PROVE  FALSE
  <2>1. stage[t] \in Unowned /\ page = "form"
    BY <1>3 DEF PhotoLocated, RequestFails, Unowned, RegInv, AttemptCovered
  <2> QED BY <1>3, <2>1 DEF PhotoLocated, RequestFails, Report
<1>4. ASSUME NEW t \in Tries, ProfileWritten(t) \/ ProfileRefused(t)
      PROVE  \A s \in Tries : stage'[s] \in Unowned <=> s = made'
  <2>1. hud /\ made' = made
    BY <1>4 DEF ProfileWritten, ProfileRefused, Report
  <2>2. \A s \in Tries : s # t => stage'[s] = stage[s]
    BY <1>4, <1>a DEF ProfileWritten, ProfileRefused
  <2>3. stage[t] \notin Unowned /\ stage'[t] \notin Unowned
    BY <1>4, <1>a DEF ProfileWritten, ProfileRefused, Unowned
  <2> QED BY <2>1, <2>2, <2>3 DEF HudMeansAttempt
<1>5. CASE UNCHANGED <<hud, made, stage>>
  BY <1>5 DEF HudMeansAttempt
<1>6. CASE Closed \/ Logout \/ Launch
  BY <1>6 DEF Closed, Logout, Launch, EmptyForm
<1>7. CASE \/ \E f \in FormFields \ {"image"} : TypeText(f)
           \/ PickImage \/ ErrorHudEnds \/ GoToLogin \/ GoBack \/ TapLogin
           \/ LoginFails \/ LoginHudGone \/ StrayAnswered
           \/ \E f \in LoginFields : TypeLogin(f)
           \/ \E u \in Users : LoginSucceeds(u)
           \/ UNCHANGED vars
  BY <1>5, <1>7 DEF TypeText, PickImage, ErrorHudEnds, GoToLogin, GoBack, TapLogin,
     LoginFails, LoginHudGone, StrayAnswered, TypeLogin, LoginSucceeds, attempts, vars
<1> QED BY <1>1, <1>2, <1>3, <1>4, <1>6, <1>7 DEF Next, Answer

\* What keeps RegistrationEnds from being stuck: the form is never covered with
\* no attempt at work, and never for two, whatever is tapped, answered late or
\* left (RegistrationViewModel.swift 46-122, RegistrationController.swift 105-114,
\* 186-212).
THEOREM HudIsOneAttempt == Spec => []HudMeansAttempt
<1>1. Init => HudMeansAttempt
  BY DEF Init, HudMeansAttempt
<1>2. RegInv /\ HudMeansAttempt /\ [Next]_vars => HudMeansAttempt'
  BY AttemptStays
<1> QED BY <1>1, <1>2, RegInvariant, PTL DEF Spec
=============================================================================
