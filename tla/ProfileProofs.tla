--------------------------- MODULE ProfileProofs ---------------------------
(***************************************************************************)
(* Theorems about Profile: its types, and that photographs are uploaded    *)
(* and stay with their account, no card is empty, the home screen is       *)
(* current and saves keep what they were not asked to change, for any      *)
(* accounts, texts, ages and bounds.                                       *)
(***************************************************************************)
EXTENDS Profile, TLAPS

-----------------------------------------------------------------------------
(* Conversions                                                             *)

LEMMA SlotsAreFields == Slots \subseteq Fields /\ "fullname" \notin Slots /\ Sliders \subseteq Fields
BY DEF Slots, Sliders, Fields

LEMMA ReadIs ==
    ASSUME NEW doc \in Profiles
    PROVE  /\ Read(doc) \in Profiles
           /\ \A f \in Fields : Read(doc)[f] = doc[f] \/ (doc[f] = Missing /\ f = "fullname")
BY DEF Read, Profiles, Values, Fields

LEMMA SavedIs ==
    ASSUME NEW copy, copy = None \/ copy \in Profiles
    PROVE  /\ Saved(copy) \in Profiles
           /\ \A f \in Fields : Saved(copy)[f] # Missing
           /\ \A f \in Fields : \/ Saved(copy)[f] = Blank
                                \/ copy # None /\ Saved(copy)[f] = copy[f]
           /\ copy # None =>
                \A f \in Fields : copy[f] # Missing => Saved(copy)[f] = copy[f]
BY ValuesAssumption, NoneAssumption DEF Saved, Profiles, Values

LEMMA RegisteredIs ==
    ASSUME NEW name \in Texts, NEW photo \in Photos
    PROVE  /\ Registered(name, photo) \in Profiles
           /\ Registered(name, photo)["imageUrl1"] = photo
           /\ Registered(name, photo)["imageUrl2"] = Missing
           /\ Registered(name, photo)["imageUrl3"] = Missing
BY ValuesAssumption DEF Registered, Profiles, Values, Fields, Slots, Sliders

-----------------------------------------------------------------------------
(* Queues                                                                  *)

Callers == {"settings", "left", "registration", "lost"}

LEMMA LeftByIs ==
    ASSUME NEW q \in Seq(Writes), NEW callers, NEW caller \in Callers
    PROVE  /\ LeftBy(q, callers, caller) \in Seq(Writes)
           /\ Len(LeftBy(q, callers, caller)) = Len(q)
           /\ \A k \in 1..Len(q) :
                 /\ LeftBy(q, callers, caller)[k].data = q[k].data
                 /\ LeftBy(q, callers, caller)[k].edited = q[k].edited
                 /\ LeftBy(q, callers, caller)[k].caller =
                       IF q[k].caller \in callers THEN caller ELSE q[k].caller
<1> DEFINE left == LeftBy(q, callers, caller)
<1>1. \A k \in 1..Len(q) : q[k] \in Writes
  OBVIOUS
<1>2. \A k \in 1..Len(q) : [q[k] EXCEPT !.caller = caller] \in Writes
  BY <1>1 DEF Writes, Callers
<1>3. /\ left = [k \in 1..Len(q) |-> IF q[k].caller \in callers
                                     THEN [q[k] EXCEPT !.caller = caller] ELSE q[k]]
  BY DEF LeftBy
<1>4. left \in [1..Len(q) -> Writes]
  BY <1>1, <1>2, <1>3
<1>5. left \in Seq(Writes) /\ Len(left) = Len(q)
  BY <1>4
<1>6. ASSUME NEW k \in 1..Len(q)
      PROVE  /\ left[k].data = q[k].data
             /\ left[k].edited = q[k].edited
             /\ left[k].caller = IF q[k].caller \in callers THEN caller ELSE q[k].caller
  BY <1>1, <1>3 DEF Writes
<1> QED BY <1>5, <1>6

LEMMA AppendIs ==
    ASSUME NEW q \in Seq(Writes), NEW w \in Writes
    PROVE  /\ Append(q, w) \in Seq(Writes)
           /\ Len(Append(q, w)) = Len(q) + 1
           /\ \A k \in 1..Len(q) : Append(q, w)[k] = q[k]
           /\ Append(q, w)[Len(q) + 1] = w
           /\ Last(Append(q, w)) = w
           /\ Append(q, w) # <<>>
BY DEF Last

LEMMA TailIs ==
    ASSUME NEW q \in Seq(Writes), q # <<>>
    PROVE  /\ Head(q) = q[1] /\ Head(q) \in Writes
           /\ Tail(q) \in Seq(Writes)
           /\ Len(Tail(q)) = Len(q) - 1
           /\ \A k \in 1..(Len(q) - 1) : Tail(q)[k] = q[k + 1]
           /\ Len(q) >= 1
OBVIOUS

LEMMA LastIs ==
    ASSUME NEW q \in Seq(Writes), q # <<>>
    PROVE  Last(q) = q[Len(q)] /\ Last(q) \in Writes /\ Len(q) \in 1..Len(q) /\ Len(q) >= 1
BY DEF Last

-----------------------------------------------------------------------------
(* The invariant                                                           *)

\* TypeOK, and that the collection and the queues are functions.
Typing ==
    /\ TypeOK
    /\ docs \in [Users -> Profiles \cup {None}]
    /\ queue \in [Users -> Seq(Writes)]

\* Only settings that are in front hold a copy, and somebody is signed in then.
SettingsInFront ==
    /\ screen = "settings" => session \in Users
    /\ screen # "settings" => form = None /\ upload = NoUpload /\ ~loading
    /\ upload # NoUpload => upload.photo \in (1..photos) \ uploaded

\* What PhotosAreUploaded and CardNeverEmpty say of one copy.
Good(copy, known) ==
    /\ \A s \in Slots : copy[s] \in Photos => copy[s] \in known
    /\ \E s \in Slots : copy[s] # Missing

\* The photographs can be shared out among the accounts so that every copy of
\* an account's profile, wherever it is kept, takes its own from that account's.
Albums == [Users -> SUBSET Photos]

SharedOut(album) ==
    /\ \A u \in Users : album[u] \subseteq uploaded
    /\ \A u, v \in Users : u # v => album[u] \cap album[v] = {}

CopiesFrom(album) ==
    /\ \A u \in Users : docs[u] # None => Good(docs[u], album[u])
    /\ \A u \in Users : \A k \in 1..Len(queue[u]) : Good(queue[u][k].data, album[u])
    /\ form # None => Good(form, album[session])
    /\ home.data # None => Good(home.data, album[home.who])

CopiesGood == \E album \in Albums : SharedOut(album) /\ CopiesFrom(album)

\* new differs from old only in what was edited, or missing.
Keeps(old, new, changed) ==
    \A f \in Fields : new[f] = old[f] \/ old[f] = Missing \/ f \in changed

\* Each write keeps the rest of what it will find.
QueueKeeps(u) ==
    /\ docs[u] # None /\ queue[u] # <<>> =>
          Keeps(docs[u], queue[u][1].data, queue[u][1].edited)
    /\ \A k \in 1..(Len(queue[u]) - 1) :
          Keeps(queue[u][k].data, queue[u][k + 1].data, queue[u][k + 1].edited)

WritesKeep == ~spoiled => \A u \in Users : QueueKeeps(u)

\* And so would the write of what is in the settings now.
FormKeeps ==
    form # None /\ ~spoiled /\ LocalView(session) # None =>
        Keeps(LocalView(session), Saved(form), edited)

\* The home screen has the last write of its user, or something is still to
\* tell it: a read in flight, or a callback that begins one.
HomeFollows ==
    ( /\ session # Nobody
      /\ ~astray
      /\ \A u \in Users : homeGets[u] = 0 )
    => \/ home.who = session /\ home.data = Read(LocalView(session))
       \/ queue[session] # <<>> /\ Last(queue[session]).caller # "lost"

PInv ==
    /\ Typing
    /\ SettingsInFront
    /\ CopiesGood
    /\ WritesKeep
    /\ FormKeeps
    /\ HomeFollows

LEMMA ViewIs ==
    ASSUME Typing, NEW u \in Users
    PROVE  LocalView(u) \in Profiles \cup {None}
<1>1. CASE u = session /\ queue[u] # <<>>
  BY <1>1, LastIs DEF Typing, LocalView, Writes
<1>2. CASE ~(u = session /\ queue[u] # <<>>)
  BY <1>2 DEF Typing, LocalView
<1> QED BY <1>1, <1>2

-----------------------------------------------------------------------------
(* Types                                                                   *)

LEMMA TypeInit == Init => Typing
<1> SUFFICES ASSUME Init PROVE Typing
  OBVIOUS
<1>1. 0 \in 0..MaxGets /\ 0 \in 0..MaxPhotos /\ MaxWrites >= 0
  BY BoundsAssumption
<1>2. /\ homeGets \in [Users -> 0..MaxGets] /\ photos \in 0..MaxPhotos
      /\ uploaded \subseteq 1..photos
  BY <1>1 DEF Init
<1>3. /\ docs \in [Users -> Profiles \cup {None}]
      /\ \A u \in Users : docs[u] = None
  BY DEF Init
<1>4. <<>> \in Seq(Writes) /\ Len(<<>>) = 0
  OBVIOUS
<1>5. queue \in [Users -> Seq(Writes)] /\ \A u \in Users : queue[u] = <<>>
  BY <1>4 DEF Init
<1> QED BY <1>1, <1>2, <1>3, <1>4, <1>5 DEF Init, Typing, TypeOK, Sessions

LEMMA TypeNext ==
    ASSUME Typing, SettingsInFront, Next
    PROVE  Typing'
<1> USE DEF Typing
<1>0. /\ MaxPhotos \in Nat /\ MaxWrites \in Nat /\ MaxWrites >= 1
      /\ MaxGets \in Nat /\ MaxGets >= 1
  BY BoundsAssumption
<1>1. ASSUME NEW u \in Users, HomeArrives(u) PROVE Typing'
  <2>1. Read(LocalView(u)) \in Profiles
    BY <1>1, ViewIs, ReadIs DEF HomeArrives
  <2>2. home' \in [who : Users, data : Profiles]
    BY <1>1, <2>1 DEF HomeArrives
  <2>3. homeGets' \in [Users -> 0..MaxGets] /\ astray' \in BOOLEAN
    BY <1>0, <1>1 DEF HomeArrives, TypeOK
  <2> QED BY <1>1, <2>2, <2>3 DEF HomeArrives, TypeOK, settings, storage
<1>2. ASSUME NEW u \in Users, HomeFails(u) PROVE Typing'
  BY <1>0, <1>2 DEF HomeFails, TypeOK, settings, storage
<1>3. ASSUME NEW u \in Users, Register(u) PROVE Typing'
  <2>1. PICK name \in Texts : queue' = [queue EXCEPT ![u] =
                       Append(@, [data |-> Registered(name, photos + 1),
                                  edited |-> Fields, caller |-> "registration"])]
    BY <1>3 DEF Register
  <2>2. photos + 1 \in Photos /\ photos' = photos + 1
    BY <1>0, <1>3 DEF Register, TypeOK, Photos
  <2>3. [data |-> Registered(name, photos + 1), edited |-> Fields,
         caller |-> "registration"] \in Writes
    BY <2>2, RegisteredIs DEF Writes
  <2>4. queue' \in [Users -> Seq(Writes)] /\ \A v \in Users : Len(queue'[v]) <= MaxWrites
    BY <1>0, <1>3, <2>1, <2>3, AppendIs DEF Register, TypeOK
  <2>5. /\ homeGets' \in [Users -> 0..MaxGets]
        /\ photos' \in 0..MaxPhotos /\ uploaded' \subseteq 1..photos'
    BY <1>0, <1>3 DEF Register, FetchHome, TypeOK
  <2> QED BY <1>3, <2>4, <2>5 DEF Register, TypeOK, settings, history, Sessions
<1>4. ASSUME NEW u \in Users, Login(u) PROVE Typing'
  BY <1>4 DEF Login, TypeOK, settings, storage, Sessions
<1>5. ASSUME NEW u \in Users, WriteAcknowledged(u) PROVE Typing'
  <2>1. queue[u] # <<>> /\ Head(queue[u]) \in Writes /\ Tail(queue[u]) \in Seq(Writes)
        /\ Len(Tail(queue[u])) <= MaxWrites
    BY <1>0, <1>5, TailIs DEF WriteAcknowledged, TypeOK
  <2>2. LeftBy(Tail(queue[u]), {"settings"}, "left") \in Seq(Writes)
        /\ Len(LeftBy(Tail(queue[u]), {"settings"}, "left")) <= MaxWrites
    <3>1. \A q \in Seq(Writes) : /\ LeftBy(q, {"settings"}, "left") \in Seq(Writes)
                                 /\ Len(LeftBy(q, {"settings"}, "left")) = Len(q)
      BY LeftByIs DEF Callers
    <3> QED BY <2>1, <3>1
  <2>3. queue' \in [Users -> Seq(Writes)] /\ \A v \in Users : Len(queue'[v]) <= MaxWrites
    BY <1>5, <2>1, <2>2 DEF WriteAcknowledged, TypeOK
  <2>4. docs' \in [Users -> Profiles \cup {None}]
    BY <1>5, <2>1 DEF WriteAcknowledged, Writes
  <2>5. SaveEnds(u, Head(queue[u]).caller)
    BY <1>5 DEF WriteAcknowledged
  <2>6. /\ screen' \in {"registration", "home", "settings"}
        /\ homeGets' \in [Users -> 0..MaxGets]
        /\ form' = None \/ form' \in Profiles
        /\ upload' = NoUpload \/ upload' \in [slot : Slots, photo : Photos]
        /\ edited' \subseteq Fields
        /\ {loading', stuck', astray'} \subseteq BOOLEAN
    <3>1. homeGets' = homeGets \/ FetchHome(u)
      BY <2>5 DEF SaveEnds
    <3>2. homeGets' \in [Users -> 0..MaxGets]
      <4>1. homeGets \in [Users -> 0..MaxGets] /\ homeGets[u] \in 0..MaxGets
        BY DEF TypeOK
      <4>2. CASE FetchHome(u)
        <5>1. homeGets[u] + 1 \in 0..MaxGets
          BY <1>0, <4>1, <4>2 DEF FetchHome
        <5> QED BY <4>1, <4>2, <5>1 DEF FetchHome
      <4> QED BY <3>1, <4>1, <4>2
    <3>3. \/ screen' = "home" /\ Leave
          \/ UNCHANGED <<screen, form, loading, upload, stuck, edited>>
      BY <2>5 DEF SaveEnds, settings
    <3>4. UNCHANGED astray \/ astray' = TRUE
      BY <2>5, Zenon DEF SaveEnds
    <3> QED BY <3>2, <3>3, <3>4 DEF Leave, TypeOK
  <2> QED BY <1>5, <2>3, <2>4, <2>6 DEF WriteAcknowledged, TypeOK, storage
<1>6. ASSUME NEW u \in Users, WriteRefused(u) PROVE Typing'
  <2>1. Tail(queue[u]) \in Seq(Writes) /\ Len(Tail(queue[u])) <= MaxWrites
    BY <1>0, <1>6, TailIs DEF WriteRefused, TypeOK
  <2> QED BY <1>6, <2>1 DEF WriteRefused, TypeOK, settings, storage
<1>7. ASSUME NEW f \in Typed, Edit(f) PROVE Typing'
  <2>1. PICK value \in Inputs(f) : form' = [form EXCEPT ![f] = value]
    BY <1>7 DEF Edit
  <2>2. value \in Values /\ f \in Fields
    BY EditsAssumption DEF Inputs, Values
  <2>3. form' \in Profiles
    BY <1>7, <2>1, <2>2 DEF Edit, TypeOK, Profiles
  <2> QED BY <1>7, <2>2, <2>3 DEF Edit, TypeOK, storage, history
<1>8. ASSUME NEW s \in Picked, PickPhoto(s) PROVE Typing'
  <2>1. s \in Slots /\ photos + 1 \in Photos /\ photos + 1 \in 0..MaxPhotos
    BY <1>0, <1>8, EditsAssumption DEF PickPhoto, TypeOK, Photos
  <2>2. uploaded \subseteq 1..(photos + 1)
    BY <1>0 DEF TypeOK
  <2> QED BY <1>8, <2>1, <2>2 DEF PickPhoto, TypeOK, history
<1>9. CASE OpenSettings
  BY <1>9 DEF OpenSettings, TypeOK, storage, history
<1>10. CASE FormArrives
  <2>1. session \in Users
    BY <1>10 DEF FormArrives, SettingsInFront, TypeOK
  <2>2. Read(LocalView(session)) \in Profiles
    BY <1>10, <2>1, ViewIs, ReadIs DEF FormArrives
  <2> QED BY <1>10, <2>2 DEF FormArrives, TypeOK, storage, history
<1>11. CASE FormFails
  BY <1>11 DEF FormFails, TypeOK, storage, history
<1>12. CASE UploadEnds
  <2>1. upload.slot \in Fields /\ upload.photo \in Values /\ upload.photo \in 1..photos
    BY <1>12, SlotsAreFields DEF UploadEnds, TypeOK, SettingsInFront, Values
  <2>2. form' = None \/ form' \in Profiles
    BY <1>12, <2>1 DEF UploadEnds, TypeOK, Profiles
  <2>3. edited' \subseteq Fields /\ uploaded' \subseteq 1..photos
    BY <1>12, <2>1 DEF UploadEnds, TypeOK
  <2> QED BY <1>12, <2>2, <2>3 DEF UploadEnds, TypeOK, history
<1>13. CASE UploadFails
  BY <1>13 DEF UploadFails, TypeOK, storage, history
<1>14. CASE Save
  <2>1. session \in Users
    BY <1>14 DEF Save, SettingsInFront
  <2>2. [data |-> Saved(form), edited |-> edited, caller |-> "settings"] \in Writes
    BY SavedIs DEF TypeOK, Writes
  <2>3. queue' \in [Users -> Seq(Writes)] /\ \A v \in Users : Len(queue'[v]) <= MaxWrites
    BY <1>0, <1>14, <2>1, <2>2, AppendIs DEF Save, TypeOK
  <2> QED BY <1>14, <2>3 DEF Save, TypeOK, settings, storage
<1>15. ASSUME CancelSettings \/ Logout PROVE Typing'
  <2>1. session \in Users
    BY <1>15 DEF CancelSettings, Logout, SettingsInFront
  <2>2. queue' = [queue EXCEPT ![session] = LeftBy(@, {"settings"}, "left")]
    BY <1>15 DEF CancelSettings, Logout
  <2>3. queue' \in [Users -> Seq(Writes)] /\ \A v \in Users : Len(queue'[v]) <= MaxWrites
    BY <2>1, <2>2, LeftByIs DEF TypeOK, Callers
  <2> QED BY <1>15, <2>3 DEF CancelSettings, Logout, Leave, TypeOK, storage, history, Sessions
<1>16. CASE Launch
  <2>1. \A u \in Users :
           /\ LeftBy(queue[u], {"settings", "left", "registration"}, "lost") \in Seq(Writes)
           /\ Len(LeftBy(queue[u], {"settings", "left", "registration"}, "lost")) = Len(queue[u])
    BY LeftByIs DEF Callers
  <2>2. queue' \in [Users -> Seq(Writes)] /\ \A v \in Users : Len(queue'[v]) <= MaxWrites
    BY <1>16, <2>1 DEF Launch, TypeOK
  <2>3. homeGets' \in [Users -> 0..MaxGets]
    BY <1>0, <1>16 DEF Launch
  <2> QED BY <1>16, <2>2, <2>3 DEF Launch, TypeOK, storage
<1> QED BY <1>1, <1>2, <1>3, <1>4, <1>5, <1>6, <1>7, <1>8, <1>9, <1>10, <1>11, <1>12,
           <1>13, <1>14, <1>15, <1>16 DEF Next

-----------------------------------------------------------------------------
(* Which screen is in front                                                *)

LEMMA FrontNext ==
    ASSUME Typing, SettingsInFront, Next
    PROVE  SettingsInFront'
<1> USE DEF SettingsInFront
<1>1. ASSUME NEW u \in Users, HomeArrives(u) \/ HomeFails(u) \/ WriteRefused(u)
      PROVE  SettingsInFront'
  BY <1>1 DEF HomeArrives, HomeFails, WriteRefused, settings, storage
<1>2. ASSUME NEW u \in Users, Register(u) \/ Login(u) PROVE SettingsInFront'
  BY <1>2 DEF Register, Login, settings, NoUpload
<1>3. ASSUME NEW u \in Users, WriteAcknowledged(u) PROVE SettingsInFront'
  <2>1. SaveEnds(u, Head(queue[u]).caller) /\ UNCHANGED <<session, storage>>
    BY <1>3 DEF WriteAcknowledged
  <2>2. \/ screen' = "home" /\ Leave
        \/ UNCHANGED <<screen, form, loading, upload>>
    BY <2>1 DEF SaveEnds, settings
  <2> QED BY <2>1, <2>2 DEF Leave, storage
<1>4. ASSUME NEW f \in Typed, Edit(f) PROVE SettingsInFront'
  BY <1>4 DEF Edit, storage
<1>5. ASSUME NEW s \in Picked, PickPhoto(s) PROVE SettingsInFront'
  <2>1. photos + 1 \in (1..(photos + 1)) \ uploaded
    BY DEF Typing, TypeOK
  <2> QED BY <1>5, <2>1 DEF PickPhoto
<1>6. CASE OpenSettings
  BY <1>6 DEF OpenSettings, Typing, TypeOK, Sessions
<1>7. CASE FormArrives \/ FormFails
  BY <1>7 DEF FormArrives, FormFails, storage
<1>8. CASE UploadEnds \/ UploadFails
  BY <1>8 DEF UploadEnds, UploadFails, storage
<1>9. CASE Save
  BY <1>9 DEF Save, settings, storage
<1>10. CASE CancelSettings \/ Logout \/ Launch
  BY <1>10 DEF CancelSettings, Logout, Launch, Leave, NoUpload
<1> QED BY <1>1, <1>2, <1>3, <1>4, <1>5, <1>6, <1>7, <1>8, <1>9, <1>10 DEF Next

-----------------------------------------------------------------------------
(* What copies of a profile contain                                        *)

LEMMA GoodGrows ==
    ASSUME NEW copy, NEW a, NEW b, a \subseteq b, Good(copy, a)
    PROVE  Good(copy, b)
BY DEF Good

LEMMA GoodRead ==
    ASSUME NEW doc \in Profiles, NEW known, Good(doc, known)
    PROVE  Good(Read(doc), known)
<1>1. \A s \in Slots : Read(doc)[s] = doc[s]
  BY ReadIs, SlotsAreFields DEF Read, Profiles
<1> QED BY <1>1 DEF Good

LEMMA GoodSaved ==
    ASSUME NEW copy, copy = None \/ copy \in Profiles, NEW known,
           copy # None => Good(copy, known)
    PROVE  Good(Saved(copy), known)
<1>1. Blank \notin Photos /\ Slots \subseteq Fields /\ "imageUrl1" \in Slots
  BY ValuesAssumption, SlotsAreFields DEF Photos, Slots
<1>2. \A s \in Slots : Saved(copy)[s] # Missing
  BY <1>1, SavedIs
<1>3. \A s \in Slots : Saved(copy)[s] = Blank \/ (copy # None /\ Saved(copy)[s] = copy[s])
  BY <1>1, SavedIs
<1> QED BY <1>1, <1>2, <1>3 DEF Good

LEMMA GoodRegistered ==
    ASSUME NEW name \in Texts, NEW photo \in Photos, NEW known, photo \in known
    PROVE  Good(Registered(name, photo), known)
<1>1. Missing \notin Photos
  BY ValuesAssumption DEF Photos
<1> QED BY <1>1, RegisteredIs DEF Good, Slots

LEMMA GoodSet ==
    ASSUME NEW copy \in Profiles, NEW s \in Slots, NEW photo \in Photos, NEW known,
           photo \in known, Good(copy, known)
    PROVE  Good([copy EXCEPT ![s] = photo], known)
<1>1. Missing \notin Photos
  BY ValuesAssumption DEF Photos
<1>2. \A t \in Slots : [copy EXCEPT ![s] = photo][t] = IF t = s THEN photo ELSE copy[t]
  BY SlotsAreFields DEF Profiles
<1> QED BY <1>1, <1>2 DEF Good

LEMMA GoodView ==
    ASSUME Typing, NEW album, CopiesFrom(album), NEW u \in Users, LocalView(u) # None
    PROVE  Good(LocalView(u), album[u])
<1>1. CASE u = session /\ queue[u] # <<>>
  <2>1. Last(queue[u]) = queue[u][Len(queue[u])] /\ Len(queue[u]) \in 1..Len(queue[u])
    BY <1>1, LastIs DEF Typing
  <2>2. Good(queue[u][Len(queue[u])].data, album[u])
    BY <2>1 DEF CopiesFrom
  <2> QED BY <1>1, <2>1, <2>2 DEF LocalView
<1>2. CASE ~(u = session /\ queue[u] # <<>>)
  BY <1>2 DEF LocalView, CopiesFrom
<1> QED BY <1>1, <1>2

\* A photograph that is nobody's may become u's.
LEMMA AlbumGrows ==
    ASSUME NEW album \in Albums, NEW u \in Users, NEW photo \in Photos,
           \A v, w \in Users : v # w => album[v] \cap album[w] = {},
           \A v \in Users : photo \notin album[v]
    PROVE  \E b \in Albums :
              /\ \A v, w \in Users : v # w => b[v] \cap b[w] = {}
              /\ b[u] = album[u] \cup {photo}
              /\ \A v \in Users \ {u} : b[v] = album[v]
<1> DEFINE b == [album EXCEPT ![u] = album[u] \cup {photo}]
<1>1. b \in Albums /\ b[u] = album[u] \cup {photo} /\ \A v \in Users \ {u} : b[v] = album[v]
  BY DEF Albums
<1> HIDE DEF b
<1>2. \A v, w \in Users : v # w => b[v] \cap b[w] = {}
  BY <1>1
<1> QED BY <1>1, <1>2

LEMMA CopiesGoodInit == Init => CopiesGood
<1> SUFFICES ASSUME Init PROVE CopiesGood
  OBVIOUS
<1>1. \A u \in Users : docs[u] = None /\ queue[u] = <<>>
  BY DEF Init
<1>2. form = None /\ home.data = None
  BY DEF Init, Unknown
<1> DEFINE none == [u \in Users |-> {}]
<1>3. none \in Albums /\ SharedOut(none) /\ CopiesFrom(none)
  BY <1>1, <1>2 DEF Albums, SharedOut, CopiesFrom
<1> QED BY <1>3 DEF CopiesGood

LEMMA CopiesGoodNext ==
    ASSUME Typing, SettingsInFront, CopiesGood, Next
    PROVE  CopiesGood'
<1>a. PICK album \in Albums : SharedOut(album) /\ CopiesFrom(album)
  BY DEF CopiesGood
<1> DEFINE DocsGood(a)  == \A u \in Users : docs[u] # None => Good(docs[u], a[u])
           QueueGood(a) == \A u \in Users : \A k \in 1..Len(queue[u]) :
                                             Good(queue[u][k].data, a[u])
           FormGood(a)  == form # None => Good(form, a[session])
           HomeGood(a)  == home.data # None => Good(home.data, a[home.who])
<1>0. DocsGood(album) /\ QueueGood(album) /\ FormGood(album) /\ HomeGood(album)
  BY <1>a DEF CopiesFrom
<1>b. ASSUME NEW a \in Albums, SharedOut(a)',
             DocsGood(a)', QueueGood(a)', FormGood(a)', HomeGood(a)'
      PROVE  CopiesGood'
  BY <1>b DEF CopiesGood, CopiesFrom
<1>c. uploaded \subseteq uploaded' => SharedOut(album)'
  BY <1>a DEF SharedOut
<1>d. ASSUME uploaded \subseteq uploaded',
             DocsGood(album)', QueueGood(album)', FormGood(album)', HomeGood(album)'
      PROVE  CopiesGood'
  BY <1>a, <1>b, <1>c, <1>d
<1>1. ASSUME NEW u \in Users, HomeArrives(u) PROVE CopiesGood'
  <2>1. LocalView(u) \in Profiles /\ Good(LocalView(u), album[u])
    BY <1>a, <1>1, ViewIs, GoodView DEF HomeArrives
  <2>2. home'.data = Read(LocalView(u)) /\ home'.who = u /\ Good(Read(LocalView(u)), album[u])
    BY <1>1, <2>1, GoodRead DEF HomeArrives
  <2>3. UNCHANGED <<docs, queue, form, session, uploaded>>
    BY <1>1 DEF HomeArrives, settings, storage
  <2> QED BY <1>0, <1>d, <2>2, <2>3
<1>2. ASSUME NEW u \in Users, HomeFails(u) \/ Login(u) PROVE CopiesGood'
  <2>1. UNCHANGED <<docs, queue, home, form, uploaded>> /\ (form = None \/ session' = session)
    BY <1>2 DEF HomeFails, Login, settings, storage, SettingsInFront
  <2> QED BY <1>0, <1>d, <2>1
<1>3. ASSUME NEW u \in Users, Register(u) PROVE CopiesGood'
  <2>1. PICK name \in Texts : queue' = [queue EXCEPT ![u] =
                       Append(@, [data |-> Registered(name, photos + 1),
                                  edited |-> Fields, caller |-> "registration"])]
    BY <1>3 DEF Register
  <2> DEFINE w == [data |-> Registered(name, photos + 1),
                   edited |-> Fields, caller |-> "registration"]
  <2>2. photos + 1 \in Photos /\ photos + 1 \notin uploaded
    BY <1>3, BoundsAssumption DEF Register, Typing, TypeOK, Photos
  <2>3. PICK b \in Albums :
              /\ \A x, y \in Users : x # y => b[x] \cap b[y] = {}
              /\ b[u] = album[u] \cup {photos + 1}
              /\ \A v \in Users \ {u} : b[v] = album[v]
    BY <1>a, <2>2, AlbumGrows DEF SharedOut
  <2>4. w \in Writes /\ Good(w.data, b[u])
    BY <2>2, <2>3, RegisteredIs, GoodRegistered DEF Writes
  <2>5. /\ UNCHANGED <<docs, home>> /\ form' = None /\ queue[u] = <<>>
        /\ uploaded' = uploaded \cup {photos + 1}
    BY <1>3 DEF Register, settings, SettingsInFront
  <2>6. \A v \in Users : album[v] \subseteq b[v]
    BY <2>3
  <2>7. SharedOut(b)'
    BY <1>a, <2>3, <2>5 DEF SharedOut
  <2>8. QueueGood(b)'
    <3> HIDE DEF w
    <3>1. queue'[u] = <<w>> /\ \A v \in Users \ {u} : queue'[v] = queue[v]
      BY <2>1, <2>5 DEF Typing, w
    <3>2. \A k \in 1..Len(queue'[u]) : Good(queue'[u][k].data, b[u])
      BY <2>4, <3>1
    <3>3. \A v \in Users \ {u} : \A k \in 1..Len(queue'[v]) : Good(queue'[v][k].data, b[v])
      BY <1>0, <2>3, <3>1
    <3> QED BY <3>2, <3>3
  <2>9. home.data # None => home.who \in Users
    BY DEF Typing, TypeOK, Unknown
  <2>10. DocsGood(b)' /\ FormGood(b)' /\ HomeGood(b)'
    BY <1>0, <2>5, <2>6, <2>9, GoodGrows
  <2> QED BY <1>b, <2>7, <2>8, <2>10
<1>4. ASSUME NEW u \in Users, WriteAcknowledged(u) PROVE CopiesGood'
  <2>1. queue[u] # <<>> /\ UNCHANGED <<home, uploaded, session>>
    BY <1>4 DEF WriteAcknowledged, storage
  <2>2. /\ docs' = [docs EXCEPT ![u] = Head(queue[u]).data]
        /\ queue' = [queue EXCEPT ![u] =
                        IF Head(queue[u]).caller = "settings"
                        THEN LeftBy(Tail(@), {"settings"}, "left") ELSE Tail(@)]
        /\ SaveEnds(u, Head(queue[u]).caller)
    BY <1>4 DEF WriteAcknowledged
  <2>3. Head(queue[u]) = queue[u][1] /\ 1 \in 1..Len(queue[u])
        /\ Tail(queue[u]) \in Seq(Writes)
        /\ Len(Tail(queue[u])) = Len(queue[u]) - 1
        /\ \A k \in 1..(Len(queue[u]) - 1) : /\ Tail(queue[u])[k] = queue[u][k + 1]
                                             /\ k + 1 \in 1..Len(queue[u])
    BY <2>1, TailIs DEF Typing
  <2>4. \A k \in 1..Len(Tail(queue[u])) : Good(Tail(queue[u])[k].data, album[u])
    BY <1>0, <2>3
  <2>5. LET q == LeftBy(Tail(queue[u]), {"settings"}, "left")
        IN  Len(q) = Len(Tail(queue[u])) /\ \A k \in 1..Len(q) : Good(q[k].data, album[u])
    <3>1. \A q \in Seq(Writes) :
             /\ Len(LeftBy(q, {"settings"}, "left")) = Len(q)
             /\ \A k \in 1..Len(q) : LeftBy(q, {"settings"}, "left")[k].data = q[k].data
      BY LeftByIs DEF Callers
    <3> QED BY <2>3, <2>4, <3>1
  <2>6. DocsGood(album)'
    <3>1. Good(docs'[u], album[u]) /\ \A v \in Users \ {u} : docs'[v] = docs[v]
      BY <1>0, <2>2, <2>3 DEF Typing
    <3> QED BY <1>0, <2>1, <3>1
  <2>7. QueueGood(album)'
    <3>1. \A v \in Users \ {u} : queue'[v] = queue[v]
      BY <2>2 DEF Typing
    <3>2. \A k \in 1..Len(queue'[u]) : Good(queue'[u][k].data, album[u])
      BY <2>2, <2>4, <2>5 DEF Typing
    <3> QED BY <1>0, <2>1, <3>1, <3>2
  <2>8. FormGood(album)' /\ HomeGood(album)'
    <3>1. form' = None \/ form' = form
      BY <2>2 DEF SaveEnds, Leave, settings
    <3> QED BY <1>0, <2>1, <3>1
  <2> QED BY <1>d, <2>1, <2>6, <2>7, <2>8
<1>5. ASSUME NEW u \in Users, WriteRefused(u) PROVE CopiesGood'
  <2>1. queue[u] # <<>> /\ UNCHANGED <<docs, home, form, uploaded, session>>
        /\ queue' = [queue EXCEPT ![u] = Tail(@)]
    BY <1>5 DEF WriteRefused, settings, storage
  <2>2. Len(Tail(queue[u])) = Len(queue[u]) - 1
        /\ \A k \in 1..(Len(queue[u]) - 1) : /\ Tail(queue[u])[k] = queue[u][k + 1]
                                             /\ k + 1 \in 1..Len(queue[u])
    BY <2>1, TailIs DEF Typing
  <2>3. \A k \in 1..Len(Tail(queue[u])) : Good(Tail(queue[u])[k].data, album[u])
    BY <1>0, <2>2
  <2>4. QueueGood(album)'
    BY <1>0, <2>1, <2>3 DEF Typing
  <2> QED BY <1>0, <1>d, <2>1, <2>4
<1>6. ASSUME NEW f \in Typed, Edit(f) PROVE CopiesGood'
  <2>1. PICK value \in Inputs(f) : form' = [form EXCEPT ![f] = value]
    BY <1>6 DEF Edit
  <2>2. form # None /\ form \in Profiles /\ UNCHANGED <<docs, queue, home, uploaded, session>>
    BY <1>6 DEF Edit, Typing, TypeOK, storage
  <2>3. \A s \in Slots : form'[s] = form[s]
    BY <2>1, <2>2, EditsAssumption, SlotsAreFields DEF Profiles
  <2>4. FormGood(album)'
    BY <1>0, <2>2, <2>3 DEF Good
  <2> QED BY <1>0, <1>d, <2>2, <2>4
<1>7. ASSUME NEW s \in Picked, PickPhoto(s) PROVE CopiesGood'
  <2>1. UNCHANGED <<docs, queue, home, form, uploaded, session>>
    BY <1>7 DEF PickPhoto
  <2> QED BY <1>0, <1>d, <2>1
<1>8. CASE OpenSettings \/ FormFails \/ UploadFails
  <2>1. UNCHANGED <<docs, queue, home, uploaded, session>> /\ (form' = None \/ form' = form)
    BY <1>8 DEF OpenSettings, FormFails, UploadFails, storage
  <2> QED BY <1>0, <1>d, <2>1
<1>9. CASE FormArrives
  <2>1. session \in Users
    BY <1>9 DEF FormArrives, SettingsInFront, Typing, TypeOK
  <2>2. LocalView(session) \in Profiles /\ Good(LocalView(session), album[session])
    BY <1>a, <1>9, <2>1, ViewIs, GoodView DEF FormArrives
  <2>3. form' = Read(LocalView(session)) /\ UNCHANGED <<docs, queue, home, uploaded, session>>
    BY <1>9 DEF FormArrives, storage
  <2>4. FormGood(album)'
    BY <2>2, <2>3, GoodRead
  <2> QED BY <1>0, <1>d, <2>3, <2>4
<1>10. CASE UploadEnds
  <2>1. /\ upload.slot \in Slots /\ upload.photo \in Photos /\ upload.photo \notin uploaded
        /\ session \in Users
    BY <1>10 DEF UploadEnds, Typing, TypeOK, SettingsInFront
  <2>2. UNCHANGED <<docs, queue, home, session>> /\ uploaded' = uploaded \cup {upload.photo}
        /\ (form = None => form' = form)
        /\ (form # None => form' = [form EXCEPT ![upload.slot] = upload.photo])
    BY <1>10 DEF UploadEnds
  <2>3. PICK b \in Albums :
              /\ \A x, y \in Users : x # y => b[x] \cap b[y] = {}
              /\ b[session] = album[session] \cup {upload.photo}
              /\ \A v \in Users \ {session} : b[v] = album[v]
    BY <1>a, <2>1, AlbumGrows DEF SharedOut
  <2>4. (\A v \in Users : album[v] \subseteq b[v]) /\ upload.photo \in b[session]
    BY <2>3
  <2>5. SharedOut(b)'
    BY <1>a, <2>2, <2>3 DEF SharedOut
  <2>6. FormGood(b)'
    <3>1. CASE form = None
      BY <2>2, <3>1
    <3>2. CASE form # None
      <4>1. form \in Profiles /\ Good(form, b[session])
        BY <1>0, <2>1, <2>4, <3>2, GoodGrows DEF Typing, TypeOK
      <4>2. Good([form EXCEPT ![upload.slot] = upload.photo], b[session])
        BY <2>1, <2>4, <4>1, GoodSet
      <4> QED BY <2>2, <3>2, <4>2
    <3> QED BY <3>1, <3>2
  <2>7. home.data # None => home.who \in Users
    BY DEF Typing, TypeOK, Unknown
  <2>8. DocsGood(b)' /\ QueueGood(b)' /\ HomeGood(b)'
    BY <1>0, <2>2, <2>4, <2>7, GoodGrows
  <2> QED BY <1>b, <2>5, <2>6, <2>8
<1>11. CASE Save
  <2>1. session \in Users /\ UNCHANGED <<docs, home, form, uploaded, session>>
    BY <1>11 DEF Save, SettingsInFront, settings, storage
  <2> DEFINE w == [data |-> Saved(form), edited |-> edited, caller |-> "settings"]
  <2>2. queue' = [queue EXCEPT ![session] = Append(@, w)]
    BY <1>11 DEF Save
  <2>3. w \in Writes /\ Good(w.data, album[session])
    BY <1>0, SavedIs, GoodSaved DEF Typing, TypeOK, Writes
  <2>4. QueueGood(album)'
    <3> HIDE DEF w
    <3>1. queue'[session] = Append(queue[session], w)
          /\ \A v \in Users \ {session} : queue'[v] = queue[v]
      BY <2>1, <2>2 DEF Typing
    <3>2. /\ Len(queue'[session]) = Len(queue[session]) + 1
          /\ \A k \in 1..Len(queue[session]) : queue'[session][k] = queue[session][k]
          /\ queue'[session][Len(queue[session]) + 1] = w
      BY <2>1, <2>3, <3>1, AppendIs DEF Typing
    <3>3. Len(queue[session]) \in Nat
      BY <2>1 DEF Typing
    <3>4. ASSUME NEW k \in 1..Len(queue'[session])
          PROVE  Good(queue'[session][k].data, album[session])
      <4>1. k \in 1..Len(queue[session]) \/ k = Len(queue[session]) + 1
        BY <3>2, <3>3
      <4> QED BY <1>0, <2>1, <2>3, <3>2, <4>1
    <3> QED BY <1>0, <2>1, <3>1, <3>4
  <2> QED BY <1>0, <1>d, <2>1, <2>4
<1>12. ASSUME CancelSettings \/ Logout PROVE CopiesGood'
  <2>1. session \in Users /\ UNCHANGED <<docs, home, uploaded>> /\ form' = None
        /\ queue' = [queue EXCEPT ![session] = LeftBy(@, {"settings"}, "left")]
    BY <1>12 DEF CancelSettings, Logout, SettingsInFront, Leave, storage
  <2>2. \A k \in 1..Len(queue'[session]) : Good(queue'[session][k].data, album[session])
    <3>1. \A q \in Seq(Writes) :
             /\ Len(LeftBy(q, {"settings"}, "left")) = Len(q)
             /\ \A k \in 1..Len(q) : LeftBy(q, {"settings"}, "left")[k].data = q[k].data
      BY LeftByIs DEF Callers
    <3>2. queue[session] \in Seq(Writes)
          /\ queue'[session] = LeftBy(queue[session], {"settings"}, "left")
      BY <2>1 DEF Typing
    <3> QED BY <1>0, <2>1, <3>1, <3>2
  <2>3. \A v \in Users \ {session} : queue'[v] = queue[v]
    BY <2>1 DEF Typing
  <2>4. QueueGood(album)'
    BY <1>0, <2>1, <2>2, <2>3
  <2> QED BY <1>0, <1>d, <2>1, <2>4
<1>13. CASE Launch
  <2>1. UNCHANGED <<docs, uploaded, session>> /\ form' = None /\ home' = Unknown
        /\ queue' = [u \in Users |-> LeftBy(queue[u], {"settings", "left", "registration"}, "lost")]
    BY <1>13 DEF Launch, storage
  <2>2. ASSUME NEW u \in Users
        PROVE  \A k \in 1..Len(queue'[u]) : Good(queue'[u][k].data, album[u])
    <3>1. /\ queue'[u] = LeftBy(queue[u], {"settings", "left", "registration"}, "lost")
          /\ queue[u] \in Seq(Writes)
      BY <2>1 DEF Typing
    <3>2. /\ Len(queue'[u]) = Len(queue[u])
          /\ \A k \in 1..Len(queue[u]) : queue'[u][k].data = queue[u][k].data
      BY <3>1, LeftByIs DEF Callers
    <3> QED BY <1>0, <3>2
  <2>3. home'.data = None
    BY <2>1 DEF Unknown
  <2> QED BY <1>0, <1>d, <2>1, <2>2, <2>3
<1> HIDE DEF DocsGood, QueueGood, FormGood, HomeGood
<1> QED BY <1>1, <1>2, <1>3, <1>4, <1>5, <1>6, <1>7, <1>8, <1>9, <1>10, <1>11, <1>12,
           <1>13 DEF Next

-----------------------------------------------------------------------------
(* What the SDK shows of a profile                                         *)

LEMMA ViewOfLast ==
    ASSUME Typing, NEW u \in Users, u = session, queue[u] # <<>>
    PROVE  LocalView(u) = queue[u][Len(queue[u])].data
BY LastIs DEF LocalView, Typing

LEMMA ViewOfDoc ==
    ASSUME NEW u \in Users, u # session \/ queue[u] = <<>>
    PROVE  LocalView(u) = docs[u]
BY DEF LocalView

LEMMA SameView ==
    ASSUME NEW u \in Users, UNCHANGED <<session, docs, queue>>
    PROVE  LocalView(u)' = LocalView(u)
BY DEF LocalView

\* Steps that change only whom the callbacks call.
Relabels ==
    /\ docs' = docs
    /\ \A u \in Users :
          /\ Len(queue'[u]) = Len(queue[u])
          /\ \A k \in 1..Len(queue[u]) : /\ queue'[u][k].data = queue[u][k].data
                                         /\ queue'[u][k].edited = queue[u][k].edited

LEMMA LeavesRelabel ==
    ASSUME Typing, SettingsInFront, CancelSettings \/ Logout \/ Launch
    PROVE  /\ Relabels
           /\ CancelSettings =>
                \A u \in Users : \A k \in 1..Len(queue[u]) :
                    queue[u][k].caller # "lost" => queue'[u][k].caller # "lost"
<1> USE DEF Typing
<1>1. \A q \in Seq(Writes), callers \in SUBSET Callers, caller \in Callers :
         LET left == LeftBy(q, callers, caller)
         IN  /\ Len(left) = Len(q)
             /\ \A k \in 1..Len(q) :
                   /\ left[k].data = q[k].data /\ left[k].edited = q[k].edited
                   /\ left[k].caller = IF q[k].caller \in callers THEN caller ELSE q[k].caller
  BY LeftByIs
<1>2. ASSUME CancelSettings \/ Logout
      PROVE  /\ Relabels
             /\ \A u \in Users : \A k \in 1..Len(queue[u]) :
                    queue[u][k].caller # "lost" => queue'[u][k].caller # "lost"
  <2>1. session \in Users /\ docs' = docs
        /\ queue' = [queue EXCEPT ![session] = LeftBy(@, {"settings"}, "left")]
    BY <1>2 DEF CancelSettings, Logout, SettingsInFront
  <2>2. queue'[session] = LeftBy(queue[session], {"settings"}, "left")
        /\ \A u \in Users \ {session} : queue'[u] = queue[u]
    BY <2>1
  <2>3. LET q == queue[session] IN
        /\ Len(queue'[session]) = Len(q)
        /\ \A k \in 1..Len(q) :
              /\ queue'[session][k].data = q[k].data /\ queue'[session][k].edited = q[k].edited
              /\ q[k].caller # "lost" => queue'[session][k].caller # "lost"
    <3>1. queue[session] \in Seq(Writes)
      BY <2>1
    <3>2. LET q == queue[session]
              left == LeftBy(q, {"settings"}, "left")
          IN  /\ Len(left) = Len(q)
              /\ \A k \in 1..Len(q) :
                   /\ left[k].data = q[k].data /\ left[k].edited = q[k].edited
                   /\ left[k].caller = IF q[k].caller \in {"settings"} THEN "left" ELSE q[k].caller
      <4>1. \A q \in Seq(Writes) :
               LET left == LeftBy(q, {"settings"}, "left")
               IN  /\ Len(left) = Len(q)
                   /\ \A k \in 1..Len(q) :
                         /\ left[k].data = q[k].data /\ left[k].edited = q[k].edited
                         /\ left[k].caller = IF q[k].caller \in {"settings"} THEN "left"
                                            ELSE q[k].caller
        BY LeftByIs DEF Callers
      <4> QED BY <3>1, <4>1
    <3> QED BY <2>2, <3>2
  <2>4. \A u \in Users \ {session} : Len(queue'[u]) = Len(queue[u]) /\ queue'[u] = queue[u]
    BY <2>2
  <2>5. \A u \in Users : u = session \/ u \in Users \ {session}
    OBVIOUS
  <2>6. Relabels
    BY <2>1, <2>3, <2>4, <2>5, Zenon DEF Relabels
  <2>7. \A u \in Users : \A k \in 1..Len(queue[u]) :
            queue[u][k].caller # "lost" => queue'[u][k].caller # "lost"
    BY <2>3, <2>4, <2>5, Zenon
  <2> QED BY <2>6, <2>7
<1>3. CASE Launch
  <2>1. docs' = docs
        /\ queue' = [u \in Users |-> LeftBy(queue[u], {"settings", "left", "registration"}, "lost")]
    BY <1>3 DEF Launch
  <2>2. \A u \in Users :
           queue'[u] = LeftBy(queue[u], {"settings", "left", "registration"}, "lost")
    BY <2>1
  <2>3. Relabels
    BY <1>1, <2>1, <2>2 DEF Relabels, Callers
  <2>4. ~CancelSettings \/ Relabels
    BY <2>3
  <2>5. CancelSettings => \A u \in Users : \A k \in 1..Len(queue[u]) :
                    queue[u][k].caller # "lost" => queue'[u][k].caller # "lost"
    BY <1>2
  <2> QED BY <2>3, <2>5
<1> QED BY <1>2, <1>3

LEMMA RelabelledView ==
    ASSUME Typing, Typing', Relabels, session' = session, NEW u \in Users
    PROVE  LocalView(u)' = LocalView(u)
<1>1. queue[u] \in Seq(Writes) /\ queue'[u] \in Seq(Writes) /\ Len(queue'[u]) = Len(queue[u])
  BY DEF Typing, Relabels
<1>2. queue[u] = <<>> <=> queue'[u] = <<>>
  BY <1>1
<1>3. CASE u = session /\ queue[u] # <<>>
  <2>1. LocalView(u) = queue[u][Len(queue[u])].data /\ Len(queue[u]) \in 1..Len(queue[u])
    BY <1>3, ViewOfLast, LastIs DEF Typing
  <2>2. Last(queue'[u]) = queue'[u][Len(queue'[u])]
    BY <1>1, <1>2, <1>3, LastIs
  <2>3. LocalView(u)' = Last(queue'[u]).data
    BY <1>2, <1>3 DEF LocalView
  <2> QED BY <1>1, <2>1, <2>2, <2>3 DEF Relabels
<1>4. CASE ~(u = session /\ queue[u] # <<>>)
  BY <1>2, <1>4 DEF LocalView, Relabels
<1> QED BY <1>3, <1>4

\* What an acknowledgement leaves of the queue.
LEMMA Acknowledged ==
    ASSUME Typing, NEW u \in Users, WriteAcknowledged(u)
    PROVE  /\ u = session /\ queue[u] # <<>> /\ Len(queue[u]) >= 1
           /\ docs' = [docs EXCEPT ![u] = queue[u][1].data]
           /\ \A v \in Users \ {u} : docs'[v] = docs[v] /\ queue'[v] = queue[v]
           /\ docs'[u] = queue[u][1].data
           /\ Len(queue'[u]) = Len(queue[u]) - 1
           /\ \A k \in 1..(Len(queue[u]) - 1) :
                 /\ queue'[u][k].data = queue[u][k + 1].data
                 /\ queue'[u][k].edited = queue[u][k + 1].edited
                 /\ queue[u][1].caller # "settings" => queue'[u][k] = queue[u][k + 1]
           /\ SaveEnds(u, queue[u][1].caller)
<1>1. queue[u] # <<>> /\ u = session
      /\ docs' = [docs EXCEPT ![u] = Head(queue[u]).data]
      /\ queue' = [queue EXCEPT ![u] =
                      IF Head(queue[u]).caller = "settings"
                      THEN LeftBy(Tail(@), {"settings"}, "left") ELSE Tail(@)]
      /\ SaveEnds(u, Head(queue[u]).caller)
  BY DEF WriteAcknowledged
<1>2. /\ Head(queue[u]) = queue[u][1] /\ Len(queue[u]) >= 1
      /\ Tail(queue[u]) \in Seq(Writes) /\ Len(Tail(queue[u])) = Len(queue[u]) - 1
      /\ \A k \in 1..(Len(queue[u]) - 1) : Tail(queue[u])[k] = queue[u][k + 1]
  BY <1>1, TailIs DEF Typing
<1>3. LET left == LeftBy(Tail(queue[u]), {"settings"}, "left")
      IN  /\ Len(left) = Len(queue[u]) - 1
          /\ \A k \in 1..(Len(queue[u]) - 1) : /\ left[k].data = queue[u][k + 1].data
                                               /\ left[k].edited = queue[u][k + 1].edited
  <2>1. \A q \in Seq(Writes) :
           /\ Len(LeftBy(q, {"settings"}, "left")) = Len(q)
           /\ \A k \in 1..Len(q) : /\ LeftBy(q, {"settings"}, "left")[k].data = q[k].data
                                   /\ LeftBy(q, {"settings"}, "left")[k].edited = q[k].edited
    BY LeftByIs DEF Callers
  <2> DEFINE rest == Tail(queue[u])
  <2>2. /\ Len(LeftBy(rest, {"settings"}, "left")) = Len(rest)
        /\ \A k \in 1..Len(rest) :
              /\ LeftBy(rest, {"settings"}, "left")[k].data = rest[k].data
              /\ LeftBy(rest, {"settings"}, "left")[k].edited = rest[k].edited
    BY <1>2, <2>1
  <2> QED BY <1>2, <2>2
<1>4. queue'[u] = IF queue[u][1].caller = "settings"
                  THEN LeftBy(Tail(queue[u]), {"settings"}, "left") ELSE Tail(queue[u])
  BY <1>1, <1>2 DEF Typing
<1>5. /\ Len(queue'[u]) = Len(queue[u]) - 1
      /\ \A k \in 1..(Len(queue[u]) - 1) :
                 /\ queue'[u][k].data = queue[u][k + 1].data
                 /\ queue'[u][k].edited = queue[u][k + 1].edited
                 /\ queue[u][1].caller # "settings" => queue'[u][k] = queue[u][k + 1]
  BY <1>2, <1>3, <1>4
<1>6. \A v \in Users \ {u} : docs'[v] = docs[v] /\ queue'[v] = queue[v]
  BY <1>1 DEF Typing
<1> QED BY <1>1, <1>2, <1>5, <1>6 DEF Typing

LEMMA AcknowledgedView ==
    ASSUME Typing, Typing', NEW u \in Users, WriteAcknowledged(u)
    PROVE  LocalView(u)' = LocalView(u)
<1>1. /\ u = session /\ queue[u] # <<>> /\ Len(queue[u]) >= 1
      /\ docs'[u] = queue[u][1].data /\ Len(queue'[u]) = Len(queue[u]) - 1
      /\ \A k \in 1..(Len(queue[u]) - 1) : queue'[u][k].data = queue[u][k + 1].data
  BY Acknowledged
<1>2. session' = session
  BY DEF WriteAcknowledged
<1>3. LocalView(u) = queue[u][Len(queue[u])].data
  BY <1>1, ViewOfLast
<1>4. queue'[u] \in Seq(Writes) /\ Len(queue[u]) \in Nat
  BY DEF Typing
<1>5. CASE Len(queue[u]) = 1
  <2>1. queue'[u] = <<>>
    BY <1>1, <1>4, <1>5
  <2> QED BY <1>1, <1>3, <1>5, <2>1 DEF LocalView
<1>6. CASE Len(queue[u]) # 1
  <2> DEFINE len == Len(queue[u])
  <2>0. len \in Nat /\ len >= 1 /\ len # 1
    BY <1>1, <1>4, <1>6
  <2> HIDE DEF len
  <2>01. len - 1 \in 1..(len - 1) /\ len - 1 # 0
    BY <2>0
  <2> USE DEF len
  <2>1. queue'[u] # <<>> /\ Len(queue[u]) - 1 \in 1..(Len(queue[u]) - 1)
    <3>1. Len(queue'[u]) # 0
      BY <1>1, <2>01
    <3> QED BY <2>01, <3>1
  <2>2. Last(queue'[u]) = queue'[u][Len(queue[u]) - 1]
    BY <1>1, <1>4, <2>1, LastIs
  <2>3. queue'[u][Len(queue[u]) - 1].data = queue[u][Len(queue[u])].data
    BY <1>1, <1>4, <2>1
  <2>4. LocalView(u)' = Last(queue'[u]).data
    BY <1>1, <1>2, <2>1 DEF LocalView
  <2> QED BY <1>3, <2>2, <2>3, <2>4
<1> QED BY <1>5, <1>6

-----------------------------------------------------------------------------
(* What a save changes                                                     *)

LEMMA KeepsSaved ==
    ASSUME NEW copy \in Profiles, NEW changed
    PROVE  /\ Keeps(copy, Saved(copy), changed)
           /\ Keeps(copy, Saved(Read(copy)), changed)
           /\ Keeps(Saved(copy), Saved(copy), changed)
<1>1. \A f \in Fields : copy[f] # Missing => Saved(copy)[f] = copy[f]
  BY SavedIs, NoneAssumption
<1>2. Read(copy) \in Profiles /\ \A f \in Fields : Read(copy)[f] = copy[f] \/ copy[f] = Missing
  BY ReadIs
<1>3. \A f \in Fields : Read(copy)[f] # Missing => Saved(Read(copy))[f] = Read(copy)[f]
  BY <1>2, SavedIs, NoneAssumption
<1> QED BY <1>1, <1>2, <1>3 DEF Keeps

LEMMA KeepsEdited ==
    ASSUME NEW old, NEW copy \in Profiles, NEW f \in Fields, NEW value \in Values,
           NEW changed, Keeps(old, Saved(copy), changed)
    PROVE  Keeps(old, Saved([copy EXCEPT ![f] = value]), changed \cup {f})
<1>1. copy # None /\ [copy EXCEPT ![f] = value] # None
      /\ \A g \in Fields \ {f} : [copy EXCEPT ![f] = value][g] = copy[g]
  BY NoneAssumption DEF Profiles
<1>2. \A g \in Fields \ {f} : Saved([copy EXCEPT ![f] = value])[g] = Saved(copy)[g]
  BY <1>1 DEF Saved
<1> QED BY <1>2 DEF Keeps

LEMMA KeepsInit == Init => WritesKeep /\ FormKeeps /\ HomeFollows
<1> SUFFICES ASSUME Init PROVE WritesKeep /\ FormKeeps /\ HomeFollows
  OBVIOUS
<1>1. \A u \in Users : docs[u] = None /\ queue[u] = <<>>
  BY DEF Init
<1>2. \A u \in Users : QueueKeeps(u)
  BY <1>1 DEF QueueKeeps
<1> QED BY <1>2 DEF Init, WritesKeep, FormKeeps, HomeFollows

LEMMA FormKeepsNext ==
    ASSUME Typing, Typing', SettingsInFront, SettingsInFront', FormKeeps, Next
    PROVE  FormKeeps'
<1>0. ASSUME form' = None PROVE FormKeeps'
  BY <1>0 DEF FormKeeps
<1>00. ASSUME form # None => session \in Users, UNCHANGED <<form, session, spoiled, edited>>,
              form # None => LocalView(session)' = LocalView(session)
       PROVE  FormKeeps'
  BY <1>00 DEF FormKeeps
<1>01. form # None => session \in Users
  BY DEF SettingsInFront
<1>1. ASSUME NEW u \in Users, HomeArrives(u) \/ HomeFails(u) PROVE FormKeeps'
  <2>1. UNCHANGED <<form, session, spoiled, edited, docs, queue>>
    BY <1>1 DEF HomeArrives, HomeFails, settings
  <2> QED BY <1>00, <1>01, <2>1, SameView
<1>2. ASSUME NEW u \in Users, Register(u) \/ Login(u) PROVE FormKeeps'
  <2>1. form' = None
    BY <1>2 DEF Register, Login, settings, SettingsInFront
  <2> QED BY <1>0, <2>1
<1>3. ASSUME NEW u \in Users, WriteAcknowledged(u) PROVE FormKeeps'
  <2>1. form' = None \/ UNCHANGED <<form, edited>>
    BY <1>3 DEF WriteAcknowledged, SaveEnds, Leave, settings
  <2>2. u = session /\ LocalView(u)' = LocalView(u) /\ UNCHANGED <<session, spoiled>>
    BY <1>3, AcknowledgedView DEF WriteAcknowledged
  <2>3. LocalView(session)' = LocalView(session)
    BY <2>2 DEF LocalView
  <2> QED BY <1>0, <1>00, <1>01, <2>1, <2>2, <2>3
<1>4. ASSUME NEW u \in Users, WriteRefused(u) PROVE FormKeeps'
  BY <1>4 DEF WriteRefused, FormKeeps
<1>5. ASSUME NEW f \in Typed, Edit(f) PROVE FormKeeps'
  <2>1. PICK value \in Inputs(f) : form' = [form EXCEPT ![f] = value]
    BY <1>5 DEF Edit
  <2>2. form # None /\ form \in Profiles /\ edited' = edited \cup {f}
        /\ UNCHANGED <<docs, queue, session, spoiled>>
    BY <1>5 DEF Edit, Typing, TypeOK, history
  <2>3. f \in Fields /\ value \in Values
    BY EditsAssumption DEF Inputs, Values
  <2>4. LocalView(session)' = LocalView(session)
    BY <1>01, <2>2 DEF LocalView
  <2> DEFINE view == LocalView(session)
  <2>5. ASSUME ~spoiled, view # None
        PROVE  Keeps(view, Saved(form'), edited')
    <3>1. Keeps(view, Saved(form), edited)
      BY <2>2, <2>5 DEF FormKeeps
    <3> HIDE DEF view
    <3>2. Keeps(view, Saved([form EXCEPT ![f] = value]), edited \cup {f})
      BY <2>2, <2>3, <3>1, KeepsEdited
    <3> QED BY <2>1, <2>2, <3>2
  <2> QED BY <2>2, <2>4, <2>5 DEF FormKeeps
<1>6. ASSUME NEW s \in Picked, PickPhoto(s) PROVE FormKeeps'
  <2>1. UNCHANGED <<form, session, spoiled, edited, docs, queue>>
    BY <1>6 DEF PickPhoto, history
  <2> QED BY <1>00, <1>01, <2>1, SameView
<1>7. CASE OpenSettings
  BY <1>0, <1>7 DEF OpenSettings
<1>8. CASE FormArrives
  <2>1. session \in Users
    BY <1>8 DEF FormArrives, SettingsInFront, Typing, TypeOK
  <2>2. LocalView(session) \in Profiles /\ form' = Read(LocalView(session))
        /\ UNCHANGED <<session, docs, queue>>
    BY <1>8, <2>1, ViewIs DEF FormArrives
  <2>3. LocalView(session)' = LocalView(session)
    BY <2>1, <2>2 DEF LocalView
  <2>4. Keeps(LocalView(session), Saved(Read(LocalView(session))), edited')
    BY <2>2, KeepsSaved
  <2> QED BY <2>2, <2>3, <2>4 DEF FormKeeps
<1>9. CASE FormFails \/ UploadFails
  <2>1. UNCHANGED <<form, session, spoiled, edited, docs, queue>>
    BY <1>9 DEF FormFails, UploadFails, history
  <2> QED BY <1>00, <1>01, <2>1, SameView
<1>10. CASE UploadEnds
  <2>1. UNCHANGED <<docs, queue, session, spoiled>>
    BY <1>10 DEF UploadEnds, history
  <2>2. CASE form = None
    BY <1>0, <1>10, <2>2 DEF UploadEnds
  <2>3. CASE form # None
    <3>1. /\ form' = [form EXCEPT ![upload.slot] = upload.photo]
          /\ edited' = edited \cup {upload.slot}
          /\ form \in Profiles /\ upload.slot \in Fields /\ upload.photo \in Values
      BY <1>10, <2>3, SlotsAreFields DEF UploadEnds, Typing, TypeOK, Values
    <3>2. LocalView(session)' = LocalView(session)
      BY <1>01, <2>1, <2>3 DEF LocalView
    <3> DEFINE view == LocalView(session)
    <3>3. ASSUME ~spoiled, view # None
          PROVE  Keeps(view, Saved(form'), edited')
      <4>1. Keeps(view, Saved(form), edited)
        BY <2>3, <3>3 DEF FormKeeps
      <4> HIDE DEF view
      <4>2. Keeps(view, Saved([form EXCEPT ![upload.slot] = upload.photo]),
                  edited \cup {upload.slot})
        BY <3>1, <4>1, KeepsEdited
      <4> QED BY <3>1, <4>2
    <3> QED BY <2>1, <3>2, <3>3 DEF FormKeeps
  <2> QED BY <2>2, <2>3
<1>11. CASE Save
  <2>1. session \in Users /\ UNCHANGED <<session, form, edited, docs>>
        /\ spoiled' = (spoiled \/ form = None)
        /\ queue' = [queue EXCEPT ![session] =
                        Append(@, [data |-> Saved(form), edited |-> edited, caller |-> "settings"])]
    BY <1>11 DEF Save, SettingsInFront, settings
  <2>2. [data |-> Saved(form), edited |-> edited, caller |-> "settings"] \in Writes
    BY SavedIs DEF Typing, TypeOK, Writes
  <2>3. queue'[session] # <<>> /\ Last(queue'[session]).data = Saved(form)
    <3>1. queue'[session] = Append(queue[session],
                [data |-> Saved(form), edited |-> edited, caller |-> "settings"])
      BY <2>1 DEF Typing
    <3> QED BY <2>1, <2>2, <3>1, AppendIs DEF Typing
  <2>4. LocalView(session)' = Saved(form)
    BY <2>1, <2>3 DEF LocalView
  <2>5. ASSUME form # None PROVE Keeps(Saved(form), Saved(form), edited)
    BY <2>5, KeepsSaved DEF Typing, TypeOK
  <2> QED BY <2>1, <2>4, <2>5 DEF FormKeeps
<1>12. CASE CancelSettings \/ Logout \/ Launch
  BY <1>0, <1>12 DEF CancelSettings, Logout, Launch, Leave
<1> QED BY <1>1, <1>2, <1>3, <1>4, <1>5, <1>6, <1>7, <1>8, <1>9, <1>10, <1>11, <1>12 DEF Next

LEMMA WritesKeepNext ==
    ASSUME Typing, Typing', SettingsInFront, WritesKeep, FormKeeps, Next
    PROVE  WritesKeep'
<1>00. ASSUME UNCHANGED <<docs, queue>>, spoiled' = spoiled
       PROVE  WritesKeep'
  BY <1>00 DEF WritesKeep, QueueKeeps
<1>0. ASSUME Relabels, spoiled' = spoiled
      PROVE  WritesKeep'
  <2> SUFFICES ASSUME ~spoiled, NEW u \in Users PROVE QueueKeeps(u)'
    BY <1>0 DEF WritesKeep
  <2>1. queue[u] \in Seq(Writes) /\ queue'[u] \in Seq(Writes) /\ docs' = docs
        /\ Len(queue'[u]) = Len(queue[u])
        /\ \A k \in 1..Len(queue[u]) : /\ queue'[u][k].data = queue[u][k].data
                                       /\ queue'[u][k].edited = queue[u][k].edited
    BY <1>0 DEF Relabels, Typing
  <2>2. QueueKeeps(u)
    BY DEF WritesKeep
  <2>3. ASSUME docs[u] # None, queue'[u] # <<>>
        PROVE  Keeps(docs[u], queue'[u][1].data, queue'[u][1].edited)
    <3>1. queue[u] # <<>> /\ 1 \in 1..Len(queue[u])
      BY <2>1, <2>3
    <3> QED BY <2>1, <2>2, <2>3, <3>1 DEF QueueKeeps
  <2>4. ASSUME NEW k \in 1..(Len(queue'[u]) - 1)
        PROVE  Keeps(queue'[u][k].data, queue'[u][k + 1].data, queue'[u][k + 1].edited)
    <3>1. k \in 1..Len(queue[u]) /\ k + 1 \in 1..Len(queue[u]) /\ k \in 1..(Len(queue[u]) - 1)
      BY <2>1
    <3> QED BY <2>1, <2>2, <3>1 DEF QueueKeeps
  <2> QED BY <2>1, <2>3, <2>4 DEF QueueKeeps
<1>1. ASSUME NEW u \in Users, HomeArrives(u) \/ HomeFails(u) \/ Login(u) PROVE WritesKeep'
  BY <1>00, <1>1 DEF HomeArrives, HomeFails, Login
<1>2. ASSUME NEW u \in Users, Register(u) PROVE WritesKeep'
  <2>1. docs[u] = None /\ queue[u] = <<>> /\ UNCHANGED <<docs, spoiled>>
    BY <1>2 DEF Register, history
  <2>2. /\ \A v \in Users \ {u} : queue'[v] = queue[v]
        /\ Len(queue'[u]) = 1
    <3>1. PICK w : queue' = [queue EXCEPT ![u] = Append(@, w)]
      BY <1>2 DEF Register
    <3> QED BY <2>1, <3>1 DEF Typing
  <2>3. QueueKeeps(u)'
    BY <2>1, <2>2 DEF QueueKeeps
  <2>4. \A v \in Users \ {u} : QueueKeeps(v) => QueueKeeps(v)'
    BY <2>1, <2>2 DEF QueueKeeps
  <2> QED BY <2>1, <2>3, <2>4 DEF WritesKeep
<1>3. ASSUME NEW u \in Users, WriteAcknowledged(u) PROVE WritesKeep'
  <2> SUFFICES ASSUME ~spoiled PROVE \A v \in Users : QueueKeeps(v)'
    BY <1>3 DEF WriteAcknowledged, WritesKeep
  <2>1. /\ queue[u] # <<>> /\ Len(queue[u]) >= 1
        /\ \A v \in Users \ {u} : docs'[v] = docs[v] /\ queue'[v] = queue[v]
        /\ docs'[u] = queue[u][1].data
        /\ Len(queue'[u]) = Len(queue[u]) - 1
        /\ \A k \in 1..(Len(queue[u]) - 1) : /\ queue'[u][k].data = queue[u][k + 1].data
                                             /\ queue'[u][k].edited = queue[u][k + 1].edited
    BY <1>3, Acknowledged
  <2>2. QueueKeeps(u) /\ queue[u] \in Seq(Writes) /\ queue'[u] \in Seq(Writes)
    BY DEF WritesKeep, Typing
  <2> DEFINE len == Len(queue[u])
  <2>20. len \in Nat
    BY <2>2
  <2>21. \A k \in 1..(len - 1) : Keeps(queue[u][k].data, queue[u][k + 1].data, queue[u][k + 1].edited)
    BY <2>2 DEF QueueKeeps
  <2>3. ASSUME queue'[u] # <<>>
        PROVE  Keeps(docs'[u], queue'[u][1].data, queue'[u][1].edited)
    <3>1. Len(queue'[u]) >= 1
      BY <2>2, <2>3
    <3>2. 1 \in 1..(len - 1)
      <4>1. len - 1 >= 1
        BY <2>1, <3>1
      <4> HIDE DEF len
      <4> QED BY <2>20, <4>1
    <3>3. Keeps(queue[u][1].data, queue[u][1 + 1].data, queue[u][1 + 1].edited)
      BY <2>21, <3>2
    <3>4. queue'[u][1].data = queue[u][1 + 1].data /\ queue'[u][1].edited = queue[u][1 + 1].edited
      BY <2>1, <3>2
    <3> QED BY <2>1, <3>3, <3>4
  <2>4. ASSUME NEW k \in 1..(Len(queue'[u]) - 1)
        PROVE  Keeps(queue'[u][k].data, queue'[u][k + 1].data, queue'[u][k + 1].edited)
    <3>1. k \in 1..(len - 1 - 1)
      BY <2>1, <2>4
    <3>2. k \in 1..(len - 1) /\ k + 1 \in 1..(len - 1)
      <4> HIDE DEF len
      <4> QED BY <2>20, <3>1
    <3>3. Keeps(queue[u][k + 1].data, queue[u][(k + 1) + 1].data, queue[u][(k + 1) + 1].edited)
      BY <2>21, <3>2
    <3>4. /\ queue'[u][k].data = queue[u][k + 1].data
          /\ queue'[u][k + 1].data = queue[u][(k + 1) + 1].data
          /\ queue'[u][k + 1].edited = queue[u][(k + 1) + 1].edited
      BY <2>1, <3>2
    <3> QED BY <3>3, <3>4
  <2>5. QueueKeeps(u)'
    BY <2>3, <2>4 DEF QueueKeeps
  <2>6. \A v \in Users \ {u} : QueueKeeps(v) => QueueKeeps(v)'
    BY <2>1 DEF QueueKeeps
  <2> QED BY <2>5, <2>6 DEF WritesKeep
<1>4. ASSUME NEW u \in Users, WriteRefused(u) PROVE WritesKeep'
  BY <1>4 DEF WriteRefused, WritesKeep
<1>5. ASSUME NEW f \in Typed, Edit(f) PROVE WritesKeep'
  BY <1>00, <1>5 DEF Edit, history
<1>6. ASSUME NEW s \in Picked, PickPhoto(s) PROVE WritesKeep'
  BY <1>00, <1>6 DEF PickPhoto, history
<1>7. CASE OpenSettings \/ FormArrives \/ FormFails
  BY <1>00, <1>7 DEF OpenSettings, FormArrives, FormFails, history
<1>8. CASE UploadEnds \/ UploadFails
  BY <1>00, <1>8 DEF UploadEnds, UploadFails, history
<1>9. CASE Save
  <2> DEFINE w == [data |-> Saved(form), edited |-> edited, caller |-> "settings"]
             q == queue[session]
  <2>1. /\ session \in Users /\ session' = session /\ docs' = docs /\ spoiled' = (spoiled \/ form = None)
        /\ queue' = [queue EXCEPT ![session] = Append(@, w)]
    BY <1>9 DEF Save, SettingsInFront
  <2>2. q \in Seq(Writes) /\ w \in Writes /\ Len(q) \in Nat
        /\ queue'[session] = Append(q, w)
        /\ \A v \in Users \ {session} : queue'[v] = queue[v]
    BY <2>1, SavedIs DEF Typing, TypeOK, Writes
  <2> SUFFICES ASSUME ~spoiled, form # None PROVE \A v \in Users : QueueKeeps(v)'
    BY <2>1 DEF WritesKeep
  <2>3. \A v \in Users \ {session} : QueueKeeps(v)'
    BY <2>1, <2>2 DEF WritesKeep, QueueKeeps
  <2>4. ASSUME NEW v \in Users, v = session PROVE QueueKeeps(v)'
    <3>1. QueueKeeps(session)
      BY <2>1 DEF WritesKeep
    <3>2. LocalView(session) # None => Keeps(LocalView(session), w.data, w.edited)
      BY DEF FormKeeps
    <3>3. w.data = Saved(form) /\ w.edited = edited
      OBVIOUS
    <3>4. CASE q = <<>>
      <4>1. Append(q, w) = <<w>>
        BY <3>4
      <4>2. LocalView(session) = docs[session]
        BY <2>1, <3>4, ViewOfDoc
      <4> HIDE DEF w
      <4>3. queue'[session] = <<w>>
        BY <2>2, <4>1
      <4>4. Len(queue'[session]) - 1 = 0 /\ queue'[session][1] = w
        BY <4>3
      <4>5. 1..0 = {}
        OBVIOUS
      <4>6. docs'[session] # None => Keeps(docs'[session], queue'[session][1].data,
                                           queue'[session][1].edited)
        BY <2>1, <3>2, <4>2, <4>4
      <4> QED BY <2>1, <2>4, <4>4, <4>5, <4>6 DEF QueueKeeps
    <3>5. CASE q # <<>>
      <4>1. LocalView(session) = q[Len(q)].data /\ LocalView(session) \in Profiles
            /\ Len(q) \in 1..Len(q)
        <5>1. LocalView(session) = q[Len(q)].data
          BY <2>1, <3>5, ViewOfLast
        <5>2. Last(q) = q[Len(q)] /\ Last(q) \in Writes /\ Len(q) \in 1..Len(q)
          BY <2>2, <3>5, LastIs
        <5> QED BY <5>1, <5>2 DEF Writes
      <4> HIDE DEF w
      <4>2. Keeps(q[Len(q)].data, w.data, w.edited)
        BY <3>2, <4>1, NoneAssumption
      <4>3. /\ Len(queue'[session]) = Len(q) + 1
            /\ \A k \in 1..Len(q) : queue'[session][k] = q[k]
            /\ queue'[session][Len(q) + 1] = w
        BY <2>2, AppendIs
      <4>4. ASSUME NEW k \in 1..(Len(queue'[session]) - 1)
            PROVE  Keeps(queue'[session][k].data, queue'[session][k + 1].data,
                         queue'[session][k + 1].edited)
        <5>1. k \in 1..(Len(q) - 1) \/ k = Len(q)
          BY <2>2, <4>3
        <5>2. CASE k = Len(q)
          BY <4>1, <4>2, <4>3, <5>2
        <5>3. CASE k \in 1..(Len(q) - 1)
          <6>1. k \in 1..Len(q) /\ k + 1 \in 1..Len(q)
            BY <2>2, <5>3
          <6>2. Keeps(q[k].data, q[k + 1].data, q[k + 1].edited)
            BY <3>1, <5>3 DEF QueueKeeps
          <6> QED BY <4>3, <6>1, <6>2
        <5> QED BY <5>1, <5>2, <5>3
      <4>5. docs'[session] # None =>
               Keeps(docs'[session], queue'[session][1].data, queue'[session][1].edited)
        <5>1. 1 \in 1..Len(q)
          BY <2>2, <4>1
        <5>2. docs[session] # None => Keeps(docs[session], q[1].data, q[1].edited)
          BY <3>1, <3>5 DEF QueueKeeps
        <5>3. queue'[session][1] = q[1] /\ docs' = docs
          BY <2>1, <4>3, <5>1
        <5> QED BY <5>2, <5>3
      <4> QED BY <2>1, <2>4, <4>4, <4>5 DEF QueueKeeps
    <3> QED BY <3>4, <3>5
  <2> QED BY <2>3, <2>4
<1>10. CASE CancelSettings \/ Logout \/ Launch
  <2>1. Relabels
    BY <1>10, LeavesRelabel
  <2>2. spoiled' = spoiled
    BY <1>10 DEF CancelSettings, Logout, Launch, history
  <2> QED BY <1>0, <2>1, <2>2
<1> QED BY <1>1, <1>2, <1>3, <1>4, <1>5, <1>6, <1>7, <1>8, <1>9, <1>10 DEF Next

-----------------------------------------------------------------------------
(* What the home screen knows                                              *)

LEMMA HomeFollowsNext ==
    ASSUME Typing, Typing', SettingsInFront, HomeFollows, Next
    PROVE  HomeFollows'
<1>0. homeGets \in [Users -> 0..MaxGets] /\ MaxGets \in Nat
  BY BoundsAssumption DEF Typing, TypeOK
\* Steps that change nothing the home screen follows.
<1>00. ASSUME UNCHANGED <<session, astray, homeGets, home, docs, queue>>
       PROVE  HomeFollows'
  BY <1>00 DEF HomeFollows, LocalView
<1>01. ASSUME astray' PROVE HomeFollows'
  BY <1>01 DEF HomeFollows
\* A fetch begins.
<1>02. ASSUME NEW u \in Users, FetchHome(u) PROVE HomeFollows'
  <2>1. homeGets'[u] = homeGets[u] + 1 /\ homeGets[u] \in Nat
    BY <1>0, <1>02 DEF FetchHome
  <2>2. homeGets'[u] # 0
    BY <2>1
  <2> QED BY <2>2 DEF HomeFollows
<1>1. ASSUME NEW u \in Users, HomeArrives(u) PROVE HomeFollows'
  <2> SUFFICES ASSUME ~astray' PROVE HomeFollows'
    BY <1>01
  <2>1. u = session /\ UNCHANGED <<session, docs, queue>>
        /\ home' = [who |-> u, data |-> Read(LocalView(u))]
    BY <1>1 DEF HomeArrives
  <2>2. home'.who = session' /\ home'.data = Read(LocalView(session))
    BY <2>1
  <2>3. LocalView(session)' = LocalView(session)
    BY <2>1 DEF LocalView
  <2>4. Read(LocalView(session))' = Read(LocalView(session))
    BY <2>3 DEF Read
  <2> QED BY <2>2, <2>4 DEF HomeFollows
<1>2. ASSUME NEW u \in Users, HomeFails(u) \/ Login(u) \/ WriteRefused(u) PROVE HomeFollows'
  BY <1>01, <1>2 DEF HomeFails, Login, WriteRefused
<1>3. ASSUME NEW u \in Users, Register(u) PROVE HomeFollows'
  BY <1>02, <1>3 DEF Register
<1>4. ASSUME NEW u \in Users, WriteAcknowledged(u) PROVE HomeFollows'
  <2>1. /\ u = session /\ queue[u] # <<>> /\ Len(queue[u]) >= 1
        /\ Len(queue'[u]) = Len(queue[u]) - 1
        /\ \A k \in 1..(Len(queue[u]) - 1) :
              queue[u][1].caller # "settings" => queue'[u][k] = queue[u][k + 1]
        /\ SaveEnds(u, queue[u][1].caller)
    BY <1>4, Acknowledged
  <2>2. FetchHome(u) \/ astray' \/ (queue[u][1].caller = "lost" /\ UNCHANGED <<homeGets, astray>>)
    BY <2>1 DEF SaveEnds
  <2>3. CASE queue[u][1].caller = "lost" /\ UNCHANGED <<homeGets, astray>>
    <3>1. UNCHANGED <<session, home>> /\ LocalView(u)' = LocalView(u)
      BY <1>4, AcknowledgedView DEF WriteAcknowledged
    <3>2. Read(LocalView(u))' = Read(LocalView(u))
      BY <3>1 DEF Read
    <3>3. CASE home.who = session /\ home.data = Read(LocalView(session))
      <4>1. home'.who = session' /\ home'.data = Read(LocalView(session))'
        BY <2>1, <3>1, <3>2, <3>3 DEF LocalView, Read
      <4> QED BY <4>1 DEF HomeFollows
    <3>4. CASE Last(queue[u]).caller # "lost"
      <4> DEFINE len == Len(queue[u])
      <4>1. /\ queue[u] \in Seq(Writes) /\ queue'[u] \in Seq(Writes)
            /\ len \in Nat /\ len >= 1 /\ Len(queue'[u]) = len - 1
        BY <2>1 DEF Typing
      <4>2. Last(queue[u]) = queue[u][len]
        BY <2>1, <4>1, LastIs
      <4>3. len # 1
        BY <2>3, <3>4, <4>2
      <4>4. len - 1 \in 1..(len - 1) /\ len - 1 # 0 /\ (len - 1) + 1 = len
        <5> HIDE DEF len
        <5> QED BY <4>1, <4>3
      <4>5. queue'[u] # <<>>
        <5>1. Len(queue'[u]) # 0
          BY <4>1, <4>4
        <5> QED BY <5>1
      <4>6. Last(queue'[u]) = queue'[u][len - 1]
        BY <4>1, <4>5, LastIs
      <4>7. queue'[u][len - 1] = queue[u][(len - 1) + 1]
        BY <2>1, <2>3, <4>4
      <4>8. Last(queue'[u]).caller # "lost"
        BY <3>4, <4>2, <4>4, <4>6, <4>7
      <4>9. queue'[session'] # <<>> /\ Last(queue'[session']).caller # "lost"
        BY <2>1, <3>1, <4>5, <4>8
      <4> QED BY <4>9 DEF HomeFollows
    <3> QED BY <2>1, <2>3, <3>1, <3>3, <3>4 DEF HomeFollows
  <2> QED BY <1>01, <1>02, <2>2, <2>3
<1>5. ASSUME NEW f \in Typed, Edit(f) PROVE HomeFollows'
  BY <1>00, <1>5 DEF Edit, history
<1>6. ASSUME NEW s \in Picked, PickPhoto(s) PROVE HomeFollows'
  BY <1>00, <1>6 DEF PickPhoto, history
<1>7. CASE OpenSettings \/ FormArrives \/ FormFails
  BY <1>00, <1>7 DEF OpenSettings, FormArrives, FormFails, history
<1>8. CASE UploadEnds \/ UploadFails
  BY <1>00, <1>8 DEF UploadEnds, UploadFails, history
<1>9. CASE Save
  <2>1. session \in Users /\ session' = session
        /\ queue' = [queue EXCEPT ![session] =
                        Append(@, [data |-> Saved(form), edited |-> edited, caller |-> "settings"])]
    BY <1>9 DEF Save, SettingsInFront
  <2>2. [data |-> Saved(form), edited |-> edited, caller |-> "settings"] \in Writes
    BY SavedIs DEF Typing, TypeOK, Writes
  <2>3. queue'[session] = Append(queue[session],
              [data |-> Saved(form), edited |-> edited, caller |-> "settings"])
    BY <2>1 DEF Typing
  <2>4. queue'[session] # <<>> /\ Last(queue'[session]).caller = "settings"
    BY <2>1, <2>2, <2>3, AppendIs DEF Typing
  <2>5. queue'[session'] # <<>> /\ Last(queue'[session']).caller # "lost"
    BY <2>1, <2>4
  <2> QED BY <2>5 DEF HomeFollows
<1>10. CASE CancelSettings
  <2>1. session \in Users /\ UNCHANGED <<session, home, homeGets, astray>>
    BY <1>10 DEF CancelSettings, SettingsInFront, history
  <2>2. Relabels /\ \A k \in 1..Len(queue[session]) :
            queue[session][k].caller # "lost" => queue'[session][k].caller # "lost"
    BY <1>10, <2>1, LeavesRelabel
  <2>3. LocalView(session)' = LocalView(session)
    <3>1. \A u \in Users : LocalView(u)' = LocalView(u)
      BY <2>1, <2>2, RelabelledView
    <3> QED BY <2>1, <3>1 DEF LocalView
  <2>4. CASE home.who = session /\ home.data = Read(LocalView(session))
    <3>1. Read(LocalView(session))' = Read(LocalView(session))
      BY <2>3 DEF Read
    <3> QED BY <2>1, <2>4, <3>1 DEF HomeFollows
  <2>5. CASE queue[session] # <<>> /\ Last(queue[session]).caller # "lost"
    <3>1. queue[session] \in Seq(Writes) /\ queue'[session] \in Seq(Writes)
          /\ Len(queue'[session]) = Len(queue[session])
      BY <2>1, <2>2 DEF Typing, Relabels
    <3>2. Last(queue[session]) = queue[session][Len(queue[session])]
          /\ Len(queue[session]) \in 1..Len(queue[session]) /\ Len(queue[session]) >= 1
      BY <2>5, <3>1, LastIs
    <3>3. queue'[session] # <<>>
      BY <3>1, <3>2
    <3>4. Last(queue'[session]) = queue'[session][Len(queue[session])]
      BY <3>1, <3>3, LastIs
    <3>5. Last(queue'[session]).caller # "lost"
      BY <2>2, <2>5, <3>2, <3>4
    <3>6. queue'[session'] # <<>> /\ Last(queue'[session']).caller # "lost"
      BY <2>1, <3>3, <3>5
    <3> QED BY <3>6 DEF HomeFollows
  <2> QED BY <2>1, <2>4, <2>5 DEF HomeFollows
<1>11. CASE Logout
  BY <1>11 DEF Logout, HomeFollows
<1>12. CASE Launch
  <2>1. session' = session /\ homeGets' = [u \in Users |-> IF u = session THEN 1 ELSE 0]
    BY <1>12 DEF Launch
  <2>2. CASE session \in Users
    <3>1. homeGets'[session] = 1
      BY <2>1, <2>2
    <3> QED BY <2>2, <3>1 DEF HomeFollows
  <2>3. CASE session = Nobody
    BY <2>1, <2>3 DEF HomeFollows
  <2> QED BY <2>2, <2>3 DEF Typing, TypeOK, Sessions
<1> QED BY <1>1, <1>2, <1>3, <1>4, <1>5, <1>6, <1>7, <1>8, <1>9, <1>10, <1>11, <1>12 DEF Next

-----------------------------------------------------------------------------
(* Theorems                                                                *)

LEMMA InvInit == Init => PInv
<1> SUFFICES ASSUME Init PROVE PInv
  OBVIOUS
<1>1. SettingsInFront
  BY DEF Init, SettingsInFront, NoUpload
<1> QED BY <1>1, TypeInit, CopiesGoodInit, KeepsInit DEF PInv

LEMMA InvNext == PInv /\ [Next]_vars => PInv'
<1> SUFFICES ASSUME PInv, [Next]_vars PROVE PInv'
  OBVIOUS
<1> USE DEF PInv
<1>1. CASE Next
  <2>1. Typing' /\ SettingsInFront'
    BY <1>1, TypeNext, FrontNext
  <2>2. CopiesGood' /\ WritesKeep' /\ FormKeeps' /\ HomeFollows'
    BY <1>1, <2>1, CopiesGoodNext, WritesKeepNext, FormKeepsNext, HomeFollowsNext
  <2> QED BY <2>1, <2>2
<1>2. CASE UNCHANGED vars
  <2> USE <1>2 DEF vars, settings, storage, history
  <2>1. Typing'
    BY DEF Typing, TypeOK
  <2>2. SettingsInFront'
    BY DEF SettingsInFront
  <2>3. CopiesGood'
    BY DEF CopiesGood, SharedOut, CopiesFrom
  <2>4. WritesKeep' /\ FormKeeps'
    BY DEF WritesKeep, QueueKeeps, FormKeeps, LocalView
  <2>5. HomeFollows'
    BY DEF HomeFollows, LocalView
  <2> QED BY <2>1, <2>2, <2>3, <2>4, <2>5
<1> QED BY <1>1, <1>2

\* The invariant holds in every reachable state.
THEOREM Invariant == Spec => []PInv
BY InvInit, InvNext, PTL DEF Spec

\* Documents, copies and queues hold what they are meant to, through sessions,
\* launches, and settings left while something of them is under way
\* (SettingsController.swift 315-390).
THEOREM TypeCorrect == Spec => []TypeOK
<1>1. PInv => TypeOK
  BY DEF PInv, Typing
<1> QED BY <1>1, Invariant, PTL

LEMMA CopyIsGood ==
    ASSUME CopiesGood, Typing, SettingsInFront, NEW copy \in Copies \ {None}
    PROVE  Good(copy, uploaded)
<1>a. PICK album \in Albums : SharedOut(album) /\ CopiesFrom(album)
  BY DEF CopiesGood
<1> SUFFICES \E S : S \subseteq uploaded /\ Good(copy, S)
  BY GoodGrows
<1>1. CASE copy \in {docs[u] : u \in Users}
  BY <1>a, <1>1 DEF SharedOut, CopiesFrom
<1>2. CASE copy \in {form, home.data}
  <2>1. (form # None => session \in Users) /\ (home.data # None => home.who \in Users)
    BY DEF Typing, TypeOK, Unknown, SettingsInFront
  <2> QED BY <1>a, <1>2, <2>1 DEF SharedOut, CopiesFrom
<1>3. CASE copy \in UNION {{w.data : w \in Range(queue[u])} : u \in Users}
  <2>1. PICK u \in Users : copy \in {w.data : w \in Range(queue[u])}
    BY <1>3
  <2>2. PICK k \in DOMAIN queue[u] : copy = queue[u][k].data
    BY <2>1 DEF Range
  <2>3. k \in 1..Len(queue[u])
    BY <2>2 DEF Typing
  <2> QED BY <1>a, <2>2, <2>3 DEF SharedOut, CopiesFrom
<1> QED BY <1>1, <1>2, <1>3 DEF Copies

\* No document, waiting write or copy names a photograph whose upload is not
\* complete, however many are picked, and whatever is saved or left meanwhile
\* (SettingsController.swift 418-448).
THEOREM PhotosUploaded == Spec => []PhotosAreUploaded
<1>1. PInv => PhotosAreUploaded
  <2> SUFFICES ASSUME PInv, NEW copy \in Copies \ {None}
               PROVE  CardPhotos(copy) \cap Photos \subseteq uploaded
    BY DEF PhotosAreUploaded
  <2>1. Good(copy, uploaded)
    BY CopyIsGood DEF PInv
  <2> QED BY <2>1 DEF Good, CardPhotos
<1> QED BY <1>1, Invariant, PTL

\* A photograph is in a copy of somebody's profile: the document, a write that
\* waits, the home screen's copy, or the one in the settings.
Shows(copy, photo) == copy # None /\ \E s \in Slots : copy[s] = photo

Has(u, photo) ==
    \/ Shows(docs[u], photo)
    \/ \E k \in 1..Len(queue[u]) : Shows(queue[u][k].data, photo)
    \/ home.who = u /\ Shows(home.data, photo)
    \/ session = u /\ Shows(form, photo)

PhotosApart == \A u, v \in Users, photo \in Photos : Has(u, photo) /\ Has(v, photo) => u = v

\* No photograph of one account gets into a profile of another, although the
\* home screen keeps the profile of somebody who signed out, answers arrive after
\* a change of account, and the settings save whatever copy they hold
\* (HomeController.swift 99, 144-145; SettingsController.swift 345-363, 418-448).
THEOREM PhotosStayApart == Spec => []PhotosApart
<1>1. PInv => PhotosApart
  <2> SUFFICES ASSUME PInv, NEW u \in Users, NEW v \in Users, NEW photo \in Photos,
                      Has(u, photo), Has(v, photo)
               PROVE  u = v
    BY DEF PhotosApart
  <2>1. PICK album \in Albums : SharedOut(album) /\ CopiesFrom(album)
    BY DEF PInv, CopiesGood
  <2>2. ASSUME NEW w \in Users, Has(w, photo) PROVE photo \in album[w]
    BY <2>1, <2>2 DEF Has, Shows, CopiesFrom, Good
  <2> QED BY <2>1, <2>2 DEF SharedOut
<1> QED BY <1>1, Invariant, PTL

\* No profile gives a card without a photograph or a blank in its place, which a
\* tap would trap on (CardViewModel.swift 29, 39).
THEOREM CardsNeverEmpty == Spec => []CardNeverEmpty
<1>1. PInv => CardNeverEmpty
  <2> SUFFICES ASSUME PInv, NEW copy \in Copies \ {None}
               PROVE  CardPhotos(copy) # {}
    BY DEF CardNeverEmpty
  <2>1. Good(copy, uploaded)
    BY CopyIsGood DEF PInv
  <2> QED BY <2>1 DEF Good, CardPhotos
<1> QED BY <1>1, Invariant, PTL

\* When nothing is under way and nothing went astray, the home screen has the
\* server's profile of whoever is signed in (HomeController.swift 99, 144-145).
THEOREM HomeCurrent == Spec => []HomeIsCurrent
<1>1. PInv => HomeIsCurrent
  <2> SUFFICES ASSUME PInv, session # Nobody, ~astray, \A u \in Users : homeGets[u] = 0,
                      queue[session] = <<>>
               PROVE  home.who = session /\ home.data = Read(docs[session])
    BY DEF HomeIsCurrent
  <2>1. home.who = session /\ home.data = Read(LocalView(session))
    BY DEF PInv, HomeFollows
  <2>2. LocalView(session) = docs[session]
    BY DEF LocalView
  <2> QED BY <2>1, <2>2
<1> QED BY <1>1, Invariant, PTL

\* Whichever saves wait, in whatever order they were made and by whomever they are
\* awaited, one that is applied changes only what was edited since the profile was
\* read, or was missing (SettingsController.swift 345-363).
THEOREM SavesKeep == Spec => SavesKeepTheRest
<1> DEFINE Kept == \A u \in Users :
                     (docs[u] # None /\ docs'[u] # docs[u] /\ ~spoiled) =>
                         \A f \in Fields : \/ docs'[u][f] = docs[u][f]
                                           \/ docs[u][f] = Missing
                                           \/ f \in Head(queue[u]).edited
<1>1. ASSUME PInv, Next PROVE Kept
  <2> SUFFICES ASSUME NEW u \in Users, docs[u] # None, docs'[u] # docs[u], ~spoiled
               PROVE  \A f \in Fields : \/ docs'[u][f] = docs[u][f]
                                        \/ docs[u][f] = Missing
                                        \/ f \in Head(queue[u]).edited
    BY Zenon
  <2>1. docs' = docs \/ \E v \in Users : WriteAcknowledged(v)
    BY <1>1 DEF Next, HomeArrives, HomeFails, Register, Login, WriteRefused, Edit, PickPhoto,
                OpenSettings, FormArrives, FormFails, UploadEnds, UploadFails, Save,
                CancelSettings, Logout, Launch
  <2>2. PICK v \in Users : WriteAcknowledged(v)
    BY <2>1
  <2>3. /\ queue[v] # <<>> /\ docs'[v] = queue[v][1].data
        /\ \A w \in Users \ {v} : docs'[w] = docs[w]
    BY <1>1, <2>2, Acknowledged DEF PInv
  <2>4. u = v
    BY <2>3
  <2>5. Head(queue[u]) = queue[u][1]
    BY <1>1, <2>3, <2>4, TailIs DEF PInv, Typing
  <2>6. Keeps(docs[u], queue[u][1].data, queue[u][1].edited)
    BY <1>1, <2>3, <2>4 DEF PInv, WritesKeep, QueueKeeps
  <2> QED BY <2>3, <2>4, <2>5, <2>6 DEF Keeps
<1>2. PInv /\ [Next]_vars => [Kept]_vars
  BY <1>1
<1> QED BY <1>2, Invariant, PTL DEF Spec, SavesKeepTheRest
=============================================================================
