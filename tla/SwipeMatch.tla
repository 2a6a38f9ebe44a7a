----------------------------- MODULE SwipeMatch -----------------------------
(***************************************************************************)
(* Swiping and match detection, HomeController.swift 201-295, run by       *)
(* several phones against one Firestore database.                          *)
(*                                                                         *)
(* A swipe is a chain of asynchronous calls: read the swiper's document,   *)
(* write the verdict into it (update it, or create it), then, for a like,  *)
(* read the other person's document and look for a like of oneself.  Every *)
(* arrow of the chain is a callback that runs later, possibly after a      *)
(* logout, a login of somebody else or a restart of the app.               *)
(*                                                                         *)
(* The phone talks to the database through the Firestore SDK: one          *)
(* persistent queue of writes per signed-in user, a cache, and a server    *)
(* that may refuse, or apply a write whose acknowledgement is lost.        *)
(***************************************************************************)
EXTENDS Integers, FiniteSets

CONSTANTS
    Devices,    \* phones with the app
    Users,      \* accounts
    Nobody,     \* Auth.auth().currentUser == nil
    Accounts,   \* Accounts[d]: the accounts ever signed in to on phone d
    Cards,      \* Cards[d]: the people whose cards ever come up on phone d
    MaxSwipes   \* bound: how many swipes are made in a behaviour

ASSUME NobodyAssumption == Nobody \notin Users
ASSUME AccountsAssumption == Accounts \in [Devices -> SUBSET Users]
ASSUME CardsAssumption == Cards \in [Devices -> SUBSET Users]
ASSUME MaxSwipesAssumption == MaxSwipes \in Nat

Sessions == Users \cup {Nobody}
Verdicts == {"like", "dislike"}
Docs     == [Users -> Verdicts \cup {"none"}]
EmptyDoc == [u \in Users |-> "none"]

\* Swipes are numbered in the order in which they are made.
Ops == 1..MaxSwipes

(***************************************************************************)
(* How far a swipe has come.                                               *)
(*   get       the swiper's document is being read                         *)
(*   queued    the write is in the phone's queue, its callback is waiting  *)
(*   orphan    the write is in the queue, the app that waited is gone      *)
(*   written   the server acknowledged, the callback has not run           *)
(*   check     the other person's document is being read                   *)
(*   answered  the server's answer to that read waits for the main thread  *)
(*   stale     so does an answer taken from the phone's cache              *)
(*   done      everything the code meant to do was done                    *)
(*   dropped   an error, a restart or a change of session ended it early   *)
(***************************************************************************)
Stages == {"idle", "get", "queued", "orphan", "written", "check",
           "answered", "stale", "done", "dropped"}
Unacknowledged == {"queued", "orphan"}
InMemory == {"get", "written", "check", "answered", "stale"}

VARIABLES
    docs,     \* the users that have a document in the collection "swipes"
    swipes,   \* the server's collection: swipes[u][c] is u's verdict on c
    session,  \* session[d]: Auth.auth().currentUser on phone d
    made,     \* number of swipes made
    swipe,    \* what each swipe is: constant once made
    stage,    \* how far each swipe has come
    write,    \* the write its read calls for, and in which user's queue it is
    answer,   \* the document read by checkIfMatchExists
    cache,    \* cache[d][c]: c's document when a check on phone d last read it
    stored,   \* history: the swipes whose write reached the server
    shown     \* history: the match views presented

server == <<docs, swipes, stored>>
vars   == <<docs, swipes, session, made, swipe, stage, write, answer,
            cache, stored, shown>>

NoSwipe == [dev |-> Nobody, uid |-> Nobody, card |-> Nobody, verdict |-> "none"]
NoWrite == [kind |-> "none", owner |-> Nobody]

Swipes == [dev : Devices, uid : Users, card : Users, verdict : Verdicts]
Writes == [kind : {"set", "update"}, owner : Sessions]

TypeOK ==
    /\ docs \subseteq Users
    /\ swipes \in [Users -> Docs]
    /\ session \in [Devices -> Sessions]
    /\ made \in 0..MaxSwipes
    /\ swipe \in [Ops -> Swipes \cup {NoSwipe}]
    /\ stage \in [Ops -> Stages]
    /\ write \in [Ops -> Writes \cup {NoWrite}]
    /\ answer \in [Ops -> Docs]
    /\ cache \in [Devices -> [Users -> Docs]]
    /\ stored \subseteq Ops
    /\ shown \subseteq [dev : Devices, uid : Users, card : Users, swiper : Users]

-----------------------------------------------------------------------------
(* The phone's view of the database                                        *)

\* The unacknowledged writes to u's document that the signed-in user's queue
\* on phone d holds: the SDK lays them over what it knows of the document.
Overlay(d, u) ==
    {i \in Ops : /\ stage[i] \in Unacknowledged
                 /\ swipe[i].dev = d
                 /\ swipe[i].uid = u
                 /\ write[i].owner = session[d]}

Latest(S) == {i \in S : \A j \in S : j <= i}

LocalView(d, u, doc) ==
    [c \in Users |->
        LET last == Latest({i \in Overlay(d, u) : swipe[i].card = c})
        IN  IF last = {} THEN doc[c] ELSE swipe[CHOOSE i \in last : TRUE].verdict]

\* updateData for a document that exists as far as phone d knows, else setData.
KindOfWrite(d, u) == IF u \in docs \/ Overlay(d, u) # {} THEN "update" ELSE "set"

\* Mutant: reads of one document are answered in any order.
FirstOfAny(i, stages) == stage[i] \in stages

\* No earlier swipe of the same user on the same phone is in one of the stages.
FirstOf(i, stages) ==
    \A j \in Ops : (j < i /\ stage[j] \in stages)
                     => ~(swipe[j].dev = swipe[i].dev /\ swipe[j].uid = swipe[i].uid)

\* The next write to its document in the queue of the user now signed in.
NextInQueue(i) ==
    /\ stage[i] \in Unacknowledged
    /\ write[i].owner = session[swipe[i].dev]
    /\ \A j \in Ops :
          (j < i /\ stage[j] \in Unacknowledged /\ write[j].owner = write[i].owner)
            => ~(swipe[j].dev = swipe[i].dev /\ swipe[j].uid = swipe[i].uid)

-----------------------------------------------------------------------------
Init ==
    /\ docs \in SUBSET Users
    /\ swipes = [u \in Users |-> EmptyDoc]
    /\ session = [d \in Devices |-> Nobody]
    /\ made = 0
    /\ swipe = [i \in Ops |-> NoSwipe]
    /\ stage = [i \in Ops |-> "idle"]
    /\ write = [i \in Ops |-> NoWrite]
    /\ answer = [i \in Ops |-> EmptyDoc]
    /\ cache = [d \in Devices |-> [u \in Users |-> EmptyDoc]]
    /\ stored = {}
    /\ shown = {}

\* The user likes or dislikes the card on top and saveSwipeToFirestore starts
\* to read the swiper's document.  Which card is on top is HomeDeck's subject:
\* here it may be any, again and again (a refresh brings a card back), and
\* nothing excludes the user's own.
Swipe(d, c, v) ==
    /\ made < MaxSwipes
    /\ session[d] # Nobody
    /\ made' = made + 1
    /\ swipe' = [swipe EXCEPT ![made + 1] =
          [dev |-> d, uid |-> session[d], card |-> c, verdict |-> v]]
    /\ write' = [write EXCEPT ![made + 1] =
          [kind |-> KindOfWrite(d, session[d]), owner |-> session[d]]]
    /\ stage' = [stage EXCEPT ![made + 1] = "get"]
    /\ UNCHANGED <<server, session, answer, cache, shown>>

\* The read returns and its callback writes: updateData when the document
\* exists, setData with merge otherwise.  The answer is as old as the swipe or
\* as new as the callback.  The SDK puts the write into the queue of whoever is
\* signed in now.
GetSwipeDoc(i) ==
    LET d == swipe[i].dev
    IN  /\ stage[i] = "get"
        /\ FirstOf(i, {"get"})
        /\ \E kind \in {write[i].kind, KindOfWrite(d, swipe[i].uid)} :
              write' = [write EXCEPT ![i] = [kind |-> kind, owner |-> session[d]]]
        /\ stage' = [stage EXCEPT ![i] = "queued"]
        /\ UNCHANGED <<server, session, made, swipe, answer, cache, shown>>

\* The read of the swiper's document fails: the callback prints and returns.
GetFails(i) ==
    /\ stage[i] = "get"
    /\ FirstOf(i, {"get"})
    /\ stage' = [stage EXCEPT ![i] = "dropped"]
    /\ UNCHANGED <<server, session, made, swipe, write, answer, cache, shown>>

\* Mutant: setData without merge replaces the whole document.
StoreWithoutMerge(i) ==
    /\ write[i].kind = "update" => swipe[i].uid \in docs
    /\ docs' = docs \cup {swipe[i].uid}
    /\ swipes' = [swipes EXCEPT ![swipe[i].uid] =
          [(IF write[i].kind = "set" THEN EmptyDoc ELSE @)
              EXCEPT ![swipe[i].card] = swipe[i].verdict]]
    /\ stored' = stored \cup {i}

\* The effect of a write on the server: one field of one document.
Store(i) ==
    /\ write[i].kind = "update" => swipe[i].uid \in docs
    /\ docs' = docs \cup {swipe[i].uid}
    /\ swipes' = [swipes EXCEPT ![swipe[i].uid][swipe[i].card] = swipe[i].verdict]
    /\ stored' = stored \cup {i}

\* The server applies a write and the phone learns of it.
ServerWrite(i) ==
    /\ NextInQueue(i)
    /\ Store(i)
    /\ stage' = [stage EXCEPT ![i] = IF @ = "queued" THEN "written" ELSE "dropped"]
    /\ UNCHANGED <<session, made, swipe, write, answer, cache, shown>>

\* The server applies a write, the acknowledgement is lost with the stream:
\* the write stays in the queue and is sent again.
ServerWriteUnacked(i) ==
    /\ NextInQueue(i)
    /\ Store(i)
    /\ UNCHANGED <<session, made, swipe, stage, write, answer, cache, shown>>

\* Mutant: the callback of the write does not look at its error.
ServerRefusesUnnoticed(i) ==
    /\ NextInQueue(i)
    /\ stage' = [stage EXCEPT ![i] = IF @ = "queued" THEN "written" ELSE "dropped"]
    /\ UNCHANGED <<server, session, made, swipe, write, answer, cache, shown>>

\* The server rejects a write for good; its callback prints and returns.
ServerRefuses(i) ==
    /\ NextInQueue(i)
    /\ stage' = [stage EXCEPT ![i] = "dropped"]
    /\ UNCHANGED <<server, session, made, swipe, write, answer, cache, shown>>

\* Mutant: only the branch that updates goes on to checkIfMatchExists.
WriteDoneInOneBranch(i) ==
    /\ stage[i] = "written"
    /\ stage' = [stage EXCEPT ![i] =
          IF swipe[i].verdict = "like" /\ write[i].kind = "update" THEN "check" ELSE "done"]
    /\ UNCHANGED <<server, session, made, swipe, write, answer, cache, shown>>

\* The write's callback: a like goes on to checkIfMatchExists.
WriteDone(i) ==
    /\ stage[i] = "written"
    /\ stage' = [stage EXCEPT ![i] =
          IF swipe[i].verdict = "like" THEN "check" ELSE "done"]
    /\ UNCHANGED <<server, session, made, swipe, write, answer, cache, shown>>

\* The server answers the read of the other person's document.
CheckRead(i) ==
    LET d == swipe[i].dev
        c == swipe[i].card
    IN  /\ stage[i] = "check"
        /\ stage' = [stage EXCEPT ![i] = "answered"]
        /\ answer' = [answer EXCEPT ![i] = LocalView(d, c, swipes[c])]
        /\ cache' = [cache EXCEPT ![d][c] = swipes[c]]
        /\ UNCHANGED <<server, session, made, swipe, write, shown>>

\* The phone is offline: the SDK answers from its cache.
CheckOffline(i) ==
    LET d == swipe[i].dev
        c == swipe[i].card
    IN  /\ stage[i] = "check"
        /\ stage' = [stage EXCEPT ![i] = "stale"]
        /\ answer' = [answer EXCEPT ![i] = LocalView(d, c, cache[d][c])]
        /\ UNCHANGED <<server, session, made, swipe, write, cache, shown>>

\* The read fails: the callback prints and returns.
CheckFails(i) ==
    /\ stage[i] = "check"
    /\ stage' = [stage EXCEPT ![i] = "dropped"]
    /\ UNCHANGED <<server, session, made, swipe, write, answer, cache, shown>>

\* Mutant: the callback takes any verdict for a like.
HasVerdict(i, me) == me # Nobody /\ answer[i][me] # "none"

\* Mutant: it remembers the swiper and does not ask whether anybody is signed in.
SwiperHasMatched(i, me) == answer[i][swipe[i].uid] = "like"

\* The document read holds a like of the user signed in, if anybody is.
HasMatched(i, me) == me # Nobody /\ answer[i][me] = "like"

\* checkIfMatchExists' callback: it asks again who is signed in, and presents
\* the match view when the document holds a like of that user.
CheckDone(i) ==
    LET d  == swipe[i].dev
        me == session[d]
    IN  /\ stage[i] \in {"answered", "stale"}
        /\ shown' = IF HasMatched(i, me)
                    THEN shown \cup {[dev |-> d, uid |-> me,
                                      card |-> swipe[i].card, swiper |-> swipe[i].uid]}
                    ELSE shown
        /\ stage' = [stage EXCEPT ![i] =
              IF me = swipe[i].uid /\ (HasMatched(i, me) \/ @ = "answered")
              THEN "done" ELSE "dropped"]
        /\ answer' = [answer EXCEPT ![i] = EmptyDoc]
        /\ UNCHANGED <<server, session, made, swipe, write, cache>>

\* LoginController signs in to an account; nothing else changes.
Login(d, u) ==
    /\ session[d] = Nobody
    /\ session' = [session EXCEPT ![d] = u]
    /\ UNCHANGED <<server, made, swipe, stage, write, answer, cache, shown>>

\* SettingsController signs out; nothing in flight is cancelled.
Logout(d) ==
    /\ session[d] # Nobody
    /\ session' = [session EXCEPT ![d] = Nobody]
    /\ UNCHANGED <<server, made, swipe, stage, write, answer, cache, shown>>

\* The app is killed and started again: callbacks are gone, the session, the
\* cache and the queues of writes survive.
Restart(d) ==
    /\ stage' = [i \in Ops |->
          IF swipe[i].dev # d THEN stage[i]
          ELSE CASE stage[i] = "queued"     -> "orphan"
                 [] stage[i] \in InMemory   -> "dropped"
                 [] OTHER                   -> stage[i]]
    /\ UNCHANGED <<server, session, made, swipe, write, answer, cache, shown>>

User(d) ==
    \/ \E c \in Cards[d], v \in Verdicts : Swipe(d, c, v)
    \/ \E u \in Accounts[d] : Login(d, u)
    \/ Logout(d)
    \/ Restart(d)

Progress(i) ==
    \/ GetSwipeDoc(i) \/ GetFails(i)
    \/ ServerWrite(i) \/ ServerWriteUnacked(i) \/ ServerRefuses(i)
    \/ WriteDone(i)
    \/ CheckRead(i) \/ CheckOffline(i) \/ CheckFails(i)
    \/ CheckDone(i)

Next ==
    \/ \E d \in Devices : User(d)
    \/ \E i \in Ops : Progress(i)

Spec == Init /\ [][Next]_vars

\* Callbacks run once their call has returned, a phone that stays signed in is
\* online often enough for the SDK to drain its queue and to answer a read.
\* Nothing forces a failure, a restart or anything the user does.
Fairness ==
    \A i \in Ops :
        /\ WF_vars(GetSwipeDoc(i))
        /\ WF_vars(ServerWrite(i) \/ ServerRefuses(i))
        /\ WF_vars(WriteDone(i))
        /\ WF_vars(CheckRead(i))
        /\ WF_vars(CheckDone(i))

FairSpec == Spec /\ Fairness

-----------------------------------------------------------------------------
(* Properties                                                              *)

Like(i, u, c) == swipe[i].uid = u /\ swipe[i].card = c /\ swipe[i].verdict = "like"

\* What a match view on the screen means on phones that may be shared: the
\* person on the card did like the account that is told, and somebody on this
\* phone did like that person (checkIfMatchExists, HomeController.swift 264-286).
MatchIsReciprocated ==
    \A m \in shown :
        /\ \E i \in Ops : Like(i, m.card, m.uid)
        /\ \E i \in stored : Like(i, m.swiper, m.card)

\* "You and X have liked each other" (MatchView.swift 72): both likes reached
\* the server.  The chain of callbacks asks three times who is signed in, so
\* this is only expected where a phone has a single account.
MatchMeansBothLiked ==
    \A m \in shown :
        /\ \E i \in stored : Like(i, m.uid, m.card)
        /\ \E i \in stored : Like(i, m.card, m.uid)

Mutual(u, c) == u # c /\ swipes[u][c] = "like" /\ swipes[c][u] = "like"
Pair(i) == {swipe[i].uid, swipe[i].card}
Told(u, c) == \E m \in shown : {m.uid, m.card} = {u, c}

\* A like is still on its way to the check that finds the other one, or to
\* the match view.
OnItsWay(i) ==
    \/ stage[i] \in {"queued", "orphan", "written", "check", "stale"}
    \/ stage[i] = "answered" /\ answer[i][swipe[i].uid] = "like"

\* An error, a restart, a logout or a lost acknowledgement cut it short.
CutShort(i) == stage[i] = "dropped"

\* Two people who like each other on the server are not forgotten: one of
\* them has been told, or a like that reached the server is still at work on
\* it, or its chain of callbacks was cut short (HomeController.swift 215-286).
\* The two swipes may run at the same time on two phones.
NoMissedMatch ==
    \A u, c \in Users :
        Mutual(u, c) =>
            \/ Told(u, c)
            \/ \E i \in stored : /\ Pair(i) = {u, c}
                                 /\ swipe[i].verdict = "like"
                                 /\ OnItsWay(i) \/ CutShort(i)

\* A person who changes their mind is heard: on one phone under one account,
\* the server ends up with the last of their verdicts on somebody that it got,
\* although every swipe first waits for a read (HomeController.swift 227-259).
LatestSwipeWins ==
    \A i \in stored :
        (\A j \in stored :
            (swipe[j].uid = swipe[i].uid /\ swipe[j].card = swipe[i].card)
              => j <= i /\ swipe[j].dev = swipe[i].dev /\ write[j].owner = write[i].owner)
        => swipes[swipe[i].uid][swipe[i].card] = swipe[i].verdict

\* Saving one swipe leaves every other verdict in the collection alone, with
\* updateData and with setData(merge: true) (HomeController.swift 234, 247),
\* also when two first swipes both found no document.
SwipesNeverErased ==
    [][\A u, c \in Users :
          swipes'[u][c] # swipes[u][c] =>
              \E i \in stored' : /\ swipe[i].uid = u /\ swipe[i].card = c
                                 /\ swipes'[u][c] = swipe[i].verdict
                                 /\ stage[i] \in Unacknowledged]_vars

\* The user signed out before the write was handed to the SDK: it is in the
\* queue of whoever was signed in instead.
Stranded(i) == write[i].owner # swipe[i].uid

\* Two people who like each other do hear of it, if they stay signed in from
\* some time on and no chain of callbacks was cut short or left in another
\* user's queue (HomeController.swift 227-285).
SignedIn == \A d \in Devices : session[d] # Nobody

MutualLikeIsTold ==
    <>[]SignedIn =>
        \A u, c \in Users :
            Mutual(u, c) ~> \/ Told(u, c)
                            \/ ~Mutual(u, c)
                            \/ \E i \in stored : Pair(i) = {u, c} /\ (CutShort(i) \/ Stranded(i))
=============================================================================
