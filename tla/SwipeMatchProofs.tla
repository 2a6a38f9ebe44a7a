-------------------------- MODULE SwipeMatchProofs --------------------------
(***************************************************************************)
(* Theorems about SwipeMatch for every number of phones, accounts and      *)
(* swipes.                                                                 *)
(***************************************************************************)
EXTENDS SwipeMatch, WellFoundedInduction, TLAPS

-----------------------------------------------------------------------------
(* Types                                                                   *)

\* A swipe exists exactly when its number has been given out; what is recorded
\* of it never leaves the accounts of its phone.
OpsOK ==
    \A i \in Ops :
        /\ stage[i] = "idle" <=> i > made
        /\ stage[i] = "idle" =>
              /\ swipe[i] = NoSwipe
              /\ answer[i] = EmptyDoc
              /\ i \notin stored
        /\ stage[i] # "idle" =>
              /\ swipe[i] \in Swipes
              /\ swipe[i].uid \in Accounts[swipe[i].dev]
              /\ write[i] \in Writes

SessionsOK == \A d \in Devices : session[d] \in Accounts[d] \cup {Nobody}

TypeInv == TypeOK /\ OpsOK /\ SessionsOK

\* What a phone believes of a document is a document.
LEMMA LocalViewType ==
    ASSUME TypeInv, NEW d \in Devices, NEW u \in Users, NEW doc \in Docs
    PROVE  LocalView(d, u, doc) \in Docs
<1> DEFINE last(c) == Latest({i \in Overlay(d, u) : swipe[i].card = c})
<1>1. ASSUME NEW c \in Users, last(c) # {}
      PROVE  swipe[CHOOSE i \in last(c) : TRUE].verdict \in Verdicts
  <2>1. PICK i : i = (CHOOSE j \in last(c) : TRUE) /\ i \in last(c)
    BY <1>1
  <2>2. i \in Ops /\ stage[i] \in Unacknowledged
    BY <2>1 DEF Latest, Overlay
  <2>3. swipe[i] \in Swipes
    BY <2>2 DEF TypeInv, OpsOK, Unacknowledged
  <2> QED BY <2>1, <2>3 DEF Swipes
<1>2. \A c \in Users : doc[c] \in Verdicts \cup {"none"}
  BY DEF Docs
<1> QED BY <1>1, <1>2 DEF LocalView, Docs

LEMMA TypeInit == Init => TypeInv
<1> SUFFICES ASSUME Init PROVE TypeInv
  OBVIOUS
<1> USE NobodyAssumption, AccountsAssumption, MaxSwipesAssumption
<1>1. EmptyDoc \in Docs
  BY DEF EmptyDoc, Docs
<1>2. TypeOK
  BY <1>1 DEF Init, TypeOK, Sessions, Stages, Ops
<1>3. OpsOK
  BY DEF Init, OpsOK, Ops
<1>4. SessionsOK
  BY DEF Init, SessionsOK
<1> QED BY <1>2, <1>3, <1>4 DEF TypeInv

LEMMA TypeNext == TypeInv /\ [Next]_vars => TypeInv'
<1> SUFFICES ASSUME TypeInv, [Next]_vars PROVE TypeInv'
  OBVIOUS
<1> USE NobodyAssumption, AccountsAssumption, CardsAssumption, MaxSwipesAssumption
<1> USE DEF TypeInv, Ops, server
<1>1. ASSUME NEW d \in Devices, NEW c \in Cards[d], NEW v \in Verdicts, Swipe(d, c, v)
      PROVE  TypeInv'
  <2>1. made + 1 \in Ops /\ session[d] \in Users /\ session[d] \in Accounts[d] /\ c \in Users
    BY <1>1 DEF Swipe, TypeOK, SessionsOK, Sessions
  <2>2. KindOfWrite(d, session[d]) \in {"set", "update"}
    BY DEF KindOfWrite
  <2>3. TypeOK'
    BY <1>1, <2>1, <2>2 DEF Swipe, TypeOK, Swipes, Writes, Sessions, Stages
  <2>4. OpsOK'
    BY <1>1, <2>1, <2>2 DEF Swipe, TypeOK, OpsOK, Swipes, Writes, Sessions, Stages
  <2>5. SessionsOK'
    BY <1>1 DEF Swipe, SessionsOK
  <2> QED BY <2>3, <2>4, <2>5
<1>2. ASSUME NEW d \in Devices, NEW u \in Accounts[d], Login(d, u)
      PROVE  TypeInv'
  <2>1. u \in Users
    OBVIOUS
  <2> QED BY <1>2, <2>1 DEF Login, TypeOK, OpsOK, SessionsOK, Sessions
<1>3. ASSUME NEW d \in Devices, Logout(d)
      PROVE  TypeInv'
  BY <1>3 DEF Logout, TypeOK, OpsOK, SessionsOK, Sessions
<1>4. ASSUME NEW d \in Devices, Restart(d)
      PROVE  TypeInv'
  <2>1. \A i \in Ops : stage'[i] \in Stages /\ (stage'[i] = "idle" <=> stage[i] = "idle")
    BY <1>4 DEF Restart, TypeOK, Stages, InMemory
  <2>2. TypeOK'
    BY <1>4, <2>1 DEF Restart, TypeOK
  <2> QED BY <1>4, <2>1, <2>2 DEF Restart, OpsOK, SessionsOK
<1>5. ASSUME NEW i \in Ops, GetSwipeDoc(i)
      PROVE  TypeInv'
  <2>1. swipe[i] \in Swipes /\ write[i] \in Writes /\ stage[i] # "idle"
    BY <1>5 DEF GetSwipeDoc, OpsOK
  <2>2. PICK kind \in {write[i].kind, KindOfWrite(swipe[i].dev, swipe[i].uid)} :
            write' = [write EXCEPT ![i] = [kind |-> kind, owner |-> session[swipe[i].dev]]]
    BY <1>5 DEF GetSwipeDoc
  <2>3. [kind |-> kind, owner |-> session[swipe[i].dev]] \in Writes
    BY <2>1, <2>2 DEF Writes, Swipes, TypeOK, KindOfWrite
  <2> QED BY <1>5, <2>1, <2>2, <2>3 DEF GetSwipeDoc, TypeOK, OpsOK, SessionsOK, Stages
<1>6. ASSUME NEW i \in Ops, GetFails(i)
      PROVE  TypeInv'
  BY <1>6 DEF GetFails, TypeOK, OpsOK, SessionsOK, Stages
<1>7. ASSUME NEW i \in Ops, NextInQueue(i)
      PROVE  stage[i] # "idle" /\ swipe[i] \in Swipes
  BY <1>7 DEF NextInQueue, Unacknowledged, OpsOK
<1>8. ASSUME NEW i \in Ops, NextInQueue(i), Store(i)
      PROVE  /\ docs' \subseteq Users
             /\ swipes' \in [Users -> Docs]
             /\ stored' \subseteq Ops
  <2>1. swipes[swipe[i].uid] \in Docs
    BY <1>7, <1>8 DEF TypeOK, Swipes
  <2> QED BY <1>7, <1>8, <2>1 DEF Store, TypeOK, Docs, Swipes
<1>9. ASSUME NEW i \in Ops, ServerWrite(i)
      PROVE  TypeInv'
  <2>1. NextInQueue(i) /\ Store(i)
    BY <1>9 DEF ServerWrite
  <2>2. /\ docs' \subseteq Users /\ swipes' \in [Users -> Docs] /\ stored' \subseteq Ops
        /\ stage[i] # "idle"
    BY <1>7, <1>8, <2>1
  <2>3. /\ stage' \in [Ops -> Stages] /\ stage'[i] # "idle"
        /\ \A j \in Ops : j # i => stage'[j] = stage[j]
    BY <1>9 DEF ServerWrite, TypeOK, Stages
  <2>4. TypeOK'
    BY <1>9, <2>2, <2>3 DEF ServerWrite, TypeOK
  <2>5. stored' = stored \cup {i}
    BY <2>1 DEF Store
  <2>6. OpsOK' /\ SessionsOK'
    BY <1>9, <2>2, <2>3, <2>5 DEF ServerWrite, OpsOK, SessionsOK
  <2> QED BY <2>4, <2>6
<1>10. ASSUME NEW i \in Ops, ServerWriteUnacked(i)
       PROVE  TypeInv'
  <2>1. NextInQueue(i) /\ Store(i)
    BY <1>10 DEF ServerWriteUnacked
  <2> QED BY <1>10, <2>1, <1>7, <1>8 DEF ServerWriteUnacked, Store, TypeOK, OpsOK, SessionsOK
<1>11. ASSUME NEW i \in Ops, ServerRefuses(i)
       PROVE  TypeInv'
  BY <1>11, <1>7 DEF ServerRefuses, TypeOK, OpsOK, SessionsOK, Stages
<1>12. ASSUME NEW i \in Ops, WriteDone(i)
       PROVE  TypeInv'
  BY <1>12 DEF WriteDone, TypeOK, OpsOK, SessionsOK, Stages
<1>13. ASSUME NEW i \in Ops, CheckRead(i)
       PROVE  TypeInv'
  <2>1. swipe[i] \in Swipes /\ stage[i] # "idle"
    BY <1>13 DEF CheckRead, OpsOK
  <2>2. /\ swipe[i].dev \in Devices
        /\ swipe[i].card \in Users
        /\ swipes[swipe[i].card] \in Docs
    BY <2>1 DEF Swipes, TypeOK
  <2>3. LocalView(swipe[i].dev, swipe[i].card, swipes[swipe[i].card]) \in Docs
    BY <2>2, LocalViewType
  <2> QED BY <1>13, <2>1, <2>2, <2>3 DEF CheckRead, TypeOK, OpsOK, SessionsOK, Stages
<1>14. ASSUME NEW i \in Ops, CheckOffline(i)
       PROVE  TypeInv'
  <2>1. swipe[i] \in Swipes /\ stage[i] # "idle"
    BY <1>14 DEF CheckOffline, OpsOK
  <2>2. /\ swipe[i].dev \in Devices
        /\ swipe[i].card \in Users
        /\ cache[swipe[i].dev][swipe[i].card] \in Docs
    BY <2>1 DEF Swipes, TypeOK
  <2>3. LocalView(swipe[i].dev, swipe[i].card, cache[swipe[i].dev][swipe[i].card]) \in Docs
    BY <2>2, LocalViewType
  <2> QED BY <1>14, <2>1, <2>2, <2>3 DEF CheckOffline, TypeOK, OpsOK, SessionsOK, Stages
<1>15. ASSUME NEW i \in Ops, CheckFails(i)
       PROVE  TypeInv'
  BY <1>15 DEF CheckFails, TypeOK, OpsOK, SessionsOK, Stages
<1>16. ASSUME NEW i \in Ops, CheckDone(i)
       PROVE  TypeInv'
  <2>1. swipe[i] \in Swipes /\ stage[i] # "idle"
    BY <1>16 DEF CheckDone, OpsOK
  <2>2. /\ swipe[i].dev \in Devices
        /\ session[swipe[i].dev] \in Sessions
        /\ EmptyDoc \in Docs
    BY <2>1 DEF Swipes, TypeOK, EmptyDoc, Docs
  <2>3. shown' \subseteq [dev : Devices, uid : Users, card : Users, swiper : Users]
    BY <1>16, <2>1, <2>2 DEF CheckDone, HasMatched, TypeOK, Swipes, Sessions
  <2> QED BY <1>16, <2>1, <2>2, <2>3 DEF CheckDone, TypeOK, OpsOK, SessionsOK, Stages
<1>17. CASE UNCHANGED vars
  BY <1>17 DEF vars, TypeOK, OpsOK, SessionsOK
<1> QED
  BY <1>1, <1>2, <1>3, <1>4, <1>5, <1>6, <1>9, <1>10, <1>11, <1>12, <1>13,
     <1>14, <1>15, <1>16, <1>17
  DEF Next, User, Progress

LEMMA TypeInvariant == Spec => []TypeInv
  BY TypeInit, TypeNext, PTL DEF Spec

\* Every reachable state has its declared type.
THEOREM TypeCorrect == Spec => []TypeOK
  BY TypeInvariant, PTL DEF TypeInv

-----------------------------------------------------------------------------
(* Nobody is told of a like that was not given                             *)

\* Every like that is written anywhere has a swipe behind it.
LikesOK ==
    /\ \A u, c \in Users : swipes[u][c] = "like" => \E i \in stored : Like(i, u, c)
    /\ \A d \in Devices, u, c \in Users :
          cache[d][u][c] = "like" => \E i \in stored : Like(i, u, c)
    /\ \A i \in Ops, c \in Users :
          answer[i][c] = "like" => \E j \in Ops : Like(j, swipe[i].card, c)

\* A check is made for a like that the server has.
ChecksOK ==
    \A i \in Ops :
        /\ stage[i] \in {"written", "check", "answered", "stale"} => i \in stored
        /\ stage[i] \in {"check", "answered", "stale"} => swipe[i].verdict = "like"

EvidenceInv == TypeInv /\ LikesOK /\ ChecksOK /\ MatchIsReciprocated

\* A like in the phone's view of a document is in the document or was swiped
\* on this phone.
LEMMA LocalViewLike ==
    ASSUME TypeInv, NEW d \in Devices, NEW u \in Users, NEW doc \in Docs,
           NEW c \in Users, LocalView(d, u, doc)[c] = "like"
    PROVE  doc[c] = "like" \/ \E i \in Overlay(d, u) : Like(i, u, c)
<1> DEFINE last == Latest({i \in Overlay(d, u) : swipe[i].card = c})
<1>1. CASE last = {}
  BY <1>1 DEF LocalView
<1>2. CASE last # {}
  <2>1. PICK i : i = (CHOOSE j \in last : TRUE) /\ i \in last
    BY <1>2
  <2>2. i \in Overlay(d, u) /\ swipe[i].card = c /\ swipe[i].uid = u
    BY <2>1 DEF Latest, Overlay
  <2>3. swipe[i].verdict = "like"
    BY <1>2, <2>1 DEF LocalView
  <2> QED BY <2>2, <2>3 DEF Like
<1> QED BY <1>1, <1>2

\* The steps that read, write and present nothing leave the evidence alone.
LEMMA EvidenceKept ==
    ASSUME EvidenceInv, TypeInv',
           UNCHANGED <<swipes, stored, shown, cache, answer, swipe>>,
           \A i \in Ops : stage'[i] # stage[i] =>
               stage'[i] \notin {"written", "check", "answered", "stale"}
    PROVE  EvidenceInv'
  BY DEF EvidenceInv, LikesOK, ChecksOK, MatchIsReciprocated, Like

LEMMA EvidenceInit == Init => EvidenceInv
<1> SUFFICES ASSUME Init PROVE EvidenceInv
  OBVIOUS
<1>1. TypeInv
  BY TypeInit
<1> QED BY <1>1 DEF Init, EvidenceInv, LikesOK, ChecksOK, MatchIsReciprocated, EmptyDoc

LEMMA EvidenceNext == EvidenceInv /\ [Next]_vars => EvidenceInv'
<1> SUFFICES ASSUME EvidenceInv, [Next]_vars PROVE EvidenceInv'
  OBVIOUS
<1>0. TypeInv /\ TypeInv'
  BY TypeNext DEF EvidenceInv
<1> USE DEF server
<1>1. ASSUME NEW d \in Devices, NEW c \in Cards[d], NEW v \in Verdicts, Swipe(d, c, v)
      PROVE  EvidenceInv'
  <2>1. stage[made + 1] = "idle" /\ made + 1 \in Ops
    BY <1>0, <1>1, MaxSwipesAssumption DEF Swipe, TypeInv, TypeOK, OpsOK, Ops
  <2>2. /\ \A i \in Ops : i # made + 1 => swipe'[i] = swipe[i] /\ stage'[i] = stage[i]
        /\ stage'[made + 1] = "get"
    BY <1>0, <1>1, <2>1 DEF Swipe, TypeInv, TypeOK
  <2>3. made + 1 \notin stored /\ answer[made + 1] = EmptyDoc /\ swipe[made + 1] = NoSwipe
    BY <1>0, <2>1 DEF TypeInv, OpsOK
  <2>4. \A i \in Ops : \A u, w : Like(i, u, w) => Like(i, u, w)'
    BY <2>2, <2>3 DEF Like, NoSwipe
  <2>5. UNCHANGED <<swipes, stored, shown, cache, answer>> /\ stored \subseteq Ops
    BY <1>0, <1>1 DEF Swipe, TypeInv, TypeOK
  <2>6. LikesOK'
    BY <2>2, <2>3, <2>4, <2>5 DEF EvidenceInv, LikesOK, EmptyDoc
  <2>7. ChecksOK'
    BY <2>2, <2>5 DEF EvidenceInv, ChecksOK
  <2>8. MatchIsReciprocated'
    BY <2>4, <2>5 DEF EvidenceInv, MatchIsReciprocated
  <2> QED BY <1>0, <2>6, <2>7, <2>8 DEF EvidenceInv
<1>2. ASSUME NEW d \in Devices, NEW u \in Accounts[d], Login(d, u)
      PROVE  EvidenceInv'
  BY <1>0, <1>2, EvidenceKept DEF Login
<1>3. ASSUME NEW d \in Devices, Logout(d)
      PROVE  EvidenceInv'
  BY <1>0, <1>3, EvidenceKept DEF Logout
<1>4. ASSUME NEW d \in Devices, Restart(d)
      PROVE  EvidenceInv'
  <2>1. \A i \in Ops : stage'[i] # stage[i] =>
            stage'[i] \notin {"written", "check", "answered", "stale"}
    BY <1>4 DEF Restart
  <2> QED BY <1>0, <1>4, <2>1, EvidenceKept DEF Restart
<1>5. ASSUME NEW i \in Ops, GetSwipeDoc(i)
      PROVE  EvidenceInv'
  <2>1. \A j \in Ops : stage'[j] # stage[j] =>
            stage'[j] \notin {"written", "check", "answered", "stale"}
    BY <1>0, <1>5 DEF GetSwipeDoc, TypeInv, TypeOK
  <2> QED BY <1>0, <1>5, <2>1, EvidenceKept DEF GetSwipeDoc
<1>6. ASSUME NEW i \in Ops, GetFails(i) \/ ServerRefuses(i) \/ CheckFails(i)
      PROVE  EvidenceInv'
  <2>1. stage' = [stage EXCEPT ![i] = "dropped"]
    BY <1>6 DEF GetFails, ServerRefuses, CheckFails
  <2>2. \A j \in Ops : stage'[j] # stage[j] =>
            stage'[j] \notin {"written", "check", "answered", "stale"}
    BY <1>0, <2>1 DEF TypeInv, TypeOK
  <2> QED BY <1>0, <1>6, <2>2, EvidenceKept DEF GetFails, ServerRefuses, CheckFails
<1>7. ASSUME NEW i \in Ops, ServerWrite(i) \/ ServerWriteUnacked(i)
      PROVE  EvidenceInv'
  <2>1. /\ Store(i)
        /\ UNCHANGED <<cache, answer, swipe, shown>>
        /\ stage[i] # "idle"
        /\ \A j \in Ops : stage'[j] # stage[j] => j = i /\ stage'[j] \in {"written", "dropped"}
    BY <1>0, <1>7
    DEF ServerWrite, ServerWriteUnacked, NextInQueue, TypeInv, TypeOK, Unacknowledged
  <2>2. swipe[i] \in Swipes /\ stored' = stored \cup {i}
    BY <1>0, <2>1 DEF TypeInv, OpsOK, Store
  <2>3. \A u, c \in Users : swipes'[u][c] = "like" =>
            swipes[u][c] = "like" \/ Like(i, u, c)
    BY <1>0, <2>1, <2>2 DEF Store, Like, TypeInv, TypeOK, Docs, Swipes
  <2>4. LikesOK'
    BY <2>1, <2>2, <2>3 DEF EvidenceInv, LikesOK, Like
  <2>5. ChecksOK'
    BY <2>1, <2>2 DEF EvidenceInv, ChecksOK
  <2>6. MatchIsReciprocated'
    BY <2>1, <2>2 DEF EvidenceInv, MatchIsReciprocated, Like
  <2> QED BY <1>0, <2>4, <2>5, <2>6 DEF EvidenceInv
<1>8. ASSUME NEW i \in Ops, WriteDone(i)
      PROVE  EvidenceInv'
  <2>1. LikesOK' /\ MatchIsReciprocated'
    BY <1>8 DEF WriteDone, EvidenceInv, LikesOK, MatchIsReciprocated, Like
  <2>2. ChecksOK'
    BY <1>0, <1>8 DEF WriteDone, EvidenceInv, ChecksOK, TypeInv, TypeOK
  <2> QED BY <1>0, <2>1, <2>2 DEF EvidenceInv
<1>9. ASSUME NEW i \in Ops, NEW doc \in Docs, NEW s \in {"answered", "stale"},
             stage[i] = "check",
             stage' = [stage EXCEPT ![i] = s],
             answer' = [answer EXCEPT ![i] = LocalView(swipe[i].dev, swipe[i].card, doc)],
             \A c \in Users : doc[c] = "like" => \E j \in stored : Like(j, swipe[i].card, c),
             \A d \in Devices, u, c \in Users :
                cache'[d][u][c] = "like" => \E j \in stored : Like(j, u, c),
             UNCHANGED <<swipes, stored, swipe, shown>>
      PROVE  EvidenceInv'
  <2>1. swipe[i].dev \in Devices /\ swipe[i].card \in Users
    BY <1>0, <1>9 DEF TypeInv, OpsOK, Swipes
  <2>2. \A c \in Users : LocalView(swipe[i].dev, swipe[i].card, doc)[c] = "like" =>
            \E j \in Ops : Like(j, swipe[i].card, c)
    <3> SUFFICES ASSUME NEW c \in Users,
                        LocalView(swipe[i].dev, swipe[i].card, doc)[c] = "like"
                 PROVE  \E j \in Ops : Like(j, swipe[i].card, c)
      OBVIOUS
    <3>1. \/ doc[c] = "like"
          \/ \E j \in Overlay(swipe[i].dev, swipe[i].card) : Like(j, swipe[i].card, c)
      BY <1>0, <2>1, LocalViewLike
    <3>2. stored \subseteq Ops
      BY <1>0 DEF TypeInv, TypeOK
    <3> QED BY <1>9, <3>1, <3>2 DEF Overlay
  <2>3. LikesOK'
    BY <1>0, <1>9, <2>2 DEF EvidenceInv, LikesOK, Like, TypeInv, TypeOK
  <2>4. ChecksOK'
    BY <1>0, <1>9 DEF EvidenceInv, ChecksOK, TypeInv, TypeOK
  <2>5. MatchIsReciprocated'
    BY <1>9 DEF EvidenceInv, MatchIsReciprocated, Like
  <2> QED BY <1>0, <2>3, <2>4, <2>5 DEF EvidenceInv
<1>10. ASSUME NEW i \in Ops, CheckRead(i)
       PROVE  EvidenceInv'
  <2>1. swipe[i].dev \in Devices /\ swipe[i].card \in Users
    BY <1>0, <1>10 DEF TypeInv, OpsOK, Swipes, CheckRead
  <2>2. swipes[swipe[i].card] \in Docs
    BY <1>0, <2>1 DEF TypeInv, TypeOK
  <2>3. cache' = [cache EXCEPT ![swipe[i].dev][swipe[i].card] = swipes[swipe[i].card]]
    BY <1>10 DEF CheckRead
  <2>4. \A d \in Devices, u, c \in Users :
            cache'[d][u][c] = "like" => \E j \in stored : Like(j, u, c)
    BY <1>0, <2>1, <2>3 DEF EvidenceInv, LikesOK, TypeInv, TypeOK
  <2>5. \A c \in Users : swipes[swipe[i].card][c] = "like" =>
            \E j \in stored : Like(j, swipe[i].card, c)
    BY <2>1 DEF EvidenceInv, LikesOK
  <2> QED BY <1>9, <1>10, <2>2, <2>4, <2>5 DEF CheckRead
<1>11. ASSUME NEW i \in Ops, CheckOffline(i)
       PROVE  EvidenceInv'
  <2>1. swipe[i].dev \in Devices /\ swipe[i].card \in Users
    BY <1>0, <1>11 DEF TypeInv, OpsOK, Swipes, CheckOffline
  <2>2. cache[swipe[i].dev][swipe[i].card] \in Docs
    BY <1>0, <2>1 DEF TypeInv, TypeOK
  <2>3. /\ \A c \in Users : cache[swipe[i].dev][swipe[i].card][c] = "like" =>
              \E j \in stored : Like(j, swipe[i].card, c)
        /\ \A d \in Devices, u, c \in Users :
              cache[d][u][c] = "like" => \E j \in stored : Like(j, u, c)
    BY <2>1 DEF EvidenceInv, LikesOK
  <2> QED BY <1>9, <1>11, <2>2, <2>3 DEF CheckOffline
<1>12. ASSUME NEW i \in Ops, CheckDone(i)
       PROVE  EvidenceInv'
  <2> DEFINE me == session[swipe[i].dev]
             match == [dev |-> swipe[i].dev, uid |-> me,
                       card |-> swipe[i].card, swiper |-> swipe[i].uid]
  <2>1. /\ i \in stored
        /\ swipe[i].verdict = "like"
        /\ swipe[i] \in Swipes
    BY <1>0, <1>12 DEF CheckDone, EvidenceInv, ChecksOK, TypeInv, OpsOK
  <2>2. \/ shown' = shown
        \/ HasMatched(i, me) /\ shown' = shown \cup {match}
    BY <1>12 DEF CheckDone
  <2>3. HasMatched(i, me) => \E j \in Ops : Like(j, swipe[i].card, me)
    BY <1>0, <2>1 DEF HasMatched, EvidenceInv, LikesOK, TypeInv, TypeOK, Swipes, Sessions
  <2>4. Like(i, swipe[i].uid, swipe[i].card)
    BY <2>1 DEF Like
  <2>5. MatchIsReciprocated'
    BY <1>12, <2>1, <2>2, <2>3, <2>4 DEF CheckDone, EvidenceInv, MatchIsReciprocated, Like
  <2>6. \A c \in Users : EmptyDoc[c] # "like"
    BY DEF EmptyDoc
  <2>7. LikesOK'
    BY <1>0, <1>12, <2>6 DEF CheckDone, EvidenceInv, LikesOK, Like, TypeInv, TypeOK
  <2>8. ChecksOK'
    BY <1>0, <1>12 DEF CheckDone, EvidenceInv, ChecksOK, TypeInv, TypeOK
  <2> QED BY <1>0, <2>5, <2>7, <2>8 DEF EvidenceInv
<1>13. CASE UNCHANGED vars
  BY <1>0, <1>13, EvidenceKept DEF vars
<1> QED
  BY <1>1, <1>2, <1>3, <1>4, <1>5, <1>6, <1>7, <1>8, <1>10, <1>11, <1>12, <1>13
  DEF Next, User, Progress

LEMMA EvidenceInvariant == Spec => []EvidenceInv
  BY EvidenceInit, EvidenceNext, PTL DEF Spec

\* On any number of phones, shared or not, a match view is only presented for
\* a card whose person swiped a like of the account that is told, after a like
\* of that person from this phone reached the server.
THEOREM MatchesReciprocated == Spec => []MatchIsReciprocated
  BY EvidenceInvariant, PTL DEF EvidenceInv

-----------------------------------------------------------------------------
(* No write disturbs another                                               *)

LEMMA StoreChangesOneVerdict ==
    ASSUME TypeInv, NEW i \in Ops, NextInQueue(i), Store(i),
           NEW u \in Users, NEW c \in Users, swipes'[u][c] # swipes[u][c]
    PROVE  /\ i \in stored'
           /\ swipe[i].uid = u /\ swipe[i].card = c
           /\ swipes'[u][c] = swipe[i].verdict
           /\ stage[i] \in Unacknowledged
<1>1. swipe[i] \in Swipes
  BY DEF NextInQueue, Unacknowledged, TypeInv, OpsOK
<1> QED BY <1>1 DEF Store, NextInQueue, TypeInv, TypeOK, Docs, Swipes

\* In every behaviour, a verdict on the server changes only through the write
\* of a swipe on exactly that person by exactly that user.
THEOREM SwipesKept == Spec => SwipesNeverErased
<1> DEFINE Kept ==
      \A u, c \in Users :
          swipes'[u][c] # swipes[u][c] =>
              \E i \in stored' : /\ swipe[i].uid = u /\ swipe[i].card = c
                                 /\ swipes'[u][c] = swipe[i].verdict
                                 /\ stage[i] \in Unacknowledged
<1>1. TypeInv /\ [Next]_vars => [Kept]_vars
  <2> SUFFICES ASSUME TypeInv, [Next]_vars,
                      NEW u \in Users, NEW c \in Users, swipes'[u][c] # swipes[u][c]
               PROVE  \E i \in stored' : /\ swipe[i].uid = u /\ swipe[i].card = c
                                         /\ swipes'[u][c] = swipe[i].verdict
                                         /\ stage[i] \in Unacknowledged
    OBVIOUS
  <2>1. ASSUME NEW i \in Ops, ServerWrite(i) \/ ServerWriteUnacked(i)
        PROVE  \E j \in stored' : /\ swipe[j].uid = u /\ swipe[j].card = c
                                  /\ swipes'[u][c] = swipe[j].verdict
                                  /\ stage[j] \in Unacknowledged
    BY <2>1, StoreChangesOneVerdict DEF ServerWrite, ServerWriteUnacked
  <2>2. CASE swipes' = swipes
    BY <2>2
  <2>3. (\E i \in Ops : ServerWrite(i) \/ ServerWriteUnacked(i)) \/ swipes' = swipes
    BY DEF Next, User, Progress, vars, server, Swipe, Login, Logout, Restart, GetSwipeDoc,
           GetFails, ServerRefuses, WriteDone, CheckRead, CheckOffline, CheckFails, CheckDone
  <2> QED BY <2>1, <2>2, <2>3
<1> QED BY <1>1, TypeInvariant, PTL DEF Spec, SwipesNeverErased

-----------------------------------------------------------------------------
(* Changes of mind                                                         *)

Fellows(i, j) == swipe[i].dev = swipe[j].dev /\ swipe[i].uid = swipe[j].uid

\* The reads of one user on one phone end in the order of the swipes.
ReadsInOrder ==
    \A i, j \in Ops : i < j /\ Fellows(i, j) /\ stage[j] \notin {"idle", "get"}
                          => stage[i] # "get"

\* So do the writes of one queue, the first of those that are sent twice too.
WritesInOrder ==
    \A i, j \in Ops : i < j /\ Fellows(i, j) /\ write[i].owner = write[j].owner /\ j \in stored
                          => stage[i] \notin Unacknowledged

StoredWasRead == \A i \in stored : stage[i] \notin {"idle", "get"}

OrderInv == TypeInv /\ ReadsInOrder /\ WritesInOrder /\ StoredWasRead /\ LatestSwipeWins

\* The steps that neither swipe, nor queue a write, nor store one.
LEMMA OrderKept ==
    ASSUME OrderInv, TypeInv', UNCHANGED <<swipe, write, stored, swipes>>,
           \A i \in Ops : /\ stage'[i] = "get" => stage[i] = "get"
                          /\ stage'[i] \in Unacknowledged => stage[i] \in Unacknowledged
                          /\ stage[i] \notin {"idle", "get"} => stage'[i] \notin {"idle", "get"},
           \A i, j \in Ops : i < j /\ Fellows(i, j) /\ stage[j] = "get" /\ stage'[j] # "get"
                                 => stage'[i] # "get",
           \A j \in Ops : stage[j] = "idle" => stage'[j] = "idle"
    PROVE  OrderInv'
<1> USE DEF OrderInv
<1>1. ReadsInOrder'
  BY DEF ReadsInOrder, Fellows
<1>2. WritesInOrder'
  BY DEF WritesInOrder, Fellows
<1>3. StoredWasRead'
  BY DEF StoredWasRead, TypeInv, TypeOK
<1>4. LatestSwipeWins'
  BY DEF LatestSwipeWins
<1> QED BY <1>1, <1>2, <1>3, <1>4

LEMMA OrderInit == Init => OrderInv
<1> SUFFICES ASSUME Init PROVE OrderInv
  OBVIOUS
<1>1. TypeInv
  BY TypeInit
<1> QED BY <1>1 DEF Init, OrderInv, ReadsInOrder, WritesInOrder, StoredWasRead, LatestSwipeWins

\* A write that is stored is the last of its queue so far.
LEMMA StoreInOrder ==
    ASSUME OrderInv, TypeInv', NEW k \in Ops, NextInQueue(k), Store(k),
           UNCHANGED <<swipe, write>>,
           \A i \in Ops : i # k => stage'[i] = stage[i],
           stage'[k] \in {stage[k], "written", "dropped"}
    PROVE  OrderInv'
<1> USE DEF OrderInv
<1>0. /\ stage[k] \in Unacknowledged /\ swipe[k] \in Swipes
      /\ write[k].owner = session[swipe[k].dev]
      /\ \A i \in Ops : i < k /\ Fellows(i, k) /\ write[i].owner = write[k].owner
                            => stage[i] \notin Unacknowledged
  BY DEF NextInQueue, Unacknowledged, Fellows, TypeInv, OpsOK
<1>1. stored' = stored \cup {k} /\ stored \subseteq Ops
      /\ swipes' = [swipes EXCEPT ![swipe[k].uid][swipe[k].card] = swipe[k].verdict]
  BY DEF Store, TypeInv, TypeOK
<1>2. ReadsInOrder'
  BY <1>0 DEF ReadsInOrder, Fellows, Unacknowledged
<1>3. WritesInOrder'
  <2> SUFFICES ASSUME NEW i \in Ops, NEW j \in Ops, i < j, Fellows(i, j),
                      write[i].owner = write[j].owner, j \in stored'
               PROVE  stage'[i] \notin Unacknowledged
    BY DEF WritesInOrder, Fellows
  <2>1. stage[i] \notin Unacknowledged
    BY <1>0, <1>1 DEF WritesInOrder
  <2> QED BY <2>1 DEF Unacknowledged
<1>4. StoredWasRead'
  BY <1>0, <1>1 DEF StoredWasRead, Unacknowledged
<1>5. LatestSwipeWins'
  <2> SUFFICES ASSUME NEW i \in stored',
                      \A j \in stored' :
                         (swipe[j].uid = swipe[i].uid /\ swipe[j].card = swipe[i].card)
                         => /\ j <= i /\ swipe[j].dev = swipe[i].dev
                            /\ write[j].owner = write[i].owner
               PROVE  swipes'[swipe[i].uid][swipe[i].card] = swipe[i].verdict
    BY DEF LatestSwipeWins
  <2>0. i \in Ops /\ swipe[k].uid \in Users /\ swipe[k].card \in Users
        /\ swipes \in [Users -> Docs]
    BY <1>0, <1>1 DEF Swipes, TypeInv, TypeOK
  <2>1. CASE i = k
    BY <1>1, <2>0, <2>1 DEF Docs
  <2>2. CASE i # k /\ swipe[k].uid = swipe[i].uid /\ swipe[k].card = swipe[i].card
    <3>1. k <= i /\ swipe[k].dev = swipe[i].dev /\ write[k].owner = write[i].owner
          /\ i \in stored
      BY <1>1, <2>2
    <3>2. k < i
      BY <2>0, <2>2, <3>1, MaxSwipesAssumption DEF Ops
    <3>3. stage[k] \notin Unacknowledged
      BY <2>0, <2>2, <3>1, <3>2 DEF WritesInOrder, Fellows
    <3> QED BY <1>0, <3>3
  <2>3. CASE ~(swipe[k].uid = swipe[i].uid /\ swipe[k].card = swipe[i].card)
    <3>1. i \in stored
      BY <1>1, <2>3
    <3>2. swipes[swipe[i].uid][swipe[i].card] = swipe[i].verdict
      BY <1>1, <3>1 DEF LatestSwipeWins
    <3>3. swipe[i] \in Swipes
      BY <2>0, <3>1 DEF StoredWasRead, TypeInv, OpsOK
    <3> QED BY <1>1, <2>0, <2>3, <3>2, <3>3 DEF Swipes, Docs
  <2> QED BY <2>1, <2>2, <2>3
<1> QED BY <1>2, <1>3, <1>4, <1>5

LEMMA OrderNext == OrderInv /\ [Next]_vars => OrderInv'
<1> SUFFICES ASSUME OrderInv, [Next]_vars PROVE OrderInv'
  OBVIOUS
<1>0. TypeInv /\ TypeInv'
  BY TypeNext DEF OrderInv
<1> USE DEF server
<1>1. ASSUME NEW d \in Devices, NEW c \in Cards[d], NEW v \in Verdicts, Swipe(d, c, v)
      PROVE  OrderInv'
  <2> DEFINE new == made + 1
  <2>1. /\ new \in Ops /\ stage[new] = "idle" /\ new \notin stored
        /\ \A i \in Ops : new < i => stage[i] = "idle"
    BY <1>0, <1>1, MaxSwipesAssumption DEF Swipe, TypeInv, TypeOK, OpsOK, Ops
  <2>2. /\ \A i \in Ops : i # new =>
              swipe'[i] = swipe[i] /\ stage'[i] = stage[i] /\ write'[i] = write[i]
        /\ stage'[new] = "get"
        /\ UNCHANGED <<stored, swipes>> /\ stored \subseteq Ops
    BY <1>0, <1>1, <2>1 DEF Swipe, TypeInv, TypeOK
  <2> HIDE DEF new
  <2>3. ReadsInOrder'
    BY <2>1, <2>2 DEF OrderInv, ReadsInOrder, Fellows
  <2>4. WritesInOrder'
    BY <2>1, <2>2 DEF OrderInv, WritesInOrder, Fellows, Unacknowledged
  <2>5. StoredWasRead'
    BY <2>1, <2>2 DEF OrderInv, StoredWasRead
  <2>6. LatestSwipeWins'
    <3>1. \A i \in stored : swipe'[i] = swipe[i] /\ write'[i] = write[i]
      BY <2>1, <2>2
    <3> QED BY <2>2, <3>1 DEF OrderInv, LatestSwipeWins
  <2> QED BY <1>0, <2>3, <2>4, <2>5, <2>6 DEF OrderInv
<1>2. ASSUME NEW i \in Ops, GetSwipeDoc(i) PROVE OrderInv'
  <2>1. /\ stage[i] = "get" /\ stage'[i] = "queued" /\ i \notin stored
        /\ \A j \in Ops : j # i => stage'[j] = stage[j] /\ write'[j] = write[j]
        /\ UNCHANGED <<stored, swipes, swipe>> /\ stored \subseteq Ops
    BY <1>0, <1>2 DEF GetSwipeDoc, OrderInv, StoredWasRead, TypeInv, TypeOK
  <2>2. \A j \in Ops : j < i /\ Fellows(j, i) => stage[j] # "get"
    BY <1>2 DEF GetSwipeDoc, FirstOf, Fellows
  <2>3. ReadsInOrder'
    BY <2>1, <2>2 DEF OrderInv, ReadsInOrder, Fellows
  <2>4. WritesInOrder'
    <3> SUFFICES ASSUME NEW j \in Ops, NEW k \in Ops, j < k, Fellows(j, k),
                        write'[j].owner = write'[k].owner, k \in stored
                 PROVE  stage'[j] \notin Unacknowledged
      BY <2>1 DEF WritesInOrder, Fellows
    <3>1. k # i /\ stage[k] \notin {"idle", "get"}
      BY <2>1 DEF OrderInv, StoredWasRead
    <3>2. j # i
      BY <2>1, <3>1 DEF OrderInv, ReadsInOrder
    <3> QED BY <2>1, <3>1, <3>2 DEF OrderInv, WritesInOrder
  <2>5. StoredWasRead'
    BY <2>1 DEF OrderInv, StoredWasRead
  <2>6. LatestSwipeWins'
    <3>1. \A j \in stored : write'[j] = write[j]
      BY <2>1
    <3> QED BY <2>1, <3>1 DEF OrderInv, LatestSwipeWins
  <2> QED BY <1>0, <2>3, <2>4, <2>5, <2>6 DEF OrderInv
<1>3. ASSUME NEW i \in Ops, ServerWrite(i) \/ ServerWriteUnacked(i) PROVE OrderInv'
  <2>1. /\ NextInQueue(i) /\ Store(i) /\ UNCHANGED <<swipe, write>>
        /\ \A j \in Ops : j # i => stage'[j] = stage[j]
        /\ stage'[i] \in {stage[i], "written", "dropped"}
    BY <1>0, <1>3 DEF ServerWrite, ServerWriteUnacked, TypeInv, TypeOK
  <2> QED BY <1>0, <2>1, StoreInOrder
<1>4. ASSUME NEW i \in Ops, GetFails(i) PROVE OrderInv'
  <2>1. /\ stage[i] = "get" /\ stage'[i] = "dropped"
        /\ \A j \in Ops : j # i => stage'[j] = stage[j]
        /\ UNCHANGED <<swipe, write, stored, swipes>>
    BY <1>0, <1>4 DEF GetFails, TypeInv, TypeOK
  <2>2. \A j \in Ops : j < i /\ Fellows(j, i) => j # i /\ stage[j] # "get"
    BY <1>4, MaxSwipesAssumption DEF GetFails, FirstOf, Fellows, Ops
  <2> QED BY <1>0, <2>1, <2>2, OrderKept DEF Unacknowledged
<1>5. ASSUME NEW i \in Ops,
             ServerRefuses(i) \/ WriteDone(i) \/ CheckRead(i) \/ CheckOffline(i)
                \/ CheckFails(i) \/ CheckDone(i)
      PROVE  OrderInv'
  <2>1. /\ stage[i] \notin {"idle", "get"}
        /\ stage'[i] \in {"dropped", "check", "done", "answered", "stale"}
        /\ \A j \in Ops : j # i => stage'[j] = stage[j]
        /\ UNCHANGED <<swipe, write, stored, swipes>>
    BY <1>0, <1>5 DEF ServerRefuses, WriteDone, CheckRead, CheckOffline, CheckFails, CheckDone,
                      NextInQueue, Unacknowledged, TypeInv, TypeOK
  <2> QED BY <1>0, <2>1, OrderKept DEF Unacknowledged
<1>6. ASSUME NEW d \in Devices, Restart(d) PROVE OrderInv'
  <2>1. UNCHANGED <<swipe, write, stored, swipes>>
    BY <1>6 DEF Restart
  <2>2. \A i \in Ops :
           /\ swipe[i].dev # d => stage'[i] = stage[i]
           /\ swipe[i].dev = d => /\ stage[i] = "queued" => stage'[i] = "orphan"
                                  /\ stage[i] \in InMemory => stage'[i] = "dropped"
                                  /\ stage[i] \notin {"queued"} \cup InMemory =>
                                        stage'[i] = stage[i]
    <3> SUFFICES ASSUME NEW i \in Ops
                 PROVE  /\ swipe[i].dev # d => stage'[i] = stage[i]
                        /\ swipe[i].dev = d =>
                              /\ stage[i] = "queued" => stage'[i] = "orphan"
                              /\ stage[i] \in InMemory => stage'[i] = "dropped"
                              /\ stage[i] \notin {"queued"} \cup InMemory =>
                                    stage'[i] = stage[i]
      OBVIOUS
    <3>1. stage'[i] = IF swipe[i].dev # d THEN stage[i]
                      ELSE CASE stage[i] = "queued"     -> "orphan"
                             [] stage[i] \in InMemory   -> "dropped"
                             [] OTHER                   -> stage[i]
      BY <1>6 DEF Restart
    <3>2. stage[i] \in InMemory => stage[i] # "queued"
      BY DEF InMemory
    <3> QED BY <3>1, <3>2
  <2>3. \A i \in Ops :
           /\ stage'[i] = "get" => stage[i] = "get" /\ swipe[i].dev # d
           /\ stage'[i] \in Unacknowledged => stage[i] \in Unacknowledged
           /\ stage[i] \notin {"idle", "get"} => stage'[i] \notin {"idle", "get"}
           /\ stage[i] = "get" /\ stage'[i] # "get" => swipe[i].dev = d
           /\ stage[i] = "idle" => stage'[i] = "idle"
    <3> SUFFICES ASSUME NEW i \in Ops
                 PROVE  /\ stage'[i] = "get" => stage[i] = "get" /\ swipe[i].dev # d
                        /\ stage'[i] \in Unacknowledged => stage[i] \in Unacknowledged
                        /\ stage[i] \notin {"idle", "get"} => stage'[i] \notin {"idle", "get"}
                        /\ stage[i] = "get" /\ stage'[i] # "get" => swipe[i].dev = d
                        /\ stage[i] = "idle" => stage'[i] = "idle"
      OBVIOUS
    <3>1. CASE swipe[i].dev # d
      BY <2>2, <3>1
    <3>2. CASE swipe[i].dev = d
      BY <2>2, <3>2 DEF InMemory, Unacknowledged
    <3> QED BY <3>1, <3>2
  <2> QED BY <1>0, <2>1, <2>3, OrderKept DEF Fellows
<1>7. ASSUME NEW d \in Devices, Logout(d) \/ \E u \in Accounts[d] : Login(d, u)
      PROVE  OrderInv'
  <2>1. UNCHANGED <<stage, swipe, write, stored, swipes>>
    BY <1>7 DEF Logout, Login
  <2> QED BY <1>0, <2>1, OrderKept
<1>8. CASE UNCHANGED vars
  <2>1. UNCHANGED <<stage, swipe, write, stored, swipes>>
    BY <1>8 DEF vars
  <2> QED BY <1>0, <2>1, OrderKept
<1> QED BY <1>1, <1>2, <1>3, <1>4, <1>5, <1>6, <1>7, <1>8 DEF Next, User, Progress

\* However often somebody changes their mind, and whatever is lost, sent twice or
\* cut short by restarts and logouts, the server has the last verdict it got from
\* one phone's queue (HomeController.swift 227-259).
THEOREM LatestWins == Spec => []LatestSwipeWins
<1>1. OrderInv => LatestSwipeWins
  BY DEF OrderInv
<1> QED BY <1>1, OrderInit, OrderNext, PTL DEF Spec

-----------------------------------------------------------------------------
(* Whose phone is whose                                                    *)

\* The account has never been signed in to on this phone, or has never shared
\* a phone with the other account.
Elsewhere(d, c) == c \notin Accounts[d]
Apart(u, c) == \A d \in Devices : Elsewhere(d, u) \/ Elsewhere(d, c)
OneAccount == \A d \in Devices : \A u, v \in Accounts[d] : u = v

\* A like that a check has found is on the server, unless this very phone may
\* have made it up out of a write it still holds.
AnswersOK ==
    \A i \in Ops, w \in Users :
        /\ stage[i] \in {"answered", "stale"}
        /\ Elsewhere(swipe[i].dev, swipe[i].card)
        /\ answer[i][w] = "like"
        => \E j \in stored : Like(j, swipe[i].card, w)

\* So is the like that a match view tells of; who swiped and who is told are
\* accounts of the phone.
MatchesOK ==
    \A m \in shown :
        /\ m.uid \in Accounts[m.dev] /\ m.swiper \in Accounts[m.dev]
        /\ Elsewhere(m.dev, m.card) => \E j \in stored : Like(j, m.card, m.uid)

\* What NoMissedMatch asks for two people.
Attended(u, c) ==
    \/ Told(u, c)
    \/ \E i \in stored : /\ Pair(i) = {u, c}
                         /\ swipe[i].verdict = "like"
                         /\ OnItsWay(i) \/ CutShort(i)
ApartAttended == \A u, c \in Users : Apart(u, c) /\ Mutual(u, c) => Attended(u, c)

OwnInv == EvidenceInv /\ AnswersOK /\ MatchesOK /\ ApartAttended

\* The phone lays no write over the document of an account it never had.
LEMMA NoOverlay ==
    ASSUME TypeInv, NEW d \in Devices, NEW c \in Users, Elsewhere(d, c)
    PROVE  Overlay(d, c) = {}
<1> SUFFICES ASSUME NEW j \in Overlay(d, c) PROVE FALSE
  OBVIOUS
<1>1. j \in Ops /\ stage[j] # "idle" /\ swipe[j].dev = d /\ swipe[j].uid = c
  BY DEF Overlay, Unacknowledged
<1> QED BY <1>1 DEF TypeInv, OpsOK, Elsewhere

LEMMA PlainView ==
    ASSUME TypeInv, NEW d \in Devices, NEW c \in Users, Elsewhere(d, c),
           NEW doc \in Docs
    PROVE  \A u \in Users : LocalView(d, c, doc)[u] = doc[u]
<1>1. Overlay(d, c) = {}
  BY NoOverlay
<1>2. \A u : Latest({j \in Overlay(d, c) : swipe[j].card = u}) = {}
  BY <1>1 DEF Latest
<1> QED BY <1>2 DEF LocalView

LEMMA OwnInit == Init => OwnInv
<1> SUFFICES ASSUME Init PROVE OwnInv
  OBVIOUS
<1>1. EvidenceInv
  BY EvidenceInit
<1>2. AnswersOK /\ MatchesOK
  BY DEF Init, AnswersOK, MatchesOK
<1>3. ApartAttended
  BY DEF Init, ApartAttended, Mutual, EmptyDoc
<1> QED BY <1>1, <1>2, <1>3 DEF OwnInv

\* A step that neither answers a check nor presents a match.
LEMMA AnswersKept ==
    ASSUME TypeInv, AnswersOK, MatchesOK,
           UNCHANGED <<answer, shown>>, stored \subseteq stored',
           \A i \in Ops : stage[i] # "idle" => swipe'[i] = swipe[i],
           \A i \in Ops : stage'[i] \in {"answered", "stale"} => stage'[i] = stage[i]
    PROVE  AnswersOK' /\ MatchesOK'
<1>1. \A i \in stored : \A u, c : Like(i, u, c) => Like(i, u, c)' /\ i \in stored'
  BY DEF TypeInv, TypeOK, OpsOK, Like
<1>2. AnswersOK'
  BY <1>1 DEF AnswersOK, Elsewhere
<1>3. MatchesOK'
  BY <1>1 DEF MatchesOK, Elsewhere
<1> QED BY <1>2, <1>3

\* A step that changes nothing on the server and loses no like on its way.
LEMMA PairsKept ==
    ASSUME TypeInv, ApartAttended,
           UNCHANGED <<swipes, stored>>, shown \subseteq shown',
           \A i \in Ops : stage[i] # "idle" => swipe'[i] = swipe[i],
           \A i \in stored : swipe[i].verdict = "like" =>
               \/ OnItsWay(i) => OnItsWay(i)' \/ CutShort(i)'
               \/ Told(swipe[i].uid, swipe[i].card)',
           \A i \in stored : CutShort(i) => CutShort(i)'
    PROVE  ApartAttended'
<1> SUFFICES ASSUME NEW u \in Users, NEW c \in Users, Apart(u, c), Mutual(u, c)'
             PROVE  Attended(u, c)'
  BY DEF ApartAttended, Apart, Elsewhere
<1>1. Mutual(u, c)
  BY DEF Mutual
<1>2. CASE Told(u, c)
  BY <1>2 DEF Told, Attended
<1>3. ASSUME NEW i \in stored, Pair(i) = {u, c}, swipe[i].verdict = "like",
             OnItsWay(i) \/ CutShort(i)
      PROVE  \/ Told(u, c)'
             \/ Pair(i)' = {u, c} /\ swipe'[i].verdict = "like" /\ (OnItsWay(i)' \/ CutShort(i)')
  <2>1. swipe'[i] = swipe[i]
    BY DEF TypeInv, TypeOK, OpsOK
  <2>2. CASE Told(swipe[i].uid, swipe[i].card)'
    BY <1>3, <2>1, <2>2 DEF Told, Pair
  <2>3. CASE ~Told(swipe[i].uid, swipe[i].card)'
    <3>1. OnItsWay(i)' \/ CutShort(i)'
      BY <1>3, <2>3
    <3> QED BY <1>3, <2>1, <3>1 DEF Pair
  <2> QED BY <2>2, <2>3
<1> QED BY <1>1, <1>2, <1>3 DEF ApartAttended, Attended

LEMMA OwnNext == OwnInv /\ [Next]_vars => OwnInv'
<1> SUFFICES ASSUME OwnInv, [Next]_vars PROVE OwnInv'
  OBVIOUS
<1>0. EvidenceInv /\ EvidenceInv' /\ TypeInv /\ TypeInv'
  BY EvidenceNext DEF OwnInv, EvidenceInv
<1> SUFFICES AnswersOK' /\ MatchesOK' /\ ApartAttended'
  BY <1>0 DEF OwnInv
<1>a. AnswersOK /\ MatchesOK /\ ApartAttended
  BY DEF OwnInv
<1>b. \A i \in stored : i \in Ops /\ stage[i] # "idle" /\ swipe[i] \in Swipes
  BY <1>0 DEF TypeInv, TypeOK, OpsOK
<1> DEFINE Goal == AnswersOK' /\ MatchesOK' /\ ApartAttended'
<1> USE DEF server
<1>1. ASSUME NEW d \in Devices, NEW c \in Cards[d], NEW v \in Verdicts, Swipe(d, c, v)
      PROVE  Goal
  <2>1. stage[made + 1] = "idle" /\ made + 1 \in Ops
    <3>1. made \in Nat /\ made + 1 \in Ops
      BY <1>0, <1>1, MaxSwipesAssumption DEF Swipe, TypeInv, TypeOK, Ops
    <3> QED BY <1>0, <3>1 DEF TypeInv, OpsOK
  <2>2. /\ \A i \in Ops : i # made + 1 => swipe'[i] = swipe[i] /\ stage'[i] = stage[i]
        /\ stage'[made + 1] = "get"
    BY <1>0, <1>1, <2>1 DEF Swipe, TypeInv, TypeOK
  <2>3. \A i \in Ops : stage[i] # "idle" => swipe'[i] = swipe[i] /\ stage'[i] = stage[i]
    BY <2>1, <2>2
  <2>4. UNCHANGED <<swipes, stored, shown, answer>>
    BY <1>1 DEF Swipe
  <2>5. AnswersOK' /\ MatchesOK'
    BY <1>0, <1>a, <2>2, <2>3, <2>4, AnswersKept
  <2>6. ApartAttended'
    BY <1>0, <1>a, <1>b, <2>3, <2>4, PairsKept DEF OnItsWay, CutShort
  <2> QED BY <2>5, <2>6
<1>2. ASSUME UNCHANGED <<swipes, stored, shown, answer, swipe, stage>>
      PROVE  Goal
  <2>1. AnswersOK' /\ MatchesOK'
    BY <1>0, <1>a, <1>2, AnswersKept
  <2>2. ApartAttended'
    BY <1>0, <1>a, <1>2, PairsKept DEF OnItsWay, CutShort
  <2> QED BY <2>1, <2>2
<1>3. ASSUME NEW d \in Devices, Restart(d)
      PROVE  Goal
  <2>1. \A i \in Ops : /\ stage'[i] \in {"answered", "stale"} => stage'[i] = stage[i]
                       /\ stage'[i] \in {stage[i], "orphan", "dropped"}
                       /\ stage[i] = "dropped" => stage'[i] = "dropped"
    BY <1>3 DEF Restart, InMemory
  <2>2. UNCHANGED <<swipes, stored, shown, answer, swipe>>
    BY <1>3 DEF Restart
  <2>3. AnswersOK' /\ MatchesOK'
    BY <1>0, <1>a, <2>1, <2>2, AnswersKept
  <2>4. ApartAttended'
    BY <1>0, <1>a, <1>b, <2>1, <2>2, PairsKept DEF OnItsWay, CutShort
  <2> QED BY <2>3, <2>4
<1>4. ASSUME NEW i \in Ops, GetSwipeDoc(i)
      PROVE  Goal
  <2>1. /\ stage[i] = "get" /\ stage'[i] = "queued"
        /\ \A j \in Ops : j # i => stage'[j] = stage[j]
        /\ UNCHANGED <<swipes, stored, shown, answer, swipe>>
    BY <1>0, <1>4 DEF GetSwipeDoc, TypeInv, TypeOK
  <2>2. AnswersOK' /\ MatchesOK'
    BY <1>0, <1>a, <2>1, AnswersKept
  <2>3. ApartAttended'
    BY <1>0, <1>a, <1>b, <2>1, PairsKept DEF OnItsWay, CutShort
  <2> QED BY <2>2, <2>3
<1>5. ASSUME NEW i \in Ops, GetFails(i) \/ ServerRefuses(i) \/ CheckFails(i)
      PROVE  Goal
  <2>1. /\ stage'[i] = "dropped"
        /\ \A j \in Ops : j # i => stage'[j] = stage[j]
        /\ UNCHANGED <<swipes, stored, shown, answer, swipe>>
    BY <1>0, <1>5 DEF GetFails, ServerRefuses, CheckFails, TypeInv, TypeOK
  <2>2. AnswersOK' /\ MatchesOK'
    BY <1>0, <1>a, <2>1, AnswersKept
  <2>3. ApartAttended'
    BY <1>0, <1>a, <1>b, <2>1, PairsKept DEF OnItsWay, CutShort
  <2> QED BY <2>2, <2>3
<1>6. ASSUME NEW i \in Ops, ServerWrite(i) \/ ServerWriteUnacked(i)
      PROVE  Goal
  <2>1. /\ NextInQueue(i) /\ Store(i)
        /\ stage'[i] \in {"written", "dropped", "queued", "orphan"}
        /\ \A j \in Ops : j # i => stage'[j] = stage[j]
        /\ UNCHANGED <<answer, shown, swipe>>
    BY <1>0, <1>6
    DEF ServerWrite, ServerWriteUnacked, NextInQueue, Unacknowledged, TypeInv, TypeOK
  <2>2. stored' = stored \cup {i}
    BY <2>1 DEF Store
  <2>3. AnswersOK' /\ MatchesOK'
    BY <1>0, <1>a, <2>1, <2>2, AnswersKept
  <2>4. ASSUME NEW u \in Users, NEW c \in Users, Apart(u, c), Mutual(u, c)'
        PROVE  Attended(u, c)'
    <3>1. swipe[i] \in Swipes
      BY <1>0, <2>1 DEF NextInQueue, Unacknowledged, TypeInv, OpsOK
    <3>2. CASE Pair(i) = {u, c}
      <4>1. swipes'[swipe[i].uid][swipe[i].card] = swipe[i].verdict
        BY <1>0, <2>1, <3>1 DEF Store, TypeInv, TypeOK, Docs, Swipes
      <4>2. swipe[i].verdict = "like"
        BY <2>4, <3>2, <4>1 DEF Mutual, Pair
      <4> QED BY <2>1, <2>2, <3>2, <4>2 DEF Pair, OnItsWay, CutShort, Attended
    <3>3. CASE Pair(i) # {u, c}
      <4>1. swipes'[u][c] = swipes[u][c] /\ swipes'[c][u] = swipes[c][u]
        <5>1. \A a, b \in Users : swipes'[a][b] # swipes[a][b] =>
                  swipe[i].uid = a /\ swipe[i].card = b
          BY <1>0, <2>1, StoreChangesOneVerdict
        <5> QED BY <3>3, <5>1 DEF Pair
      <4>2. Mutual(u, c)
        BY <2>4, <4>1 DEF Mutual
      <4>3. CASE Told(u, c)
        BY <2>1, <4>3 DEF Told, Attended
      <4>4. ASSUME NEW j \in stored, Pair(j) = {u, c}, swipe[j].verdict = "like",
                   OnItsWay(j) \/ CutShort(j)
            PROVE  /\ j \in stored' /\ Pair(j)' = {u, c}
                   /\ swipe'[j].verdict = "like"
                   /\ OnItsWay(j)' \/ CutShort(j)'
        <5>1. j # i /\ j \in Ops
          BY <1>b, <3>3, <4>4
        <5> QED BY <2>1, <2>2, <4>4, <5>1 DEF Pair, OnItsWay, CutShort
      <4> QED BY <1>a, <2>4, <4>2, <4>3, <4>4 DEF ApartAttended, Attended
    <3> QED BY <3>2, <3>3
  <2>5. ApartAttended'
    BY <2>4 DEF ApartAttended, Apart, Elsewhere
  <2> QED BY <2>3, <2>5
<1>7. ASSUME NEW i \in Ops, WriteDone(i)
      PROVE  Goal
  <2>1. /\ stage'[i] = IF swipe[i].verdict = "like" THEN "check" ELSE "done"
        /\ stage[i] = "written"
        /\ \A j \in Ops : j # i => stage'[j] = stage[j]
        /\ UNCHANGED <<swipes, stored, shown, answer, swipe>>
    BY <1>0, <1>7 DEF WriteDone, TypeInv, TypeOK
  <2>2. AnswersOK' /\ MatchesOK'
    BY <1>0, <1>a, <2>1, AnswersKept
  <2>3. ApartAttended'
    BY <1>0, <1>a, <1>b, <2>1, PairsKept DEF OnItsWay, CutShort
  <2> QED BY <2>2, <2>3
<1>8. ASSUME NEW i \in Ops, CheckRead(i) \/ CheckOffline(i)
      PROVE  AnswersOK' /\ MatchesOK'
  <2>1. /\ stage[i] = "check" /\ i \in stored /\ swipe[i] \in Swipes
        /\ stage'[i] \in {"answered", "stale"}
        /\ Like(i, swipe[i].uid, swipe[i].card)
    BY <1>0, <1>8
    DEF CheckRead, CheckOffline, EvidenceInv, ChecksOK, TypeInv, TypeOK, OpsOK, Like
  <2>2. /\ \A j \in Ops : j # i => stage'[j] = stage[j] /\ answer'[j] = answer[j]
        /\ UNCHANGED <<swipes, stored, shown, swipe>>
    BY <1>0, <1>8 DEF CheckRead, CheckOffline, TypeInv, TypeOK
  <2>3. PICK doc \in Docs :
            /\ answer'[i] = LocalView(swipe[i].dev, swipe[i].card, doc)
            /\ \A c \in Users : doc[c] = "like" => \E j \in stored : Like(j, swipe[i].card, c)
    <3>1. swipe[i].card \in Users /\ swipe[i].dev \in Devices
      BY <2>1 DEF Swipes
    <3>2. CASE CheckRead(i)
      <4>1. swipes[swipe[i].card] \in Docs
        BY <1>0, <3>1 DEF TypeInv, TypeOK
      <4>2. answer'[i] = LocalView(swipe[i].dev, swipe[i].card, swipes[swipe[i].card])
        BY <1>0, <3>2 DEF CheckRead, TypeInv, TypeOK
      <4> QED BY <1>0, <3>1, <4>1, <4>2 DEF EvidenceInv, LikesOK
    <3>3. CASE CheckOffline(i)
      <4>1. cache[swipe[i].dev][swipe[i].card] \in Docs
        BY <1>0, <3>1 DEF TypeInv, TypeOK
      <4>2. answer'[i] = LocalView(swipe[i].dev, swipe[i].card,
                                   cache[swipe[i].dev][swipe[i].card])
        BY <1>0, <3>3 DEF CheckOffline, TypeInv, TypeOK
      <4> QED BY <1>0, <3>1, <4>1, <4>2 DEF EvidenceInv, LikesOK
    <3> QED BY <1>8, <3>2, <3>3
  <2>4. ASSUME NEW w \in Users, Elsewhere(swipe[i].dev, swipe[i].card), answer'[i][w] = "like"
        PROVE  \E j \in stored : Like(j, swipe[i].card, w)
    <3>1. answer'[i][w] = doc[w]
      BY <1>0, <2>1, <2>3, <2>4, PlainView DEF Swipes
    <3> QED BY <2>3, <2>4, <3>1
  <2>5. AnswersOK'
    BY <1>a, <2>2, <2>4 DEF AnswersOK, Like, Elsewhere
  <2>6. MatchesOK'
    BY <1>a, <2>2 DEF MatchesOK, Like, Elsewhere
  <2> QED BY <2>5, <2>6
<1>9. ASSUME NEW i \in Ops, CheckRead(i)
      PROVE  ApartAttended'
  <2>1. /\ stage'[i] = "answered"
        /\ answer'[i] = LocalView(swipe[i].dev, swipe[i].card, swipes[swipe[i].card])
        /\ stage[i] = "check" /\ swipe[i] \in Swipes
        /\ \A j \in Ops : j # i => stage'[j] = stage[j] /\ answer'[j] = answer[j]
        /\ UNCHANGED <<swipes, stored, shown, swipe>>
    BY <1>0, <1>9 DEF CheckRead, TypeInv, TypeOK, OpsOK
  <2>2. ASSUME NEW u \in Users, NEW c \in Users, Apart(u, c), Mutual(u, c), Pair(i) = {u, c}
        PROVE  OnItsWay(i)'
    <3>1. /\ swipe[i].card # swipe[i].uid
          /\ swipes[swipe[i].card][swipe[i].uid] = "like"
      BY <2>2 DEF Mutual, Pair
    <3>2. swipes[swipe[i].card] \in Docs
      BY <1>0, <2>1 DEF TypeInv, TypeOK, Swipes
    <3>3. swipe[i].uid \in Accounts[swipe[i].dev]
      BY <1>0, <2>1 DEF TypeInv, OpsOK
    <3>4. Elsewhere(swipe[i].dev, swipe[i].card)
      BY <2>1, <2>2, <3>1, <3>3 DEF Apart, Pair, Elsewhere, Swipes
    <3>5. answer'[i][swipe[i].uid] = "like"
      BY <1>0, <2>1, <3>1, <3>2, <3>4, PlainView DEF Swipes
    <3> QED BY <2>1, <3>5 DEF OnItsWay
  <2>3. ASSUME NEW u \in Users, NEW c \in Users, Apart(u, c), Mutual(u, c)'
        PROVE  Attended(u, c)'
    <3>1. Mutual(u, c)
      BY <2>1, <2>3 DEF Mutual
    <3>2. CASE Told(u, c)
      BY <2>1, <3>2 DEF Told, Attended
    <3>3. ASSUME NEW j \in stored, Pair(j) = {u, c}, swipe[j].verdict = "like",
                 OnItsWay(j) \/ CutShort(j)
          PROVE  /\ j \in stored' /\ Pair(j)' = {u, c}
                 /\ swipe'[j].verdict = "like"
                 /\ OnItsWay(j)' \/ CutShort(j)'
      <4>1. CASE j = i
        BY <2>1, <2>2, <2>3, <3>1, <3>3, <4>1 DEF Pair
      <4>2. CASE j # i
        BY <1>b, <2>1, <3>3, <4>2 DEF Pair, OnItsWay, CutShort
      <4> QED BY <4>1, <4>2
    <3> QED BY <1>a, <2>3, <3>1, <3>2, <3>3 DEF ApartAttended, Attended
  <2> QED BY <2>3 DEF ApartAttended, Apart, Elsewhere
<1>10. ASSUME NEW i \in Ops, CheckOffline(i)
       PROVE  ApartAttended'
  <2>1. /\ stage'[i] = "stale" /\ stage[i] = "check"
        /\ \A j \in Ops : j # i => stage'[j] = stage[j] /\ answer'[j] = answer[j]
        /\ UNCHANGED <<swipes, stored, shown, swipe>>
    BY <1>0, <1>10 DEF CheckOffline, TypeInv, TypeOK
  <2> QED BY <1>0, <1>a, <1>b, <2>1, PairsKept DEF OnItsWay, CutShort
<1>11. ASSUME NEW i \in Ops, CheckDone(i)
       PROVE  Goal
  <2> DEFINE me == session[swipe[i].dev]
             match == [dev |-> swipe[i].dev, uid |-> me,
                       card |-> swipe[i].card, swiper |-> swipe[i].uid]
  <2>1. /\ stage[i] \in {"answered", "stale"}
        /\ i \in stored /\ swipe[i] \in Swipes
        /\ Like(i, swipe[i].uid, swipe[i].card)
        /\ stage'[i] \in {"done", "dropped"}
        /\ stage'[i] = "done" =>
              me = swipe[i].uid /\ (HasMatched(i, me) \/ stage[i] = "answered")
        /\ \A j \in Ops : j # i => stage'[j] = stage[j] /\ answer'[j] = answer[j]
        /\ UNCHANGED <<swipes, stored, swipe>>
    BY <1>0, <1>11
    DEF CheckDone, EvidenceInv, ChecksOK, TypeInv, TypeOK, OpsOK, Like
  <2>2. /\ HasMatched(i, me) => shown' = shown \cup {match}
        /\ ~HasMatched(i, me) => shown' = shown
    BY <1>11 DEF CheckDone
  <2>3. AnswersOK'
    BY <1>a, <2>1 DEF AnswersOK, Like, Elsewhere
  <2>4. HasMatched(i, me) =>
            /\ me \in Accounts[swipe[i].dev] /\ swipe[i].uid \in Accounts[swipe[i].dev]
            /\ Elsewhere(swipe[i].dev, swipe[i].card) =>
                  \E j \in stored : Like(j, swipe[i].card, me)
    <3> SUFFICES ASSUME HasMatched(i, me)
                 PROVE  /\ me \in Accounts[swipe[i].dev]
                        /\ swipe[i].uid \in Accounts[swipe[i].dev]
                        /\ Elsewhere(swipe[i].dev, swipe[i].card) =>
                              \E j \in stored : Like(j, swipe[i].card, me)
      OBVIOUS
    <3>1. me \in Accounts[swipe[i].dev] /\ swipe[i].uid \in Accounts[swipe[i].dev]
      BY <1>0, <2>1 DEF HasMatched, TypeInv, OpsOK, SessionsOK, Swipes
    <3>2. me \in Users /\ answer[i][me] = "like"
      BY <1>0, <2>1, <3>1, AccountsAssumption DEF HasMatched, Swipes
    <3> QED BY <1>a, <2>1, <3>1, <3>2 DEF AnswersOK
  <2>5. MatchesOK'
    <3>1. \A m \in shown' : m \in shown \/ (HasMatched(i, me) /\ m = match)
      BY <2>2
    <3> QED BY <1>a, <2>1, <2>4, <3>1 DEF MatchesOK, Like, Elsewhere
  <2>6. HasMatched(i, me) /\ me = swipe[i].uid => Told(swipe[i].uid, swipe[i].card)'
    <3>1. ASSUME HasMatched(i, me), me = swipe[i].uid
          PROVE  \E m \in shown' : m.uid = swipe[i].uid /\ m.card = swipe[i].card
      <4>1. match \in shown' /\ match.uid = swipe[i].uid /\ match.card = swipe[i].card
        BY <2>2, <3>1
      <4> QED BY <4>1
    <3>2. swipe' = swipe
      BY <2>1
    <3> QED BY <3>1, <3>2 DEF Told
  <2>7. OnItsWay(i) /\ stage'[i] = "done" => HasMatched(i, me) /\ me = swipe[i].uid
    <3>1. swipe[i].uid # Nobody
      BY <2>1, NobodyAssumption DEF Swipes
    <3> QED BY <2>1, <3>1 DEF OnItsWay, HasMatched
  <2>8. ASSUME NEW j \in stored, swipe[j].verdict = "like"
        PROVE  \/ OnItsWay(j) => OnItsWay(j)' \/ CutShort(j)'
               \/ Told(swipe[j].uid, swipe[j].card)'
    <3>1. CASE j = i
      BY <2>1, <2>6, <2>7, <3>1 DEF CutShort
    <3>2. CASE j # i
      BY <1>b, <2>1, <3>2 DEF OnItsWay
    <3> QED BY <3>1, <3>2
  <2>9. \A j \in stored : CutShort(j) => CutShort(j)'
    BY <1>b, <2>1 DEF CutShort
  <2>10. ApartAttended'
    BY <1>0, <1>a, <2>1, <2>2, <2>8, <2>9, PairsKept
  <2> QED BY <2>3, <2>5, <2>10
<1>12. ASSUME NEW d \in Devices, NEW u \in Accounts[d], Login(d, u)
       PROVE  Goal
  BY <1>2, <1>12 DEF Login
<1>13. ASSUME NEW d \in Devices, Logout(d)
       PROVE  Goal
  BY <1>2, <1>13 DEF Logout
<1>14. CASE UNCHANGED vars
  BY <1>2, <1>14 DEF vars
<1> QED
  BY <1>1, <1>3, <1>4, <1>5, <1>6, <1>7, <1>8, <1>9, <1>10, <1>11, <1>12, <1>13, <1>14
  DEF Next, User, Progress

LEMMA OwnInvariant == Spec => []OwnInv
  BY OwnInit, OwnNext, PTL DEF Spec

\* A phone with a single account tells the account that swiped.
LEMMA OwnMatches == OwnInv /\ OneAccount => MatchMeansBothLiked
  BY DEF OwnInv, EvidenceInv, MatchIsReciprocated, MatchesOK, OneAccount, Elsewhere,
         TypeInv, TypeOK, MatchMeansBothLiked

\* On any phone, shared or not: when the account that is told is the one that
\* swiped, and the person on the card has no account on this phone (or is the
\* swiper), both likes have reached the server, which is what the label of the
\* match view says (MatchView.swift 72).
MatchIsHonest ==
    \A m \in shown :
        m.uid = m.swiper /\ (m.card = m.uid \/ Elsewhere(m.dev, m.card)) =>
            /\ \E i \in stored : Like(i, m.uid, m.card)
            /\ \E i \in stored : Like(i, m.card, m.uid)

THEOREM MatchesHonest == Spec => []MatchIsHonest
<1>1. OwnInv => MatchIsHonest
  BY DEF OwnInv, EvidenceInv, MatchIsReciprocated, MatchesOK, MatchIsHonest
<1> QED BY <1>1, OwnInvariant, PTL

\* Where every phone has a single account, the label of the match view is true:
\* each of the two has liked the other, and both likes have reached the server.
THEOREM MatchesMeanBothLiked == Spec => [](OneAccount => MatchMeansBothLiked)
<1>1. OwnInv => (OneAccount => MatchMeansBothLiked)
  BY OwnMatches
<1> QED BY <1>1, OwnInvariant, PTL

\* Two people who have never shared a phone, whoever else uses theirs: their
\* mutual likes on the server are never just forgotten, however many people
\* swipe at the same time.
THEOREM ApartPairsNotMissed == Spec => []ApartAttended
  BY OwnInvariant, PTL DEF OwnInv

\* In particular nobody is forgotten where every phone has a single account.
THEOREM MutualLikesNotMissed == Spec => [](OneAccount => NoMissedMatch)
<1>1. OneAccount => \A u, c \in Users : u # c => Apart(u, c)
  BY DEF OneAccount, Apart, Elsewhere
<1>2. ApartAttended => (OneAccount => NoMissedMatch)
  BY <1>1 DEF ApartAttended, Attended, NoMissedMatch, Mutual
<1> QED BY <1>2, ApartPairsNotMissed, PTL

-----------------------------------------------------------------------------
(* Every chain of callbacks goes forward, and none is held up for ever     *)

\* How many steps a swipe may still take.
StepsLeft(s) ==
    CASE s = "idle"                  -> 6
      [] s = "get"                   -> 5
      [] s = "queued"                -> 4
      [] s \in {"orphan", "written"} -> 3
      [] s = "check"                 -> 2
      [] s \in {"answered", "stale"} -> 1
      [] OTHER                       -> 0

ChainsGoOn == \A i \in Ops : stage'[i] = stage[i] \/ StepsLeft(stage'[i]) < StepsLeft(stage[i])

\* No swipe is read, written or checked twice, through restarts, changes of
\* account, refusals and lost acknowledgements: whatever happens to its chain of
\* callbacks takes it closer to its end (HomeController.swift 215-286).
THEOREM ChainsEnd == Spec => [][ChainsGoOn]_vars
<1>1. ASSUME TypeInv, Next PROVE ChainsGoOn
  <2>0. DOMAIN stage = Ops /\ DOMAIN stage' = Ops
    BY <1>1, TypeNext DEF TypeInv, TypeOK
  <2>1. ASSUME NEW d \in Devices, NEW c \in Cards[d], NEW v \in Verdicts, Swipe(d, c, v)
        PROVE  ChainsGoOn
    <3>1. made \in Nat /\ made + 1 \in Ops
      BY <1>1, <2>1, MaxSwipesAssumption DEF Swipe, TypeInv, TypeOK, Ops
    <3>2. stage[made + 1] = "idle"
      BY <1>1, <3>1 DEF TypeInv, OpsOK
    <3>3. stage' = [stage EXCEPT ![made + 1] = "get"]
      BY <2>1 DEF Swipe
    <3> QED BY <2>0, <3>2, <3>3 DEF ChainsGoOn, StepsLeft
  <2>2. ASSUME NEW d \in Devices, Restart(d) PROVE ChainsGoOn
    BY <2>2 DEF Restart, ChainsGoOn, StepsLeft, InMemory
  <2>3. ASSUME NEW i \in Ops, Progress(i) PROVE ChainsGoOn
    <3>1. \A j \in Ops \ {i} : stage'[j] = stage[j]
      <4>1. stage' = stage \/ \E w : stage' = [stage EXCEPT ![i] = w]
        BY <2>3
        DEF Progress, GetSwipeDoc, GetFails, ServerWrite, ServerWriteUnacked, ServerRefuses,
            WriteDone, CheckRead, CheckOffline, CheckFails, CheckDone
      <4> QED BY <2>0, <4>1
    <3>2. \/ stage'[i] = stage[i]
          \/ stage[i] = "get" /\ stage'[i] \in {"queued", "dropped"}
          \/ stage[i] = "queued" /\ stage'[i] \in {"written", "dropped"}
          \/ stage[i] = "orphan" /\ stage'[i] = "dropped"
          \/ stage[i] = "written" /\ stage'[i] \in {"check", "done"}
          \/ stage[i] = "check" /\ stage'[i] \in {"answered", "stale", "dropped"}
          \/ stage[i] \in {"answered", "stale"} /\ stage'[i] \in {"done", "dropped"}
      <4>1. CASE GetSwipeDoc(i) \/ GetFails(i)
        BY <2>0, <4>1 DEF GetSwipeDoc, GetFails
      <4>2. CASE ServerWrite(i) \/ ServerWriteUnacked(i) \/ ServerRefuses(i)
        BY <2>0, <4>2
        DEF ServerWrite, ServerWriteUnacked, ServerRefuses, NextInQueue, Unacknowledged
      <4>3. CASE WriteDone(i)
        BY <2>0, <4>3 DEF WriteDone
      <4>4. CASE CheckRead(i) \/ CheckOffline(i) \/ CheckFails(i)
        BY <2>0, <4>4 DEF CheckRead, CheckOffline, CheckFails
      <4>5. CASE CheckDone(i)
        BY <2>0, <4>5 DEF CheckDone
      <4> QED BY <2>3, <4>1, <4>2, <4>3, <4>4, <4>5 DEF Progress
    <3>3. stage'[i] = stage[i] \/ StepsLeft(stage'[i]) < StepsLeft(stage[i])
      BY <3>2 DEF StepsLeft
    <3> QED BY <2>0, <3>1, <3>3 DEF ChainsGoOn
  <2>4. ASSUME UNCHANGED stage PROVE ChainsGoOn
    BY <2>4 DEF ChainsGoOn
  <2>5. \/ \E d \in Devices : \E c \in Cards[d], v \in Verdicts : Swipe(d, c, v)
        \/ \E d \in Devices : Restart(d)
        \/ \E i \in Ops : Progress(i)
        \/ UNCHANGED stage
    BY <1>1 DEF Next, User, Login, Logout
  <2> QED BY <2>1, <2>2, <2>3, <2>4, <2>5
<1>2. TypeInv /\ [Next]_vars => [ChainsGoOn]_vars
  BY <1>1
<1> QED BY <1>2, TypeInvariant, PTL DEF Spec

\* No callback waits to run, and the queue of nobody signed in has a write to send.
Quiet ==
    \A i \in Ops : /\ stage[i] \notin {"written", "check", "answered", "stale"}
                   /\ ~NextInQueue(i)

\* A write of somebody who is signed in is never held up behind one of another
\* account: the oldest of them is always the next to be sent.
LEMMA QueueMoves ==
    ASSUME TypeInv, NEW i \in Ops, stage[i] \in Unacknowledged,
           write[i].owner = session[swipe[i].dev]
    PROVE  \E j \in Ops : NextInQueue(j)
<1> DEFINE waiting == {j \in Ops : /\ stage[j] \in Unacknowledged
                                   /\ write[j].owner = write[i].owner
                                   /\ swipe[j].dev = swipe[i].dev
                                   /\ swipe[j].uid = swipe[i].uid}
<1>1. waiting \subseteq Nat /\ waiting # {}
  BY MaxSwipesAssumption DEF Ops
<1>2. PICK j \in waiting : \A k \in waiting : ~(<<k, j>> \in OpToRel(<, Nat))
  BY <1>1, NatLessThanWellFounded, WFMin
<1>3. \A k \in waiting : ~(k < j)
  BY <1>1, <1>2 DEF OpToRel
<1>4. NextInQueue(j)
  BY <1>3 DEF NextInQueue
<1> QED BY <1>4

\* Once everything is quiet, two people who like each other and never shared a
\* phone have been told, or a like of theirs was cut short, or waits for its
\* account to sign in again, or lies in the queue of another account: there is no
\* other way to miss a match (HomeController.swift 215-286).
QuietIsTold ==
    Quiet => \A u, c \in Users :
        Apart(u, c) /\ Mutual(u, c) =>
            \/ Told(u, c)
            \/ \E i \in stored : /\ Pair(i) = {u, c}
                                 /\ \/ CutShort(i)
                                    \/ Stranded(i)
                                    \/ session[swipe[i].dev] # swipe[i].uid

THEOREM QuietMeansTold == Spec => []QuietIsTold
<1>1. OwnInv => QuietIsTold
  <2> SUFFICES ASSUME OwnInv, Quiet, NEW u \in Users, NEW c \in Users, Apart(u, c),
                      Mutual(u, c), ~Told(u, c)
               PROVE  \E i \in stored : /\ Pair(i) = {u, c}
                                        /\ \/ CutShort(i)
                                           \/ Stranded(i)
                                           \/ session[swipe[i].dev] # swipe[i].uid
    BY DEF QuietIsTold
  <2>0. TypeInv
    BY DEF OwnInv, EvidenceInv
  <2>1. PICK i \in stored : Pair(i) = {u, c} /\ (OnItsWay(i) \/ CutShort(i))
    BY DEF OwnInv, ApartAttended, Attended
  <2>2. i \in Ops
    BY <2>0 DEF TypeInv, TypeOK
  <2>3. CutShort(i) \/ stage[i] \in Unacknowledged
    BY <2>1, <2>2 DEF OnItsWay, Quiet, Unacknowledged
  <2>4. stage[i] \in Unacknowledged => write[i].owner # session[swipe[i].dev]
    BY <2>0, <2>2, QueueMoves DEF Quiet
  <2> QED BY <2>1, <2>3, <2>4 DEF Stranded
<1> QED BY <1>1, OwnInvariant, PTL
=============================================================================
