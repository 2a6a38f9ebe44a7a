--------------------------- MODULE HomeDeckProofs ---------------------------
(***************************************************************************)
(* Theorems about HomeDeck for every set of users, every feed, failing     *)
(* requests or not, and any number of fetches.                             *)
(***************************************************************************)
EXTENDS HomeDeck, TLAPS

-----------------------------------------------------------------------------
(* Sequences of cards                                                      *)

LEMMA RemoveAtIs ==
    ASSUME NEW S, NEW s \in Seq(S), NEW i \in 1..Len(s)
    PROVE  /\ RemoveAt(s, i) \in Seq(S)
           /\ Len(RemoveAt(s, i)) = Len(s) - 1
           /\ \A k \in 1..(Len(s) - 1) :
                 RemoveAt(s, i)[k] = IF k < i THEN s[k] ELSE s[k + 1]
<1> DEFINE front == SubSeq(s, 1, i - 1)
           back  == SubSeq(s, i + 1, Len(s))
<1>1. /\ front \in Seq(S) /\ Len(front) = i - 1
      /\ \A k \in 1..(i - 1) : front[k] = s[k]
  OBVIOUS
<1>2. /\ back \in Seq(S) /\ Len(back) = Len(s) - i
      /\ \A k \in 1..(Len(s) - i) : back[k] = s[k + i]
  OBVIOUS
<1>3. RemoveAt(s, i) = front \o back
  BY DEF RemoveAt
<1> HIDE DEF front, back
<1>4. /\ front \o back \in Seq(S)
      /\ Len(front \o back) = Len(s) - 1
  BY <1>1, <1>2
<1>5. ASSUME NEW k \in 1..(Len(s) - 1)
      PROVE  (front \o back)[k] = IF k < i THEN s[k] ELSE s[k + 1]
  <2>1. CASE k < i
    BY <1>1, <1>2, <2>1
  <2>2. CASE k >= i
    <3>1. (front \o back)[k] = back[k - (i - 1)]
      BY <1>1, <1>2, <2>2
    <3>2. k - (i - 1) \in 1..(Len(s) - i) /\ (k - (i - 1)) + i = k + 1
      BY <2>2
    <3>3. back[k - (i - 1)] = s[k + 1]
      BY <1>2, <3>2
    <3> QED BY <2>2, <3>1, <3>3
  <2>3. k < i \/ k >= i
    OBVIOUS
  <2> QED BY <2>1, <2>2, <2>3
<1> QED BY <1>3, <1>4, <1>5

\* No card is there twice.
Distinct(cards) == \A j, k \in DOMAIN cards : cards[j] = cards[k] => j = k

LEMMA RemoveCardIs ==
    ASSUME NEW S, NEW s \in Seq(S), NEW e
    PROVE  /\ RemoveCard(s, e) \in Seq(S)
           /\ \A k \in DOMAIN RemoveCard(s, e) : \E j \in DOMAIN s : RemoveCard(s, e)[k] = s[j]
           /\ Distinct(s) => Distinct(RemoveCard(s, e))
<1>1. CASE ~\E k \in DOMAIN s : s[k] = e
  BY <1>1 DEF RemoveCard
<1>2. CASE \E k \in DOMAIN s : s[k] = e
  <2>1. PICK i : i = (CHOOSE k \in DOMAIN s : s[k] = e)
    OBVIOUS
  <2>a. i \in 1..Len(s)
    BY <1>2, <2>1
  <2>b. RemoveCard(s, e) = RemoveAt(s, i)
    BY <1>2, <2>1 DEF RemoveCard
  <2> DEFINE r == RemoveAt(s, i)
  <2>2. /\ r \in Seq(S) /\ DOMAIN s = 1..Len(s) /\ DOMAIN r = 1..(Len(s) - 1)
        /\ \A k \in 1..(Len(s) - 1) : r[k] = IF k < i THEN s[k] ELSE s[k + 1]
    BY <2>a, RemoveAtIs
  <2> HIDE DEF r
  <2>3. \A k \in DOMAIN r : \E j \in DOMAIN s : r[k] = s[j]
    BY <2>a, <2>2
  <2>4. Distinct(s) => Distinct(r)
    <3> SUFFICES ASSUME Distinct(s), NEW j \in DOMAIN r, NEW k \in DOMAIN r, r[j] = r[k]
                 PROVE  j = k
      BY DEF Distinct
    <3> DEFINE from(n) == IF n < i THEN n ELSE n + 1
    <3>1. \A n \in DOMAIN r : from(n) \in DOMAIN s /\ r[n] = s[from(n)]
      BY <2>a, <2>2
    <3>2. from(j) = from(k)
      BY <3>1 DEF Distinct
    <3> QED BY <2>a, <2>2, <3>2
  <2> QED BY <2>b, <2>2, <2>3, <2>4 DEF r
<1> QED BY <1>1, <1>2

LEMMA RemoveHead ==
    ASSUME NEW S, NEW s \in Seq(S), s # <<>>, Distinct(s)
    PROVE  RemoveCard(s, Head(s)) = Tail(s)
<1>1. 1 \in DOMAIN s /\ s[1] = Head(s)
  OBVIOUS
<1>2. (CHOOSE k \in DOMAIN s : s[k] = Head(s)) = 1
  BY <1>1 DEF Distinct
<1>3. RemoveCard(s, Head(s)) = RemoveAt(s, 1)
  BY <1>1, <1>2 DEF RemoveCard
<1>4. Tail(s) \in Seq(S) /\ Len(Tail(s)) = Len(s) - 1
      /\ \A k \in 1..(Len(s) - 1) : Tail(s)[k] = s[k + 1]
  OBVIOUS
<1>5. /\ RemoveAt(s, 1) \in Seq(S)
      /\ Len(RemoveAt(s, 1)) = Len(s) - 1
      /\ \A k \in 1..(Len(s) - 1) : RemoveAt(s, 1)[k] = s[k + 1]
  BY <1>1, RemoveAtIs
<1> QED BY <1>3, <1>4, <1>5

-----------------------------------------------------------------------------
(* The inductive invariant                                                 *)

\* Nothing comes before the profile but its own read, under the HUD.
ProfileFirst ==
    user = Nobody =>
        /\ hud # "going"
        /\ modal = "closed" \/ hud = "up"
        /\ queries = 0
        /\ \A u \in Users : swipeGets[u] = 0

\* Cards are distinct: no query has returned with the next number yet.
CardsDistinct ==
    /\ Distinct(deck)
    /\ \A k \in DOMAIN deck : deck[k].query <= landed

\* One request at a time, one after the other.
OneRequest ==
    /\ queries \in {0, 1}
    /\ \A u \in Users : profileGets[u] \in {0, 1} /\ swipeGets[u] \in {0, 1}
    /\ \A u, v \in Users :
          /\ profileGets[u] = 1 => swipeGets[v] = 0 /\ queries = 0
          /\ swipeGets[u] = 1 => queries = 0
          /\ profileGets[u] = 1 /\ profileGets[v] = 1 => u = v
          /\ swipeGets[u] = 1 /\ swipeGets[v] = 1 => u = v

\* Where the deck stands while the fetch that is not overlapped proceeds.
DeckFollows ==
    /\ \A u \in Users :
          profileGets[u] = 1 \/ swipeGets[u] = 1 => hud = "up" /\ deck = <<>>
    /\ queries = 1 => deck = <<>> /\ chain = <<>>
    /\ hud = "up" \/ chain = deck

DeckInv ==
    /\ TypeOK
    /\ ProfileFirst
    /\ CardsDistinct
    /\ ~overlapped => OneRequest /\ DeckFollows
    /\ OwnCardHidden

LEMMA DeckInit == Init => DeckInv
<1> SUFFICES ASSUME Init PROVE DeckInv
  OBVIOUS
<1>a. deck \in Seq(Cards) /\ chain \in Seq(Cards)
  BY DEF Init
<1>b. fetches \in 0..MaxFetches /\ landed \in Nat /\ queries \in Nat
  BY MaxFetchesAssumption DEF Init
<1>c. last \in [seen : Sessions, saved : Sessions]
  BY DEF Init, Sessions
<1>1. TypeOK
  BY <1>a, <1>b, <1>c DEF Init, TypeOK, Sessions, Hud!Init, Hud!Phases
<1>2. DeckFollows /\ OneRequest /\ ProfileFirst /\ CardsDistinct /\ OwnCardHidden
  BY DEF Init, Hud!Init, DeckFollows, OneRequest, ProfileFirst, CardsDistinct, OwnCardHidden, Distinct
<1> QED BY <1>1, <1>2 DEF DeckInv

\* The steps that touch neither the deck nor a request.
LEMMA DeckKept ==
    ASSUME DeckInv, TypeOK',
           UNCHANGED <<hud, user, deck, chain, profileGets, swipeGets, queries,
                       landed, overlapped>>,
           modal # "closed",
           \/ session' = session /\ relogged' = relogged
           \/ session' = Nobody
           \/ relogged'
    PROVE  DeckInv'
<1>1. ProfileFirst'
  BY DEF DeckInv, ProfileFirst
<1>2. CardsDistinct'
  BY DEF DeckInv, CardsDistinct, Distinct
<1>3. OwnCardHidden'
  BY DEF DeckInv, OwnCardHidden
<1>4. ~overlapped' => OneRequest' /\ DeckFollows'
  BY DEF DeckInv, OneRequest, DeckFollows
<1> QED BY <1>1, <1>2, <1>3, <1>4 DEF DeckInv

\* A fetch of the current user begins a deck of its own.
LEMMA DeckFetched ==
    ASSUME DeckInv, TypeOK', NEW s \in Users, FetchCurrentUser(s), session' = s,
           modal' \in {modal, "none"},
           UNCHANGED <<user, chain, swipeGets, queries, landed>>
    PROVE  DeckInv'
<1>1. /\ hud \in Hud!Phases /\ hud' = (IF hud = "down" THEN "up" ELSE hud)
      /\ deck' = <<>> /\ relogged' = FALSE
      /\ profileGets' = [profileGets EXCEPT ![s] = @ + 1]
      /\ overlapped' = (InFlight \/ hud = "going")
  BY NobodyAssumption DEF FetchCurrentUser, Hud!Show, DeckInv, TypeOK
<1>2. ProfileFirst' /\ CardsDistinct' /\ OwnCardHidden'
  <2>1. ProfileFirst'
    BY <1>1 DEF DeckInv, ProfileFirst, Hud!Phases
  <2> QED BY <1>1, <2>1 DEF DeckInv, CardsDistinct, OwnCardHidden, Distinct
<1>3. ASSUME ~overlapped'
      PROVE  OneRequest' /\ DeckFollows'
  <2>a. ~InFlight /\ hud # "going"
    BY <1>1, <1>3, Zenon
  <2>0. hud' = "up"
    BY <1>1, <2>a DEF Hud!Phases
  <2>1. queries = 0 /\ \A u \in Users : profileGets[u] = 0 /\ swipeGets[u] = 0
    BY <2>a DEF InFlight, DeckInv, TypeOK
  <2>2. \A u \in Users : profileGets'[u] = IF u = s THEN 1 ELSE 0
    BY <1>1, <2>1 DEF DeckInv, TypeOK
  <2> QED BY <1>1, <2>0, <2>1, <2>2 DEF OneRequest, DeckFollows
<1> QED BY <1>2, <1>3 DEF DeckInv

-----------------------------------------------------------------------------
(* Every step keeps the invariant                                          *)

LEMMA LaunchKeeps == ASSUME DeckInv, Launch PROVE DeckInv'
<1>1. TypeOK'
  <2>1. /\ session' \in Sessions /\ user' \in Sessions
        /\ modal' \in {"closed", "none", "registration", "settings"}
        /\ hud' \in Hud!Phases /\ late' \in BOOLEAN
        /\ overlapped' \in BOOLEAN /\ relogged' \in BOOLEAN
        /\ hasSwipes' \subseteq Users
    BY DEF DeckInv, TypeOK, Launch, Sessions, Hud!Phases
  <2>2. deck' \in Seq(Cards) /\ chain' \in Seq(Cards)
    BY DEF Launch
  <2>3. /\ profileGets' \in [Users -> Nat] /\ swipeGets' \in [Users -> Nat]
        /\ queries' \in Nat /\ fetches' \in 0..MaxFetches /\ landed' \in Nat
    BY MaxFetchesAssumption DEF Launch
  <2>4. last' \in [seen : Sessions, saved : Sessions]
    BY DEF Launch, Sessions
  <2> QED BY <2>1, <2>2, <2>3, <2>4 DEF TypeOK
<1>2. ProfileFirst' /\ CardsDistinct' /\ OwnCardHidden' /\ OneRequest'
  BY DEF Launch, ProfileFirst, CardsDistinct, OwnCardHidden, Distinct, OneRequest
<1>3. DeckFollows'
  BY DEF Launch, DeckFollows
<1> QED BY <1>1, <1>2, <1>3 DEF DeckInv

LEMMA ProfileArrivesKeeps ==
    ASSUME DeckInv, NEW u \in Users, ProfileArrives(u) PROVE DeckInv'
<1> USE DEF ProfileArrives, counters, history
<1>1. TypeOK'
  <2>1. user' \in Sessions
    BY DEF Sessions
  <2>2. profileGets' \in [Users -> Nat] /\ swipeGets' \in [Users -> Nat]
    <3>1. profileGets \in [Users -> Nat] /\ swipeGets \in [Users -> Nat]
      BY DEF DeckInv, TypeOK
    <3>2. profileGets[u] \in Nat /\ profileGets[u] > 0
      BY <3>1
    <3>3. profileGets[u] - 1 \in Nat
      BY <3>2
    <3>4. profileGets' \in [Users -> Nat]
      BY <3>1, <3>3
    <3>5. \A v \in Users : swipeGets[v] + 1 \in Nat
      BY <3>1
    <3>6. session = Nobody \/ session \in Users
      BY DEF DeckInv, TypeOK, Sessions
    <3>7. swipeGets' \in [Users -> Nat]
      BY <3>1, <3>5, <3>6
    <3> QED BY <3>4, <3>7
  <2> QED BY <2>1, <2>2 DEF DeckInv, TypeOK
<1>2. ProfileFirst' /\ CardsDistinct' /\ OwnCardHidden'
  BY NobodyAssumption DEF DeckInv, ProfileFirst, CardsDistinct, OwnCardHidden, Distinct
<1>3. ASSUME ~overlapped' PROVE OneRequest' /\ DeckFollows'
  <2>1. /\ profileGets[u] = 1 /\ queries = 0 /\ hud = "up" /\ deck = <<>>
        /\ \A v \in Users : swipeGets[v] = 0 /\ (v # u => profileGets[v] = 0)
    BY <1>3 DEF DeckInv, TypeOK, OneRequest, DeckFollows
  <2>2. \A v \in Users : /\ profileGets'[v] = 0
                         /\ swipeGets'[v] = IF v = session THEN 1 ELSE 0
    BY <2>1, NobodyAssumption DEF DeckInv, TypeOK, Sessions
  <2> QED BY <2>1, <2>2 DEF OneRequest, DeckFollows
<1> QED BY <1>1, <1>2, <1>3 DEF DeckInv

LEMMA ProfileFailsKeeps ==
    ASSUME DeckInv, NEW u \in Users, ProfileFails(u) PROVE DeckInv'
<1> USE DEF ProfileFails, counters, history
<1>1. TypeOK'
  BY DEF DeckInv, TypeOK
<1>2. ProfileFirst' /\ CardsDistinct' /\ OwnCardHidden'
  BY DEF DeckInv, ProfileFirst, CardsDistinct, OwnCardHidden, Distinct
<1>3. ASSUME ~overlapped' PROVE OneRequest' /\ DeckFollows'
  <2>1. /\ profileGets[u] = 1 /\ queries = 0 /\ hud = "up" /\ deck = <<>>
        /\ \A v \in Users : swipeGets[v] = 0 /\ (v # u => profileGets[v] = 0)
    BY <1>3 DEF DeckInv, TypeOK, OneRequest, DeckFollows
  <2>2. \A v \in Users : profileGets'[v] = 0
    BY <2>1 DEF DeckInv, TypeOK
  <2> QED BY <2>1, <2>2 DEF OneRequest, DeckFollows
<1> QED BY <1>1, <1>2, <1>3 DEF DeckInv

LEMMA SwipesAnsweredKeeps ==
    ASSUME DeckInv, NEW u \in Users, SwipesArrive(u) \/ SwipesFail(u) PROVE DeckInv'
<1>1. /\ swipeGets[u] > 0
      /\ swipeGets' = [swipeGets EXCEPT ![u] = @ - 1]
      /\ \/ queries' = queries /\ chain' = chain
         \/ queries' = queries + 1 /\ chain' = <<>>
      /\ UNCHANGED <<session, modal, hud, user, deck, profileGets, counters, late,
                   hasSwipes, history>>
  BY DEF SwipesArrive, SwipesFail, StartQuery, counters, history
<1> USE DEF counters, history
<1>2. TypeOK'
  <2>0. chain \in Seq(Cards) /\ <<>> \in Seq(Cards)
    BY DEF DeckInv, TypeOK
  <2>1. chain' \in Seq(Cards)
    BY <1>1, <2>0, Zenon
  <2>2. queries' \in Nat /\ swipeGets' \in [Users -> Nat]
    BY <1>1 DEF DeckInv, TypeOK
  <2> QED BY <1>1, <2>1, <2>2 DEF DeckInv, TypeOK
<1>3. ProfileFirst'
  BY <1>1 DEF DeckInv, TypeOK, ProfileFirst
<1>4. CardsDistinct' /\ OwnCardHidden'
  BY <1>1 DEF DeckInv, CardsDistinct, OwnCardHidden, Distinct
<1>5. ASSUME ~overlapped' PROVE OneRequest' /\ DeckFollows'
  <2>1. /\ swipeGets[u] = 1 /\ queries = 0 /\ hud = "up" /\ deck = <<>>
        /\ \A v \in Users : profileGets[v] = 0 /\ (v # u => swipeGets[v] = 0)
    BY <1>1, <1>5 DEF DeckInv, TypeOK, OneRequest, DeckFollows
  <2>2. swipeGets \in [Users -> Nat]
    BY DEF DeckInv, TypeOK
  <2>3. \A v \in Users : swipeGets'[v] = 0
    BY <1>1, <2>1, <2>2
  <2>4. \A v \in Users : profileGets'[v] = 0
    BY <1>1, <2>1
  <2>5. hud' = "up" /\ deck' = <<>> /\ queries' \in {0, 1} /\ (queries' = 1 => chain' = <<>>)
    BY <1>1, <2>1
  <2> QED BY <2>3, <2>4, <2>5 DEF OneRequest, DeckFollows
<1> QED BY <1>2, <1>3, <1>4, <1>5 DEF DeckInv

\* The cards a query brings are new.
LEMMA BatchIs ==
    ASSUME DeckInv, NEW feed \in Feeds
    PROVE  /\ Batch(feed) \in Seq(Cards)
           /\ Distinct(deck \o Batch(feed))
           /\ \A k \in DOMAIN (deck \o Batch(feed)) :
                 /\ (deck \o Batch(feed))[k].query <= landed + 1
                 /\ \/ \E j \in DOMAIN deck : (deck \o Batch(feed))[k].who = deck[j].who
                    \/ \E j \in DOMAIN feed : (deck \o Batch(feed))[k].who = feed[j]
<1> DEFINE b == Batch(feed)
<1>1. feed \in Seq(Users) /\ deck \in Seq(Cards) /\ landed \in Nat
  BY FeedsAssumption DEF DeckInv, TypeOK
<1>2. /\ b \in Seq(Cards) /\ Len(b) = Len(feed)
      /\ \A k \in 1..Len(feed) : b[k].who = feed[k] /\ b[k].query = landed + 1
  <2>1. b = [k \in 1..Len(feed) |-> [who |-> feed[k], query |-> landed + 1]]
    BY <1>1 DEF Batch
  <2>2. \A k \in 1..Len(feed) : [who |-> feed[k], query |-> landed + 1] \in Cards
    BY <1>1 DEF Cards
  <2>3. Len(feed) \in Nat
    BY <1>1
  <2> HIDE DEF b
  <2>4. b \in Seq(Cards) /\ Len(b) = Len(feed)
    BY <2>1, <2>2, <2>3
  <2> QED BY <2>1, <2>4
<1> HIDE DEF b
<1>3. \A j, k \in 1..Len(feed) : feed[j] = feed[k] => j = k
  BY <1>1, FeedsAssumption
<1> DEFINE d == deck \o b
<1>4. /\ d \in Seq(Cards) /\ Len(d) = Len(deck) + Len(b)
      /\ \A k \in 1..Len(deck) : d[k] = deck[k]
      /\ \A k \in 1..Len(d) : k > Len(deck) => d[k] = b[k - Len(deck)]
  <2>1. deck \in Seq(Cards) /\ b \in Seq(Cards)
    BY <1>1, <1>2
  <2> HIDE DEF DeckInv
  <2>2. d \in Seq(Cards) /\ Len(d) = Len(deck) + Len(b)
    BY <2>1
  <2>3. \A k \in 1..Len(deck) : d[k] = deck[k]
    BY <2>1
  <2>4. \A k \in 1..Len(d) : k > Len(deck) => d[k] = b[k - Len(deck)]
    BY <2>1, <2>2
  <2> QED BY <2>2, <2>3, <2>4
<1> HIDE DEF d
<1>5. \A k \in 1..Len(d) : k > Len(deck) => k - Len(deck) \in 1..Len(feed)
  BY <1>1, <1>2, <1>4
<1>6. \A k \in 1..Len(deck) : deck[k].query <= landed /\ deck[k].query \in Nat
  <2>1. \A k \in 1..Len(deck) : deck[k] \in Cards
    BY <1>1
  <2>2. \A k \in 1..Len(deck) : deck[k].query <= landed
    BY <1>1 DEF DeckInv, CardsDistinct
  <2> QED BY <2>1, <2>2 DEF Cards
<1>7. \A k \in 1..Len(d) :
         IF k > Len(deck)
         THEN d[k].who = feed[k - Len(deck)] /\ d[k].query = landed + 1
         ELSE d[k] = deck[k] /\ d[k].query <= landed /\ d[k].query \in Nat
  <2> SUFFICES ASSUME NEW k \in 1..Len(d)
               PROVE  IF k > Len(deck)
                      THEN d[k].who = feed[k - Len(deck)] /\ d[k].query = landed + 1
                      ELSE d[k] = deck[k] /\ d[k].query <= landed /\ d[k].query \in Nat
    OBVIOUS
  <2>1. CASE k > Len(deck)
    BY <1>2, <1>4, <1>5, <2>1
  <2>2. CASE ~(k > Len(deck))
    <3>1. k \in 1..Len(deck)
      BY <1>1, <1>4, <2>2
    <3> QED BY <1>4, <1>6, <2>2, <3>1
  <2> QED BY <2>1, <2>2
<1>8. Distinct(d)
  <2> SUFFICES ASSUME NEW j \in 1..Len(d), NEW k \in 1..Len(d), d[j] = d[k]
               PROVE  j = k
    BY <1>4 DEF Distinct
  <2>0. j \in Nat /\ k \in Nat /\ Len(deck) \in Nat
    BY <1>1, <1>4
  <2>1. CASE j > Len(deck) /\ k > Len(deck)
    <3>1. feed[j - Len(deck)] = feed[k - Len(deck)]
      BY <1>7, <2>1
    <3>2. j - Len(deck) = k - Len(deck)
      BY <1>3, <1>5, <2>1, <3>1
    <3> QED BY <2>0, <3>2
  <2>2. CASE ~(j > Len(deck)) /\ ~(k > Len(deck))
    <3>1. deck[j] = deck[k] /\ j \in DOMAIN deck /\ k \in DOMAIN deck
      BY <1>1, <1>7, <2>0, <2>2
    <3> QED BY <3>1 DEF DeckInv, CardsDistinct, Distinct
  <2>3. CASE (j > Len(deck)) # (k > Len(deck))
    BY <1>1, <1>7, <2>3
  <2> QED BY <2>1, <2>2, <2>3
<1>9. \A k \in 1..Len(d) : d[k].query <= landed + 1
  BY <1>1, <1>7
<1>10. \A k \in 1..Len(d) :
          \/ \E j \in DOMAIN deck : d[k].who = deck[j].who
          \/ \E j \in DOMAIN feed : d[k].who = feed[j]
  <2> TAKE k \in 1..Len(d)
  <2>1. CASE k > Len(deck)
    <3>1. k - Len(deck) \in DOMAIN feed
      BY <1>1, <1>5, <2>1
    <3>2. d[k].who = feed[k - Len(deck)]
      BY <1>7, <2>1
    <3> QED BY <3>1, <3>2
  <2>2. CASE ~(k > Len(deck))
    BY <1>1, <1>4, <1>7, <2>2
  <2> QED BY <2>1, <2>2
<1> QED BY <1>2, <1>4, <1>8, <1>9, <1>10 DEF d, b

LEMMA QueryReturnsKeeps == ASSUME DeckInv, QueryReturns PROVE DeckInv'
<1> USE DEF QueryReturns, history, Hud!Dismiss
<1> PICK feed \in Feeds : /\ NotCurrentUser(feed)
                          /\ deck' = deck \o Batch(feed)
                          /\ chain' = Relinked(Batch(feed))
  OBVIOUS
<1>1. TypeOK'
  <2>1. deck' \in Seq(Cards) /\ chain' \in Seq(Cards)
    BY BatchIs DEF DeckInv, TypeOK, Relinked
  <2>2. queries' \in Nat /\ landed' \in Nat
    BY DEF DeckInv, TypeOK
  <2> QED BY <2>1, <2>2 DEF DeckInv, TypeOK, Hud!Phases
<1>2. ProfileFirst'
  BY DEF DeckInv, TypeOK, ProfileFirst
<1>3. CardsDistinct'
  BY BatchIs DEF CardsDistinct
<1>4. OwnCardHidden'
  <2> SUFFICES ASSUME session # Nobody, ~relogged, NEW k \in DOMAIN deck'
               PROVE  deck'[k].who # session
    BY DEF OwnCardHidden
  <2>1. \/ \E j \in DOMAIN deck : deck'[k].who = deck[j].who
        \/ \E j \in DOMAIN feed : deck'[k].who = feed[j]
    BY BatchIs
  <2> QED BY <2>1 DEF DeckInv, OwnCardHidden, NotCurrentUser
<1>5. ASSUME ~overlapped' PROVE OneRequest' /\ DeckFollows'
  <2>1. /\ queries = 1 /\ deck = <<>> /\ chain = <<>>
        /\ \A v \in Users : profileGets[v] = 0 /\ swipeGets[v] = 0
    BY <1>5 DEF DeckInv, TypeOK, OneRequest, DeckFollows
  <2>2. Batch(feed) \in Seq(Cards)
    BY BatchIs
  <2>3. deck' = chain'
    BY <2>1, <2>2 DEF Relinked
  <2>4. queries' = 0 /\ UNCHANGED <<profileGets, swipeGets>>
    BY <2>1
  <2>5. \A v \in Users : profileGets'[v] = 0 /\ swipeGets'[v] = 0
    BY <2>1, <2>4
  <2> HIDE DEF QueryReturns
  <2>6. OneRequest'
    BY <2>4, <2>5 DEF OneRequest
  <2>7. DeckFollows'
    <3>1. queries' # 1 /\ \A v \in Users : profileGets'[v] # 1 /\ swipeGets'[v] # 1
      BY <2>4, <2>5
    <3> QED BY <2>3, <3>1, Zenon DEF DeckFollows
  <2> QED BY <2>6, <2>7
<1> QED BY <1>1, <1>2, <1>3, <1>4, <1>5 DEF DeckInv

LEMMA QueryFailsKeeps == ASSUME DeckInv, QueryFails PROVE DeckInv'
<1> USE DEF QueryFails, counters, history, Hud!Dismiss
<1>1. TypeOK'
  <2>1. queries' \in Nat
    BY DEF DeckInv, TypeOK
  <2> QED BY <2>1 DEF DeckInv, TypeOK, Hud!Phases
<1>2. ProfileFirst' /\ CardsDistinct' /\ OwnCardHidden'
  BY DEF DeckInv, TypeOK, ProfileFirst, CardsDistinct, OwnCardHidden, Distinct
<1>3. ASSUME ~overlapped' PROVE OneRequest' /\ DeckFollows'
  <2>1. /\ queries = 1 /\ deck = <<>> /\ chain = <<>>
        /\ \A v \in Users : profileGets[v] = 0 /\ swipeGets[v] = 0
    BY <1>3 DEF DeckInv, TypeOK, OneRequest, DeckFollows
  <2> QED BY <2>1 DEF OneRequest, DeckFollows
<1> QED BY <1>1, <1>2, <1>3 DEF DeckInv

LEMMA RefreshKeeps == ASSUME DeckInv, Refresh PROVE DeckInv'
<1> USE DEF Refresh, StartQuery, Touchable
<1>1. TypeOK'
  <2>1. deck' \in Seq(Cards) /\ chain' \in Seq(Cards)
    OBVIOUS
  <2>2. fetches' \in 0..MaxFetches /\ queries' \in Nat
    BY MaxFetchesAssumption DEF DeckInv, TypeOK
  <2>3. overlapped' \in BOOLEAN /\ relogged' \in BOOLEAN
    BY DEF InFlight
  <2> QED BY <2>1, <2>2, <2>3 DEF DeckInv, TypeOK
<1>2. user # Nobody
  BY DEF DeckInv, ProfileFirst
<1>3. ProfileFirst' /\ CardsDistinct' /\ OwnCardHidden'
  BY <1>2 DEF DeckInv, ProfileFirst, CardsDistinct, OwnCardHidden, Distinct
<1>4. ASSUME ~overlapped' PROVE OneRequest' /\ DeckFollows'
  <2>1. queries = 0 /\ \A v \in Users : profileGets[v] = 0 /\ swipeGets[v] = 0
    BY <1>4 DEF InFlight, DeckInv, TypeOK
  <2> QED BY <2>1 DEF OneRequest, DeckFollows
<1> QED BY <1>1, <1>3, <1>4 DEF DeckInv

LEMMA SwipeKeeps == ASSUME DeckInv, Swipe PROVE DeckInv'
<1> USE DEF Swipe, Touchable, requests, counters
<1>1. deck \in Seq(Cards) /\ chain \in Seq(Cards) /\ chain # <<>>
  BY DEF DeckInv, TypeOK
<1>2. /\ deck' \in Seq(Cards)
      /\ \A k \in DOMAIN deck' : \E j \in DOMAIN deck : deck'[k] = deck[j]
      /\ Distinct(deck) => Distinct(deck')
  BY <1>1, RemoveCardIs
<1>3. TypeOK'
  <2>1. chain' \in Seq(Cards)
    BY <1>1
  <2>2. last' \in [seen : Sessions, saved : Sessions]
    <3>1. Head(chain).who \in Sessions
      <4>1. Head(chain) \in Cards
        BY <1>1
      <4> QED BY <4>1 DEF Cards, Sessions
    <3>2. deck # <<>> => Head(deck).who \in Sessions
      <4>1. deck # <<>> => Head(deck) \in Cards
        BY <1>1
      <4> QED BY <4>1 DEF Cards, Sessions
    <3> QED BY <3>1, <3>2 DEF Sessions
  <2>3. hasSwipes' \subseteq Users
    BY DEF DeckInv, TypeOK, Sessions
  <2> QED BY <1>2, <2>1, <2>2, <2>3 DEF DeckInv, TypeOK
<1>4. ProfileFirst'
  BY DEF DeckInv, ProfileFirst
<1>5. CardsDistinct'
  <2>1. Distinct(deck')
    BY <1>2 DEF DeckInv, CardsDistinct
  <2>2. \A k \in DOMAIN deck' : deck'[k].query <= landed'
    BY <1>2 DEF DeckInv, CardsDistinct
  <2> QED BY <2>1, <2>2 DEF CardsDistinct
<1>6. OwnCardHidden'
  BY <1>2 DEF DeckInv, OwnCardHidden
<1>7. ASSUME ~overlapped' PROVE OneRequest' /\ DeckFollows'
  <2>1. /\ chain = deck /\ queries = 0
        /\ \A v \in Users : profileGets[v] = 0 /\ swipeGets[v] = 0
    BY <1>1, <1>7 DEF DeckInv, TypeOK, OneRequest, DeckFollows
  <2>2. deck' = chain'
    BY <1>1, <2>1, RemoveHead DEF DeckInv, CardsDistinct
  <2> QED BY <2>1, <2>2 DEF OneRequest, DeckFollows
<1> QED BY <1>3, <1>4, <1>5, <1>6, <1>7 DEF DeckInv

LEMMA SettingsKeep ==
    ASSUME DeckInv, OpenSettings \/ CancelSettings \/ Logout PROVE DeckInv'
<1> USE DEF OpenSettings, CancelSettings, Logout, MayLeaveSave, Touchable, requests, counters, history
<1>1. TypeOK'
  BY DEF DeckInv, TypeOK, Sessions
<1> QED BY <1>1, DeckKept

LEMMA LoginKeeps == ASSUME DeckInv, NEW u \in Users, Login(u) PROVE DeckInv'
<1> USE DEF Login, requests, counters
<1>1. TypeOK'
  BY DEF DeckInv, TypeOK, Sessions
<1> QED BY <1>1, DeckKept

LEMMA CreateAccountKeeps == ASSUME DeckInv, NEW u \in Users, CreateAccount(u) PROVE DeckInv'
<1> USE DEF CreateAccount, requests, counters
<1>1. TypeOK'
  BY DEF DeckInv, TypeOK, Sessions
<1> QED BY <1>1, DeckKept

\* A fetch keeps the types.
LEMMA FetchTyped ==
    ASSUME DeckInv, NEW s \in Sessions, FetchCurrentUser(s), session' = s,
           modal' \in {modal, "none"}, late' \in BOOLEAN,
           UNCHANGED <<user, chain, swipeGets, queries, landed, hasSwipes, last>>
    PROVE  TypeOK'
<1>1. CASE s = Nobody
  BY <1>1 DEF FetchCurrentUser, DeckInv, TypeOK, Hud!Show, Hud!Phases
<1>2. CASE s # Nobody
  <2>1. s \in Users
    BY <1>2 DEF Sessions
  <2>2. deck' \in Seq(Cards)
    BY <1>2 DEF FetchCurrentUser
  <2>3. profileGets' \in [Users -> Nat] /\ fetches' \in 0..MaxFetches
    BY <1>2, <2>1, MaxFetchesAssumption DEF FetchCurrentUser, DeckInv, TypeOK
  <2>4. overlapped' \in BOOLEAN /\ relogged' \in BOOLEAN /\ hud' \in Hud!Phases
    BY <1>2 DEF FetchCurrentUser, InFlight, Hud!Show, Hud!Phases, DeckInv, TypeOK
  <2> QED BY <2>2, <2>3, <2>4 DEF DeckInv, TypeOK
<1> QED BY <1>1, <1>2

\* A fetch keeps the invariant, when nobody is signed in too: it then covers the
\* screen and does no more.
LEMMA FetchKeeps ==
    ASSUME DeckInv, FetchCurrentUser(session), modal' \in {modal, "none"}, late' \in BOOLEAN,
           UNCHANGED <<session, user, chain, swipeGets, queries, landed, hasSwipes, last>>
    PROVE  DeckInv'
<1>0. session \in Sessions
  BY DEF DeckInv, TypeOK
<1>1. TypeOK'
  BY <1>0, FetchTyped
<1>2. CASE session \in Users
  BY <1>1, <1>2, DeckFetched
<1>3. CASE session = Nobody
  <2>1. /\ hud' = (IF hud = "down" THEN "up" ELSE hud)
        /\ UNCHANGED <<deck, profileGets, fetches, overlapped, relogged>>
    BY <1>3 DEF FetchCurrentUser, Hud!Show
  <2>2. ProfileFirst' /\ CardsDistinct' /\ OwnCardHidden'
    BY <1>3, <2>1 DEF DeckInv, TypeOK, Hud!Phases, ProfileFirst, CardsDistinct, OwnCardHidden, Distinct
  <2>3. ASSUME ~overlapped' PROVE OneRequest' /\ DeckFollows'
    BY <2>1, <2>3 DEF DeckInv, OneRequest, DeckFollows
  <2> QED BY <1>1, <2>2, <2>3 DEF DeckInv
<1> QED BY <1>0, <1>2, <1>3 DEF Sessions

LEMMA FetchingTouchesKeep ==
    ASSUME DeckInv, SaveSettings \/ Register \/ LateCallback PROVE DeckInv'
<1>1. late' \in BOOLEAN
  BY DEF SaveSettings, Register, LateCallback, MayLeaveSave, DeckInv, TypeOK
<1> QED BY <1>1, FetchKeeps DEF SaveSettings, Register, LateCallback

LEMMA HudGoneKeeps == ASSUME DeckInv, HudGone PROVE DeckInv'
<1>1. /\ hud = "going" /\ hud' = "down"
      /\ UNCHANGED <<session, modal, user, deck, chain, requests, counters, late,
                     hasSwipes, history>>
  BY DEF HudGone, Hud!Gone
<1> USE <1>1 DEF requests, counters, history
<1>2. TypeOK'
  BY DEF DeckInv, TypeOK, Hud!Phases
<1>3. ProfileFirst' /\ CardsDistinct' /\ OwnCardHidden'
  BY DEF DeckInv, ProfileFirst, CardsDistinct, OwnCardHidden, Distinct
<1>4. ASSUME ~overlapped' PROVE OneRequest' /\ DeckFollows'
  BY <1>4 DEF DeckInv, OneRequest, DeckFollows
<1> QED BY <1>2, <1>3, <1>4 DEF DeckInv

LEMMA DeckNext == DeckInv /\ [Next]_vars => DeckInv'
<1> SUFFICES ASSUME DeckInv, [Next]_vars PROVE DeckInv'
  OBVIOUS
<1>1. CASE Launch
  BY <1>1, LaunchKeeps
<1>2. CASE Callback
  BY <1>2, ProfileArrivesKeeps, ProfileFailsKeeps, SwipesAnsweredKeeps,
     QueryReturnsKeeps, QueryFailsKeeps, FetchingTouchesKeep, HudGoneKeeps DEF Callback
<1>3. CASE Touch
  BY <1>3, RefreshKeeps, SwipeKeeps, SettingsKeep, LoginKeeps, CreateAccountKeeps,
     FetchingTouchesKeep DEF Touch
<1>4. CASE UNCHANGED vars
  <2> USE <1>4 DEF vars
  <2>1. TypeOK'
    BY DEF DeckInv, TypeOK
  <2>2. ProfileFirst' /\ CardsDistinct' /\ OwnCardHidden'
    BY DEF DeckInv, ProfileFirst, CardsDistinct, OwnCardHidden, Distinct
  <2>3. ASSUME ~overlapped' PROVE OneRequest' /\ DeckFollows'
    BY <2>3 DEF DeckInv, OneRequest, DeckFollows
  <2> QED BY <2>1, <2>2, <2>3 DEF DeckInv
<1> QED BY <1>1, <1>2, <1>3, <1>4 DEF Next

-----------------------------------------------------------------------------
(* The theorems                                                            *)

LEMMA DeckInvariant == Spec => []DeckInv
BY DeckInit, DeckNext, PTL DEF Spec

\* Every variable of the home screen keeps its type, through every order of
\* callbacks, touches and launches (HomeController.swift 16-30, 84-193).
THEOREM TypeCorrect == Spec => []TypeOK
<1>1. DeckInv => TypeOK
  BY DEF DeckInv
<1> QED BY <1>1, DeckInvariant, PTL

\* The deck is never touched before a profile was fetched, although only the
\* HUD holds the user back (HomeController.swift 84-105, 156, 289-295).
THEOREM NoTouchWithoutProfile == Spec => []ProfileBeforeTouch
<1>1. DeckInv => ProfileBeforeTouch
  BY DEF DeckInv, ProfileFirst, ProfileBeforeTouch, Touchable
<1> QED BY <1>1, DeckInvariant, PTL

\* While fetches do not overlap, the linked list runs through the deck whenever
\* the deck can be touched (HomeController.swift 153, 162, 178-184, 299-325).
THEOREM DeckLinked == Spec => []DeckIsLinked
<1>1. DeckInv => DeckIsLinked
  BY DEF DeckInv, DeckFollows, DeckIsLinked, AllCardsLinked, Touchable
<1> QED BY <1>1, DeckInvariant, PTL

\* Nobody who did not log in since meets their own card
\* (HomeController.swift 173-177).
THEOREM NotMyOwnCard == Spec => []OwnCardHidden
<1>1. DeckInv => OwnCardHidden
  BY DEF DeckInv
<1> QED BY <1>1, DeckInvariant, PTL

-----------------------------------------------------------------------------
(* The HUD is up over work                                                 *)

\* Without failures, the HUD is up over an account that has swiped, and has not
\* signed in since the last fetch began, only while that fetch goes on.
UpMeansAtWork ==
    (~MayFail /\ hud = "up" /\ session \in hasSwipes /\ ~relogged) =>
        profileGets[session] > 0 \/ swipeGets[session] > 0 \/ queries > 0

\* A fetch that shows the HUD puts its first request in flight.
LEMMA FetchWorks ==
    ASSUME TypeOK, FetchCurrentUser(session),
           UNCHANGED <<session, swipeGets, queries, hasSwipes>>, UpMeansAtWork
    PROVE  UpMeansAtWork'
<1>1. CASE session = Nobody
  BY <1>1, NobodyAssumption DEF TypeOK, UpMeansAtWork
<1>2. CASE session # Nobody
  <2>1. session \in Users /\ profileGets \in [Users -> Nat]
    BY <1>2 DEF TypeOK, Sessions
  <2>2. profileGets' = [profileGets EXCEPT ![session] = @ + 1]
    BY <1>2 DEF FetchCurrentUser
  <2>3. profileGets'[session] > 0
    BY <2>1, <2>2
  <2> QED BY <2>3 DEF UpMeansAtWork
<1> QED BY <1>1, <1>2

\* An answer begins the next request before it ends its own.
LEMMA AnswersWork ==
    ASSUME TypeOK, UpMeansAtWork, NEW u \in Users,
           ProfileArrives(u) \/ ProfileFails(u) \/ SwipesArrive(u) \/ SwipesFail(u)
    PROVE  UpMeansAtWork'
<1> SUFFICES ASSUME ~MayFail, hud' = "up", session' \in hasSwipes', ~relogged'
             PROVE  profileGets'[session] > 0 \/ swipeGets'[session] > 0 \/ queries' > 0
  BY DEF UpMeansAtWork, ProfileArrives, ProfileFails, SwipesArrive, SwipesFail
<1>1. CASE ProfileArrives(u)
  <2>1. /\ UNCHANGED <<session, hud, hasSwipes, relogged>>
        /\ swipeGets' = IF session = Nobody THEN swipeGets
                        ELSE [swipeGets EXCEPT ![session] = @ + 1]
    BY <1>1 DEF ProfileArrives, history
  <2>2. session \in Users /\ swipeGets \in [Users -> Nat]
    BY <2>1 DEF TypeOK
  <2>3. swipeGets'[session] = swipeGets[session] + 1
    BY <2>1, <2>2, NobodyAssumption
  <2> QED BY <2>2, <2>3
<1>2. CASE SwipesArrive(u)
  <2>1. /\ UNCHANGED <<session, hud, hasSwipes, relogged, profileGets>>
        /\ swipeGets' = [swipeGets EXCEPT ![u] = @ - 1]
    BY <1>2 DEF SwipesArrive, history
  <2>2. session \in Users /\ swipeGets \in [Users -> Nat] /\ queries \in Nat
    BY <2>1 DEF TypeOK
  <2>3. CASE u \in hasSwipes
    BY <1>2, <2>2, <2>3 DEF SwipesArrive, StartQuery
  <2>4. CASE u \notin hasSwipes
    <3>1. u # session /\ queries' = queries
      BY <1>2, <2>1, <2>4 DEF SwipesArrive
    <3>2. swipeGets'[session] = swipeGets[session]
      BY <2>1, <2>2, <3>1
    <3> QED BY <2>1, <3>1, <3>2 DEF UpMeansAtWork
  <2> QED BY <2>3, <2>4
<1> QED BY <1>1, <1>2 DEF ProfileFails, SwipesFail

LEMMA WorkGoesOn == DeckInv /\ UpMeansAtWork /\ [Next]_vars => UpMeansAtWork'
<1> SUFFICES ASSUME DeckInv, UpMeansAtWork, [Next]_vars PROVE UpMeansAtWork'
  OBVIOUS
<1>0. TypeOK
  BY DEF DeckInv
<1>1. CASE Launch
  <2> SUFFICES ASSUME session \in hasSwipes
               PROVE  profileGets'[session] > 0
    BY <1>1 DEF Launch, UpMeansAtWork
  <2> QED BY <1>0, <1>1 DEF Launch, TypeOK
<1>2. CASE QueryReturns \/ QueryFails \/ HudGone
  BY <1>2 DEF QueryReturns, QueryFails, HudGone, Hud!Dismiss, Hud!Gone, UpMeansAtWork
<1>3. CASE SaveSettings \/ Register \/ LateCallback
  BY <1>0, <1>3, FetchWorks DEF SaveSettings, Register, LateCallback
<1>4. CASE Refresh \/ Swipe
  BY <1>4 DEF Refresh, Swipe, Touchable, UpMeansAtWork
<1>5. CASE OpenSettings \/ CancelSettings
  BY <1>5 DEF OpenSettings, CancelSettings, requests, history, UpMeansAtWork
<1>6. CASE Logout
  BY <1>0, <1>6, NobodyAssumption DEF Logout, TypeOK, UpMeansAtWork
<1>7. ASSUME NEW u \in Users, Login(u) \/ CreateAccount(u)
      PROVE  UpMeansAtWork'
  BY <1>7 DEF Login, CreateAccount, UpMeansAtWork
<1>8. CASE UNCHANGED vars
  BY <1>8 DEF vars, UpMeansAtWork
<1> QED BY <1>0, <1>1, <1>2, <1>3, <1>4, <1>5, <1>6, <1>7, <1>8, AnswersWork
        DEF Next, Callback, Touch

\* What keeps FetchEnds from being stuck: whatever refreshes, late callbacks,
\* logouts and launches come between, the HUD is never up with nothing under way
\* that would take it down (HomeController.swift 84-156).
THEOREM HudUpMeansAtWork == Spec => []UpMeansAtWork
<1>1. Init => UpMeansAtWork
  BY DEF Init, Hud!Init, UpMeansAtWork
<1> QED BY <1>1, WorkGoesOn, DeckInvariant, PTL DEF Spec
=============================================================================
