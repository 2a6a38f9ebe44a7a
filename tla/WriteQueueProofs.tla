-------------------------- MODULE WriteQueueProofs --------------------------
(***************************************************************************)
(* What WriteQueue promises of a write, whatever the numbers of accounts   *)
(* and writes.  WritePipelineProofs takes the theorems over to the SDK.    *)
(***************************************************************************)
EXTENDS WriteQueue, SequenceTheorems, TLAPS

-----------------------------------------------------------------------------
(* The promises                                                            *)

Waits(w) == \E u \in Users : \E i \in DOMAIN waiting[u] : waiting[u][i] = w

\* Every write that was made is applied, refused, or still waits: none is lost.
NothingLost == \A w \in 1..made : w \in applied \/ w \in bad \/ Waits(w)

\* A callback that heard "ok" belongs to a write the database holds; a write it
\* refused never gets there, and its callback never hears "ok".
HeardIsTrue ==
    /\ \A w \in Writes : told[w] = "ok" => w \in applied
    /\ \A w \in Writes : told[w] = "error" => w \in bad \/ w \in applied
    /\ \A w \in applied : w \notin bad

\* The database takes the writes of an account in the order they were made.
AppliedInOrder ==
    \A u \in Users : \A i, j \in DOMAIN waiting[u] :
        i < j /\ waiting[u][j] \in applied => waiting[u][i] \in applied

\* An answer stands.
AnswerStands == \A w \in Writes : told[w] # "none" => told'[w] = told[w]

\* A write that stops waiting is settled.
OnlySettledLeave ==
    \A w \in 1..made : Waits(w) => Waits(w)' \/ w \in applied \/ w \in bad

-----------------------------------------------------------------------------
(* The invariant                                                           *)

\* The queues hold writes that were made, in their order, each in one queue.
QueuesOK ==
    /\ waiting \in [Users -> Seq(Nat)]
    /\ made \in Nat
    /\ told \in [Writes -> Answers]
    /\ \A u \in Users : \A i \in DOMAIN waiting[u] : waiting[u][i] \in 1..made
    /\ \A u \in Users : \A i, j \in DOMAIN waiting[u] :
          i < j => waiting[u][i] < waiting[u][j]
    /\ \A u, v \in Users : u # v =>
          \A i \in DOMAIN waiting[u], j \in DOMAIN waiting[v] :
              waiting[u][i] # waiting[v][j]

\* Only what was made is applied, refused or answered; of the writes that wait
\* the first alone may have been answered, by an app that then died.
Unheard ==
    /\ applied \subseteq 1..made /\ bad \subseteq 1..made
    /\ \A w \in Writes : told[w] # "none" => w \in 1..made
    /\ \A u \in Users : \A i \in DOMAIN waiting[u] :
          waiting[u][i] \in Writes /\ told[waiting[u][i]] # "none" => i = 1

Inv == QueuesOK /\ Unheard /\ NothingLost /\ HeardIsTrue /\ AppliedInOrder

LEMMA WaitingFacts ==
    ASSUME QueuesOK, NEW u \in Users
    PROVE  /\ waiting[u] \in Seq(Nat)
           /\ Len(waiting[u]) \in Nat /\ DOMAIN waiting[u] = 1..Len(waiting[u])
           /\ waiting[u] # << >> => /\ 1 \in DOMAIN waiting[u]
                                    /\ Head(waiting[u]) = waiting[u][1]
                                    /\ waiting[u][1] \in 1..made
<1>1. waiting[u] \in Seq(Nat)
  BY DEF QueuesOK
<1>2. Len(waiting[u]) \in Nat /\ DOMAIN waiting[u] = 1..Len(waiting[u])
  BY <1>1, LenProperties
<1>3. waiting[u] # << >> => Len(waiting[u]) # 0
  BY <1>1, EmptySeq
<1>4. waiting[u] # << >> => 1 \in DOMAIN waiting[u]
  BY <1>2, <1>3
<1>5. \A i \in DOMAIN waiting[u] : waiting[u][i] \in 1..made
  BY DEF QueuesOK
<1> QED BY <1>1, <1>2, <1>4, <1>5

\* A queue after Make ...
LEMMA MakeFacts ==
    ASSUME QueuesOK, NEW u \in Users,
           waiting' = [waiting EXCEPT ![u] = Append(@, made + 1)]
    PROVE  /\ waiting' \in [Users -> Seq(Nat)]
           /\ \A v \in Users : v # u => waiting'[v] = waiting[v]
           /\ DOMAIN waiting'[u] = 1..(Len(waiting[u]) + 1)
           /\ \A i \in 1..Len(waiting[u]) : waiting'[u][i] = waiting[u][i]
           /\ waiting'[u][Len(waiting[u]) + 1] = made + 1
<1> DEFINE q == waiting[u]
<1>1. q \in Seq(Nat) /\ made + 1 \in Nat /\ waiting \in [Users -> Seq(Nat)]
  BY DEF QueuesOK
<1>2. /\ Append(q, made + 1) \in Seq(Nat)
      /\ Len(Append(q, made + 1)) = Len(q) + 1
      /\ \A i \in 1..Len(q) : Append(q, made + 1)[i] = q[i]
      /\ Append(q, made + 1)[Len(q) + 1] = made + 1
  BY <1>1, AppendProperties
<1>3. DOMAIN Append(q, made + 1) = 1..(Len(q) + 1)
  BY <1>2, LenProperties
<1>4. waiting'[u] = Append(q, made + 1) /\ \A v \in Users : v # u => waiting'[v] = waiting[v]
  BY <1>1
<1>5. waiting' \in [Users -> Seq(Nat)]
  BY <1>1, <1>2
<1> QED BY <1>2, <1>3, <1>4, <1>5

\* ... and after Leave.
LEMMA LeaveFacts ==
    ASSUME QueuesOK, NEW u \in Users, waiting[u] # << >>,
           waiting' = [waiting EXCEPT ![u] = Tail(@)]
    PROVE  /\ waiting' \in [Users -> Seq(Nat)]
           /\ \A v \in Users : v # u => waiting'[v] = waiting[v]
           /\ DOMAIN waiting'[u] = 1..(Len(waiting[u]) - 1)
           /\ \A i \in 1..(Len(waiting[u]) - 1) :
                 waiting'[u][i] = waiting[u][i + 1]
<1> DEFINE q == waiting[u]
<1>1. q \in Seq(Nat) /\ waiting \in [Users -> Seq(Nat)]
  BY DEF QueuesOK
<1>2. /\ Tail(q) \in Seq(Nat)
      /\ Len(Tail(q)) = Len(q) - 1
      /\ \A i \in 1..Len(Tail(q)) : Tail(q)[i] = q[i + 1]
  BY <1>1, HeadTailProperties
<1>3. DOMAIN Tail(q) = 1..(Len(q) - 1)
  BY <1>2, LenProperties
<1>4. waiting'[u] = Tail(q) /\ \A v \in Users : v # u => waiting'[v] = waiting[v]
  BY <1>1
<1>5. waiting' \in [Users -> Seq(Nat)]
  BY <1>1, <1>2
<1> QED BY <1>2, <1>3, <1>4, <1>5

-----------------------------------------------------------------------------
(* Each step keeps it                                                      *)

LEMMA MakeKeepsInv ==
    ASSUME Inv, NEW u \in Users, Make(u)
    PROVE  Inv' /\ OnlySettledLeave
<1> DEFINE n == Len(waiting[u])
<1>1. /\ made' = made + 1 /\ made \in Nat
      /\ bad' \subseteq bad \cup {made + 1} /\ bad \subseteq bad'
      /\ applied' = applied /\ told' = told
  BY DEF Make, Inv, QueuesOK
<1>2. /\ waiting' \in [Users -> Seq(Nat)]
      /\ \A v \in Users : v # u => waiting'[v] = waiting[v]
      /\ DOMAIN waiting'[u] = 1..(n + 1)
      /\ \A i \in 1..n : waiting'[u][i] = waiting[u][i]
      /\ waiting'[u][n + 1] = made + 1
      /\ n \in Nat /\ DOMAIN waiting[u] = 1..n
  BY MakeFacts, WaitingFacts DEF Inv, Make
<1> HIDE DEF n
<1>3. \A v \in Users : \A i \in DOMAIN waiting'[v] :
         \/ i \in DOMAIN waiting[v] /\ waiting'[v][i] = waiting[v][i]
         \/ v = u /\ i = n + 1 /\ waiting'[v][i] = made + 1
  BY <1>2
<1>4. \A v \in Users : \A i \in DOMAIN waiting[v] :
         i \in DOMAIN waiting'[v] /\ waiting'[v][i] = waiting[v][i]
  BY <1>2
<1>5. QueuesOK'
  <2> USE DEF Inv, QueuesOK
  <2>1. \A v \in Users : \A i \in DOMAIN waiting'[v] : waiting'[v][i] \in 1..made'
    BY <1>1, <1>3
  <2>2. ASSUME NEW v \in Users, NEW i \in DOMAIN waiting'[v], NEW j \in DOMAIN waiting'[v],
               i < j
        PROVE  waiting'[v][i] < waiting'[v][j]
    <3>1. CASE j \in DOMAIN waiting[v] /\ waiting'[v][j] = waiting[v][j]
      <4>1. i \in DOMAIN waiting[v] /\ waiting'[v][i] = waiting[v][i]
        <5>1. DOMAIN waiting[v] = 1..Len(waiting[v]) /\ Len(waiting[v]) \in Nat
          BY WaitingFacts
        <5>2. ~(v = u /\ i = n + 1)
          BY <5>1, <3>1, <2>2, <1>2
        <5> QED BY <5>2, <1>3
      <4> QED BY <4>1, <3>1, <2>2
    <3>2. CASE v = u /\ j = n + 1 /\ waiting'[v][j] = made + 1
      <4>1. i \in DOMAIN waiting[v] /\ waiting'[v][i] = waiting[v][i]
        BY <3>2, <2>2, <1>2
      <4>2. waiting[v][i] \in 1..made
        BY <4>1
      <4> QED BY <4>1, <4>2, <3>2, <1>1
    <3> QED BY <3>1, <3>2, <1>3
  <2>3. ASSUME NEW v \in Users, NEW x \in Users, v # x,
               NEW i \in DOMAIN waiting'[v], NEW j \in DOMAIN waiting'[x]
        PROVE  waiting'[v][i] # waiting'[x][j]
    <3>1. \A y \in Users : \A k \in DOMAIN waiting[y] : waiting[y][k] \in 1..made
      OBVIOUS
    <3>2. \/ i \in DOMAIN waiting[v] /\ waiting'[v][i] = waiting[v][i]
          \/ v = u /\ waiting'[v][i] = made + 1
      BY <1>3
    <3>3. \/ j \in DOMAIN waiting[x] /\ waiting'[x][j] = waiting[x][j]
          \/ x = u /\ waiting'[x][j] = made + 1
      BY <1>3
    <3> QED BY <3>1, <3>2, <3>3, <2>3, <1>1
  <2> QED BY <1>1, <1>2, <2>1, <2>2, <2>3
<1>6. \A w \in 1..made : Waits(w) => Waits(w)'
  BY <1>4 DEF Waits
<1>7. NothingLost'
  <2> SUFFICES ASSUME NEW w \in 1..made'
               PROVE  w \in applied' \/ w \in bad' \/ Waits(w)'
    BY DEF NothingLost
  <2>1. CASE w \in 1..made
    BY <1>1, <1>6, <2>1 DEF Inv, NothingLost
  <2>2. CASE w = made + 1
    <3>1. n + 1 \in DOMAIN waiting'[u] /\ waiting'[u][n + 1] = w
      BY <1>2, <2>2
    <3> QED BY <3>1 DEF Waits
  <2> QED BY <1>1, <2>1, <2>2
<1>8. Unheard'
  <2>1. applied' \subseteq 1..made' /\ bad' \subseteq 1..made'
    BY <1>1 DEF Inv, Unheard
  <2>2. \A w \in Writes : told'[w] # "none" => w \in 1..made /\ w \in 1..made'
    BY <1>1 DEF Inv, Unheard
  <2>3. made + 1 \notin 1..made
    BY <1>1
  <2>4. ASSUME NEW v \in Users, NEW i \in DOMAIN waiting'[v],
               waiting'[v][i] \in Writes, told'[waiting'[v][i]] # "none"
        PROVE  i = 1
    BY <2>2, <2>3, <2>4, <1>1, <1>3 DEF Inv, Unheard
  <2> QED BY <2>1, <2>2, <2>4 DEF Unheard
<1>9. HeardIsTrue'
  <2>1. made + 1 \notin applied
    BY <1>1 DEF Inv, Unheard
  <2> QED BY <1>1, <2>1 DEF Inv, HeardIsTrue
<1>10. AppliedInOrder'
  <2>1. made + 1 \notin applied
    BY <1>1 DEF Inv, Unheard
  <2> SUFFICES ASSUME NEW v \in Users, NEW i \in DOMAIN waiting'[v],
                      NEW j \in DOMAIN waiting'[v], i < j, waiting'[v][j] \in applied
               PROVE  waiting'[v][i] \in applied
    BY <1>1 DEF AppliedInOrder
  <2>2. j \in DOMAIN waiting[v] /\ waiting'[v][j] = waiting[v][j]
    BY <2>1, <1>3
  <2>3. i \in DOMAIN waiting[v] /\ waiting'[v][i] = waiting[v][i]
    <3>1. DOMAIN waiting[v] = 1..Len(waiting[v]) /\ Len(waiting[v]) \in Nat
      BY WaitingFacts DEF Inv
    <3>2. ~(v = u /\ i = n + 1)
      BY <3>1, <2>2, <1>2
    <3> QED BY <3>2, <1>3
  <2> QED BY <2>2, <2>3 DEF Inv, AppliedInOrder
<1> QED BY <1>5, <1>6, <1>7, <1>8, <1>9, <1>10 DEF Inv, OnlySettledLeave

LEMMA ApplyKeepsInv ==
    ASSUME Inv, NEW u \in Users, Apply(u)
    PROVE  Inv' /\ OnlySettledLeave
<1>1. UNCHANGED <<waiting, made, bad, told>>
  BY DEF Apply
<1>2. PICK k \in DOMAIN waiting[u] :
         /\ waiting[u][k] \notin bad
         /\ \A j \in 1..(k - 1) : waiting[u][j] \in applied
         /\ applied' = applied \cup {waiting[u][k]}
  BY DEF Apply
<1>3. QueuesOK'
  BY <1>1 DEF Inv, QueuesOK
<1>4. Unheard'
  BY <1>1, <1>2 DEF Inv, QueuesOK, Unheard
<1>5. NothingLost' /\ OnlySettledLeave
  BY <1>1, <1>2 DEF Inv, NothingLost, OnlySettledLeave, Waits
<1>6. HeardIsTrue'
  BY <1>1, <1>2 DEF Inv, HeardIsTrue
<1>7. AppliedInOrder'
  <2> SUFFICES ASSUME NEW v \in Users, NEW i \in DOMAIN waiting[v],
                      NEW j \in DOMAIN waiting[v], i < j, waiting[v][j] \in applied'
               PROVE  waiting[v][i] \in applied'
    BY <1>1 DEF AppliedInOrder
  <2>1. CASE waiting[v][j] \in applied
    BY <2>1, <1>2 DEF Inv, AppliedInOrder
  <2>2. CASE waiting[v][j] = waiting[u][k]
    <3>1. v = u
      BY <2>2 DEF Inv, QueuesOK
    <3>2. /\ DOMAIN waiting[u] = 1..Len(waiting[u]) /\ Len(waiting[u]) \in Nat
          /\ \A x, y \in DOMAIN waiting[u] : x < y => waiting[u][x] < waiting[u][y]
          /\ \A x \in DOMAIN waiting[u] : waiting[u][x] \in Nat
      <4>1. DOMAIN waiting[u] = 1..Len(waiting[u]) /\ Len(waiting[u]) \in Nat
        BY WaitingFacts DEF Inv
      <4>2. /\ \A x, y \in DOMAIN waiting[u] : x < y => waiting[u][x] < waiting[u][y]
            /\ \A x \in DOMAIN waiting[u] : waiting[u][x] \in 1..made
            /\ made \in Nat
        BY DEF Inv, QueuesOK
      <4> QED BY <4>1, <4>2
    <3>3. j = k
      BY <3>1, <3>2, <2>2
    <3>4. i \in 1..(k - 1)
      BY <3>1, <3>2, <3>3
    <3> QED BY <3>1, <3>4, <1>2
  <2> QED BY <2>1, <2>2, <1>2
<1> QED BY <1>3, <1>4, <1>5, <1>6, <1>7 DEF Inv

LEMMA LeaveKeepsInv ==
    ASSUME Inv, NEW u \in Users, NEW answer \in {"ok", "error"},
           waiting[u] # << >>, Leave(u, answer),
           \/ answer = "ok" /\ Head(waiting[u]) \in applied
           \/ answer = "error" /\ Head(waiting[u]) \in bad \cup applied
    PROVE  Inv' /\ OnlySettledLeave /\ AnswerStands
<1> DEFINE n == Len(waiting[u])
           h == waiting[u][1]
<1>1. UNCHANGED <<made, bad, applied>> /\ made \in Nat
  BY DEF Leave, Inv, QueuesOK
<1>2. /\ 1 \in DOMAIN waiting[u] /\ Head(waiting[u]) = h /\ h \in 1..made
      /\ n \in Nat /\ DOMAIN waiting[u] = 1..n
  BY WaitingFacts DEF Inv
<1>3. /\ waiting' \in [Users -> Seq(Nat)]
      /\ \A v \in Users : v # u => waiting'[v] = waiting[v]
      /\ DOMAIN waiting'[u] = 1..(n - 1)
      /\ \A i \in 1..(n - 1) : waiting'[u][i] = waiting[u][i + 1]
  BY LeaveFacts DEF Inv, Leave
<1>4. /\ told' = told \/ (told[h] = "none" /\ told' = [told EXCEPT ![h] = answer])
      /\ h \in bad \/ h \in applied
      /\ answer = "ok" => h \in applied
  BY <1>2 DEF Leave
<1>5. told' \in [Writes -> Answers] /\ \A w \in Writes : w # h => told'[w] = told[w]
  <2>1. told \in [Writes -> Answers] /\ answer \in Answers
    BY DEF Inv, QueuesOK, Answers
  <2> QED BY <2>1, <1>4
<1>6. \A w \in Writes : told'[w] = told[w] \/ (w = h /\ told[w] = "none" /\ told'[w] = answer)
  <2>1. told \in [Writes -> Answers]
    BY DEF Inv, QueuesOK
  <2> QED BY <2>1, <1>4
<1> HIDE DEF n, h
\* Where an element of the new queues was.
<1>7. ASSUME NEW v \in Users, NEW i \in DOMAIN waiting'[v]
      PROVE  /\ v = u => /\ i \in Nat /\ i + 1 \in DOMAIN waiting[v]
                         /\ waiting'[v][i] = waiting[v][i + 1]
             /\ v # u => i \in DOMAIN waiting[v] /\ waiting'[v][i] = waiting[v][i]
  <2>1. CASE v = u
    <3>1. i \in 1..(n - 1)
      BY <1>3, <2>1
    <3>2. i \in Nat /\ i + 1 \in 1..n
      BY <1>2, <3>1
    <3> QED BY <1>2, <1>3, <2>1, <3>1, <3>2
  <2>2. CASE v # u
    BY <1>3, <2>2
  <2> QED BY <2>1, <2>2
<1>8. QueuesOK'
  <2> USE DEF Inv, QueuesOK
  <2>1. \A v \in Users : \A i \in DOMAIN waiting'[v] : waiting'[v][i] \in 1..made'
    BY <1>1, <1>7
  <2>2. ASSUME NEW v \in Users, NEW i \in DOMAIN waiting'[v], NEW j \in DOMAIN waiting'[v],
               i < j
        PROVE  waiting'[v][i] < waiting'[v][j]
    <3>1. CASE v = u
      <4>1. /\ i + 1 \in DOMAIN waiting[v] /\ waiting'[v][i] = waiting[v][i + 1]
            /\ j + 1 \in DOMAIN waiting[v] /\ waiting'[v][j] = waiting[v][j + 1]
            /\ i \in Nat /\ j \in Nat
        BY <3>1, <1>7
      <4> QED BY <4>1, <2>2
    <3>2. CASE v # u
      BY <3>2, <2>2, <1>7
    <3> QED BY <3>1, <3>2
  <2>3. ASSUME NEW v \in Users, NEW x \in Users, v # x,
               NEW i \in DOMAIN waiting'[v], NEW j \in DOMAIN waiting'[x]
        PROVE  waiting'[v][i] # waiting'[x][j]
    <3>1. PICK k \in DOMAIN waiting[v] : waiting'[v][i] = waiting[v][k]
      BY <1>7
    <3>2. PICK l \in DOMAIN waiting[x] : waiting'[x][j] = waiting[x][l]
      BY <1>7
    <3> QED BY <3>1, <3>2, <2>3
  <2> QED BY <1>1, <1>3, <1>5, <2>1, <2>2, <2>3
<1>9. \A w \in 1..made : Waits(w) => Waits(w)' \/ w = h
  <2> SUFFICES ASSUME NEW w \in 1..made, NEW v \in Users, NEW i \in DOMAIN waiting[v],
                      waiting[v][i] = w, w # h
               PROVE  \E x \in Users : \E j \in DOMAIN waiting'[x] : waiting'[x][j] = w
    BY DEF Waits
  <2>1. CASE v = u
    <3>1. i # 1 /\ i \in 1..n
      BY <2>1, <1>2 DEF h
    <3>2. i - 1 \in 1..(n - 1) /\ (i - 1) + 1 = i
      BY <3>1, <1>2
    <3>3. i - 1 \in DOMAIN waiting'[u] /\ waiting'[u][i - 1] = w
      BY <3>2, <2>1, <1>3
    <3> QED BY <3>3
  <2>2. CASE v # u
    BY <2>2, <1>3
  <2> QED BY <2>1, <2>2
<1>10. NothingLost' /\ OnlySettledLeave
  BY <1>1, <1>4, <1>9 DEF Inv, NothingLost, OnlySettledLeave
<1>11. Unheard'
  <2>1. applied' \subseteq 1..made' /\ bad' \subseteq 1..made'
    BY <1>1 DEF Inv, Unheard
  <2>2. \A w \in Writes : told'[w] # "none" => w \in 1..made'
    BY <1>1, <1>2, <1>5 DEF Inv, Unheard
  <2>3. ASSUME NEW v \in Users, NEW i \in DOMAIN waiting'[v],
               waiting'[v][i] \in Writes, told'[waiting'[v][i]] # "none"
        PROVE  i = 1
    <3>1. CASE v = u
      <4>1. /\ i \in Nat /\ i + 1 \in DOMAIN waiting[u] /\ waiting'[v][i] = waiting[u][i + 1]
            /\ i \in 1..(n - 1)
        BY <3>1, <1>3, <1>7
      <4>2. waiting[u][i + 1] # h
        <5>1. \A x, y \in DOMAIN waiting[u] : x < y => waiting[u][x] < waiting[u][y]
          BY DEF Inv, QueuesOK
        <5>2. 1 < i + 1
          BY <4>1, <1>2
        <5>3. h < waiting[u][i + 1]
          BY <5>1, <5>2, <4>1, <1>2 DEF h
        <5> QED BY <5>3, <1>1, <1>2
      <4>3. told'[waiting[u][i + 1]] = told[waiting[u][i + 1]]
        BY <4>1, <4>2, <2>3, <1>5
      <4>4. i + 1 = 1
        BY <4>1, <4>3, <2>3 DEF Inv, Unheard
      <4> QED BY <4>1, <4>4
    <3>2. CASE v # u
      <4>1. i \in DOMAIN waiting[v] /\ waiting'[v][i] = waiting[v][i]
        BY <3>2, <1>7
      <4>2. waiting[v][i] # h
        BY <3>2, <4>1, <1>2 DEF Inv, QueuesOK, h
      <4> QED BY <4>1, <4>2, <2>3, <1>5 DEF Inv, Unheard
    <3> QED BY <3>1, <3>2
  <2> QED BY <2>1, <2>2, <2>3 DEF Unheard
<1>12. HeardIsTrue'
  <2>1. HeardIsTrue
    BY DEF Inv
  <2> QED BY <2>1, <1>1, <1>4, <1>6 DEF HeardIsTrue
<1>13. AppliedInOrder'
  <2> SUFFICES ASSUME NEW v \in Users, NEW i \in DOMAIN waiting'[v],
                      NEW j \in DOMAIN waiting'[v], i < j, waiting'[v][j] \in applied
               PROVE  waiting'[v][i] \in applied
    BY <1>1 DEF AppliedInOrder
  <2>1. CASE v = u
    <3>1. /\ i + 1 \in DOMAIN waiting[v] /\ waiting'[v][i] = waiting[v][i + 1]
          /\ j + 1 \in DOMAIN waiting[v] /\ waiting'[v][j] = waiting[v][j + 1]
          /\ i \in Nat /\ j \in Nat
      BY <2>1, <1>7
    <3>2. i + 1 < j + 1
      BY <3>1
    <3> QED BY <3>1, <3>2 DEF Inv, AppliedInOrder
  <2>2. CASE v # u
    BY <2>2, <1>7 DEF Inv, AppliedInOrder
  <2> QED BY <2>1, <2>2
<1>14. AnswerStands
  BY <1>6 DEF AnswerStands
<1> QED BY <1>8, <1>10, <1>11, <1>12, <1>13, <1>14 DEF Inv

LEMMA HearKeepsInv ==
    ASSUME Inv, NEW u \in Users, HearAndDie(u)
    PROVE  Inv' /\ OnlySettledLeave /\ AnswerStands
<1> DEFINE h == waiting[u][1]
<1>1. UNCHANGED <<waiting, made, bad, applied>>
  BY DEF HearAndDie
<1>2. /\ 1 \in DOMAIN waiting[u] /\ h \in 1..made /\ h \in applied
      /\ told[h] = "none" /\ told' = [told EXCEPT ![h] = "ok"]
  BY WaitingFacts DEF HearAndDie, Inv
<1>3. /\ told' \in [Writes -> Answers]
      /\ \A w \in Writes : told'[w] = told[w] \/ (w = h /\ told[w] = "none" /\ told'[w] = "ok")
  <2>1. told \in [Writes -> Answers] /\ "ok" \in Answers
    BY DEF Inv, QueuesOK, Answers
  <2> HIDE DEF h
  <2> QED BY <1>2, <2>1
<1>4. QueuesOK'
  BY <1>1, <1>3 DEF Inv, QueuesOK
<1>5. NothingLost' /\ OnlySettledLeave /\ AppliedInOrder'
  BY <1>1 DEF Inv, NothingLost, OnlySettledLeave, Waits, AppliedInOrder
<1>6. Unheard'
  <2>1. ASSUME NEW v \in Users, NEW i \in DOMAIN waiting[v], waiting[v][i] = h
        PROVE  i = 1
    <3>1. v = u
      BY <1>2, <2>1 DEF Inv, QueuesOK
    <3>2. /\ DOMAIN waiting[u] = 1..Len(waiting[u]) /\ Len(waiting[u]) \in Nat
      BY WaitingFacts DEF Inv
    <3>3. ~(1 < i)
      <4>1. \A x, y \in DOMAIN waiting[u] : x < y => waiting[u][x] < waiting[u][y]
        BY DEF Inv, QueuesOK
      <4> QED BY <4>1, <3>1, <1>2, <2>1
    <3> QED BY <3>1, <3>2, <3>3
  <2>2. ASSUME NEW v \in Users, NEW i \in DOMAIN waiting[v],
               waiting[v][i] \in Writes, told'[waiting[v][i]] # "none"
        PROVE  i = 1
    <3> HIDE DEF h
    <3>1. told'[waiting[v][i]] = told[waiting[v][i]] \/ waiting[v][i] = h
      BY <1>3, <2>2
    <3>2. CASE told'[waiting[v][i]] = told[waiting[v][i]]
      BY <3>2, <2>2 DEF Inv, Unheard
    <3> QED BY <2>1, <3>1, <3>2
  <2>3. \A w \in Writes : told'[w] # "none" => w \in 1..made
    <3> HIDE DEF h
    <3> QED BY <1>2, <1>3 DEF Inv, Unheard
  <2> QED BY <1>1, <2>2, <2>3 DEF Inv, Unheard
<1>7. HeardIsTrue'
  <2>1. HeardIsTrue
    BY DEF Inv
  <2> HIDE DEF h
  <2> QED BY <2>1, <1>1, <1>2, <1>3 DEF HeardIsTrue
<1>8. AnswerStands
  BY <1>3 DEF AnswerStands
<1> QED BY <1>4, <1>5, <1>6, <1>7, <1>8 DEF Inv

LEMMA NextKeepsInv ==
    ASSUME Inv, [Next]_vars
    PROVE  Inv' /\ (vars' = vars \/ (OnlySettledLeave /\ AnswerStands))
<1>1. ASSUME NEW u \in Users, Make(u)
      PROVE  Inv' /\ OnlySettledLeave /\ AnswerStands
  BY <1>1, MakeKeepsInv DEF Make, AnswerStands
<1>2. ASSUME NEW u \in Users, Apply(u)
      PROVE  Inv' /\ OnlySettledLeave /\ AnswerStands
  BY <1>2, ApplyKeepsInv DEF Apply, AnswerStands
<1>3. ASSUME NEW u \in Users, Acknowledge(u)
      PROVE  Inv' /\ OnlySettledLeave /\ AnswerStands
  BY <1>3, LeaveKeepsInv DEF Acknowledge
<1>4. ASSUME NEW u \in Users, Reject(u)
      PROVE  Inv' /\ OnlySettledLeave /\ AnswerStands
  BY <1>4, LeaveKeepsInv DEF Reject
<1>5. ASSUME NEW u \in Users, HearAndDie(u)
      PROVE  Inv' /\ OnlySettledLeave /\ AnswerStands
  BY <1>5, HearKeepsInv
<1>6. CASE UNCHANGED vars
  BY <1>6 DEF vars, Inv, QueuesOK, Unheard, NothingLost, HeardIsTrue, AppliedInOrder, Waits
<1> QED BY <1>1, <1>2, <1>3, <1>4, <1>5, <1>6 DEF Next

LEMMA InitInv == ASSUME Init PROVE Inv
<1>1. \A u \in Users : waiting[u] = << >> /\ DOMAIN waiting[u] = {}
  <2>1. \A u \in Users : waiting[u] = << >>
    BY DEF Init
  <2>2. DOMAIN << >> = {}
    OBVIOUS
  <2> QED BY <2>1, <2>2, Zenon
<1>2. QueuesOK
  <2>1. waiting \in [Users -> Seq(Nat)] /\ made \in Nat
    BY DEF Init
  <2>2. told \in [Writes -> Answers]
    BY DEF Init, Answers
  <2> QED BY <1>1, <2>1, <2>2 DEF QueuesOK
<1>3. Unheard /\ NothingLost /\ HeardIsTrue /\ AppliedInOrder
  BY <1>1 DEF Init, Unheard, NothingLost, HeardIsTrue, AppliedInOrder
<1> QED BY <1>2, <1>3 DEF Inv

LEMMA Invariant == Spec => []Inv
<1>1. Init => Inv
  BY InitInv
<1>2. Inv /\ [Next]_vars => Inv'
  BY NextKeepsInv
<1> QED BY <1>1, <1>2, PTL DEF Spec

-----------------------------------------------------------------------------
(* Theorems                                                                *)

\* A write that was made is in the database, was refused by it, or is still in
\* the queue of an account: restarts, changes of account and lost answers lose
\* none.
THEOREM WritesAreKept == Spec => []NothingLost
BY Invariant, PTL DEF Inv

\* What a callback hears of its write is the truth about the database.
THEOREM AnswersAreTrue == Spec => []HeardIsTrue
BY Invariant, PTL DEF Inv

\* Of the writes of an account that wait, those the database already has are the
\* first: a later swipe is never there without the ones before it.
THEOREM DatabaseHasPrefix == Spec => []AppliedInOrder
BY Invariant, PTL DEF Inv

\* A callback hears one answer, and a write leaves its queue only when it is
\* applied or refused.
THEOREM AnswersAreFinal == Spec => [][AnswerStands /\ OnlySettledLeave]_vars
<1>1. Inv /\ [Next]_vars => [AnswerStands /\ OnlySettledLeave]_vars
  BY NextKeepsInv
<1> QED BY <1>1, Invariant, PTL DEF Spec
=============================================================================
