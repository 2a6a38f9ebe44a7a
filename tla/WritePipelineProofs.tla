------------------------ MODULE WritePipelineProofs ------------------------
(***************************************************************************)
(* Theorems about WritePipeline for every number of accounts and writes    *)
(* and every size of the pipeline.                                         *)
(***************************************************************************)
EXTENDS WritePipeline, SequenceTheorems, WellFoundedInduction, TLAPS

-----------------------------------------------------------------------------
(* Queues in the order of their ids                                        *)

Ascending(q) == \A i, j \in DOMAIN q : i < j => q[i].id < q[j].id

\* As much of a queue as the pipeline holds.
HeadOf(q) == SubSeq(q, 1, Least(Len(q), PipelineSize))

LEMMA BatchFacts ==
    ASSUME NEW b \in Batches
    PROVE  /\ b.id \in Nat /\ b.id > 0 /\ b.id \in Writes
           /\ b.write \in Nat /\ b.write > 0 /\ b.write \in Writes
BY BoundsAssumption DEF Batches, Writes

LEMMA SeqFacts ==
    ASSUME NEW S, NEW s \in Seq(S)
    PROVE  /\ Len(s) \in Nat
           /\ DOMAIN s = 1..Len(s)
           /\ \A i \in 1..Len(s) : s[i] \in S
           /\ s = << >> <=> Len(s) = 0
BY ElementOfSeq, LenProperties, EmptySeq

LEMMA QueueFacts ==
    ASSUME NEW q \in Seq(Batches)
    PROVE  /\ Len(q) \in Nat
           /\ DOMAIN q = 1..Len(q)
           /\ q = << >> <=> Len(q) = 0
           /\ \A i \in 1..Len(q) :
                 /\ q[i] \in Batches
                 /\ q[i].id \in Nat /\ q[i].id > 0
                 /\ q[i].write \in Nat /\ q[i].write > 0 /\ q[i].write \in Writes
<1>1. /\ Len(q) \in Nat
      /\ DOMAIN q = 1..Len(q)
      /\ q = << >> <=> Len(q) = 0
      /\ \A i \in 1..Len(q) : q[i] \in Batches
  BY SeqFacts
<1> QED BY <1>1, BatchFacts

\* A pipeline that is a head of the queue is refilled to the head that fits.
LEMMA RefillFromHead ==
    ASSUME NEW q \in Seq(Batches), Ascending(q),
           NEW m \in 0..Len(q), m <= PipelineSize
    PROVE  Refilled(q, SubSeq(q, 1, m)) = HeadOf(q)
<1> USE PipelineSizeAssumption
<1> DEFINE pipe == SubSeq(q, 1, m)
           last == IF pipe = << >> THEN 0 ELSE pipe[Len(pipe)].id
           Have(k) == \A i \in DOMAIN q : i > k <=> q[i].id > last
           n == Least(Len(q), PipelineSize)
<1>1. /\ Len(q) \in Nat
      /\ DOMAIN q = 1..Len(q)
      /\ \A i \in 1..Len(q) : q[i].id \in Nat /\ q[i].id > 0
  BY QueueFacts
<1>2. /\ pipe \in Seq(Batches)
      /\ Len(pipe) = m
      /\ \A i \in 1..m : pipe[i] = q[i]
  BY SubSeqProperties
<1>3. m = 0 => last = 0
  BY <1>2, SeqFacts
<1>4. m > 0 => last = q[m].id
  BY <1>2, SeqFacts
<1> HIDE DEF last
<1>5. Have(m)
  <2>1. CASE m = 0
    BY <2>1, <1>1, <1>3
  <2>2. CASE m > 0
    BY <2>2, <1>1, <1>4 DEF Ascending
  <2> QED BY <2>1, <2>2
<1>6. ASSUME NEW k \in 0..Len(q), Have(k)
      PROVE  k = m
  <2>1. CASE k < m
    <3>1. m \in DOMAIN q /\ m > k
      BY <2>1, <1>1
    <3> QED BY <3>1, <1>5, <1>6
  <2>2. CASE m < k
    <3>1. k \in DOMAIN q /\ k > m
      BY <2>2, <1>1
    <3> QED BY <3>1, <1>5, <1>6
  <2> QED BY <2>1, <2>2, <1>1
<1>7. (CHOOSE k \in 0..Len(q) : Have(k)) = m
  <2> HIDE DEF Have
  <2> QED BY <1>5, <1>6
<1>8. Refilled(q, pipe) = pipe \o SubSeq(q, m + 1, Least(Len(q), m + (PipelineSize - Len(pipe))))
  BY <1>7 DEF Refilled, last
<1>9. Least(Len(q), m + (PipelineSize - Len(pipe))) = n
  BY <1>1, <1>2 DEF Least
<1>10. m <= n /\ n \in 0..Len(q)
  BY <1>1 DEF Least
<1>11. SubSeq(q, 1, m) \o SubSeq(q, m + 1, n) = SubSeq(q, 1, n)
  <2> HIDE DEF n
  <2>1. 1 \in 1..(Len(q) + 1) /\ m \in (1 - 1)..Len(q) /\ n \in m..Len(q)
    BY <1>1, <1>10
  <2> QED BY <2>1, ConcatAdjacentSubSeq
<1> QED BY <1>8, <1>9, <1>11 DEF HeadOf

LEMMA RefillFromNothing ==
    ASSUME NEW q \in Seq(Batches), Ascending(q)
    PROVE  Refilled(q, << >>) = HeadOf(q)
<1>1. SubSeq(q, 1, 0) = << >>
  BY SubSeqEmpty
<1>2. Refilled(q, SubSeq(q, 1, 0)) = HeadOf(q)
  BY RefillFromHead, PipelineSizeAssumption
<1> QED BY <1>1, <1>2

\* The batch at the head leaves the tail of the queue.
LEMMA WithoutHead ==
    ASSUME NEW q \in Seq(Batches), Ascending(q), q # << >>
    PROVE  Without(q, Head(q)) = Tail(q)
<1>1. /\ Len(q) \in Nat /\ 1 \in 1..Len(q)
      /\ DOMAIN q = 1..Len(q)
      /\ \A i \in 1..Len(q) : q[i].id \in Nat
  BY QueueFacts
<1>2. Head(q) = q[1] /\ Tail(q) \in Seq(Batches)
  BY HeadTailProperties
<1>3. ASSUME NEW i \in DOMAIN q, q[i].id = Head(q).id
      PROVE  i = 1
  BY <1>1, <1>2, <1>3 DEF Ascending
<1>4. (CHOOSE i \in DOMAIN q : q[i].id = Head(q).id) = 1
  BY <1>1, <1>2, <1>3
<1>5. Without(q, Head(q)) = SubSeq(q, 1, 1 - 1) \o SubSeq(q, 1 + 1, Len(q))
  BY <1>4 DEF Without
<1>6. SubSeq(q, 1, 1 - 1) = << >>
  BY <1>1, SubSeqEmpty
<1>7. SubSeq(q, 1 + 1, Len(q)) = Tail(q)
  BY TailIsSubSeq
<1> QED BY <1>2, <1>5, <1>6, <1>7, ConcatEmptySeq

\* Ids bounded by a number have a least strict bound, which is the next id.
LEMMA NextIdIsLeastBound ==
    ASSUME NEW qs \in [Users -> Seq(Batches)], NEW bound \in 1..(MaxWrites + 1),
           \A u \in Users : \A i \in DOMAIN qs[u] : qs[u][i].id < bound
    PROVE  /\ LoadNextBatchId(qs) \in 1..bound
           /\ \A u \in Users : \A i \in DOMAIN qs[u] : qs[u][i].id < LoadNextBatchId(qs)
<1> USE BoundsAssumption
<1> DEFINE Above(n) == \A u \in Users : \A b \in Elements(qs[u]) : b.id < n
           Near(n) == \A m \in 1..(n - 1) :
                         \E u \in Users : \E b \in Elements(qs[u]) : b.id >= m
           T == {n \in 1..(MaxWrites + 1) : Above(n)}
           next == LoadNextBatchId(qs)
<1>1. \A u \in Users : \A b \in Elements(qs[u]) : b.id \in Nat
  <2> SUFFICES ASSUME NEW u \in Users, NEW i \in DOMAIN qs[u]
               PROVE  qs[u][i].id \in Nat
    BY DEF Elements
  <2>1. qs[u] \in Seq(Batches)
    OBVIOUS
  <2> QED BY <2>1, QueueFacts
<1>2. bound \in T
  BY DEF Elements
<1>3. PICK n \in T : \A m \in T : ~(m < n)
  <2>1. T \subseteq Nat /\ T # {}
    <3> HIDE DEF Above
    <3> QED BY <1>2
  <2>2. \E x \in T : \A y \in T : ~(<<y, x>> \in OpToRel(<, Nat))
    <3> HIDE DEF T
    <3> QED BY <2>1, NatLessThanWellFounded, WFMin, Zenon
  <2> QED BY <2>1, <2>2 DEF OpToRel
<1>4. Near(n)
  <2> SUFFICES ASSUME NEW m \in 1..(n - 1)
               PROVE  \E u \in Users : \E b \in Elements(qs[u]) : b.id >= m
    OBVIOUS
  <2>1. m \notin T /\ m \in 1..(MaxWrites + 1)
    BY <1>3
  <2> QED BY <2>1, <1>1
<1>5. next = CHOOSE k \in 1..(MaxWrites + 1) : Above(k) /\ Near(k)
  BY DEF LoadNextBatchId
<1>6. \E k \in 1..(MaxWrites + 1) : Above(k) /\ Near(k)
  BY <1>3, <1>4
<1>7. next \in 1..(MaxWrites + 1) /\ Above(next) /\ Near(next)
  <2> HIDE DEF Above, Near, next
  <2> QED BY <1>5, <1>6
<1> HIDE DEF next
<1>8. next <= bound
  <2> SUFFICES ASSUME next > bound PROVE FALSE
    BY <1>7
  <2>1. bound \in 1..(next - 1)
    BY <1>7
  <2>2. PICK u \in Users : \E b \in Elements(qs[u]) : b.id >= bound
    BY <2>1, <1>7
  <2>3. PICK b \in Elements(qs[u]) : b.id >= bound
    BY <2>2
  <2>4. b.id < bound
    BY DEF Elements
  <2> QED BY <2>3, <2>4, <1>1
<1>9. \A u \in Users : \A i \in DOMAIN qs[u] : qs[u][i].id < next
  BY <1>7 DEF Elements
<1> QED BY <1>7, <1>8, <1>9 DEF next

-----------------------------------------------------------------------------
(* The invariant                                                           *)

\* The ids: in order within a queue, below the next one, one batch each.
IdsOK ==
    /\ nextId <= made + 1
    /\ \A u \in Users : Ascending(queue[u])
    /\ \A u \in Users : \A i \in DOMAIN queue[u] : queue[u][i].id < nextId
    /\ CallbacksQueued

\* The writes behind the ids: in the order they were made, each in one queue.
QueuedOnce ==
    /\ \A u \in Users : \A i \in DOMAIN queue[u] : queue[u][i].write <= made
    /\ \A u \in Users : \A i, j \in DOMAIN queue[u] :
          i < j => queue[u][i].write < queue[u][j].write
    /\ \A u, v \in Users : u # v =>
          \A i \in DOMAIN queue[u], j \in DOMAIN queue[v] :
              queue[u][i].write # queue[v][j].write

\* Whoever waits, or is still to come, has heard nothing.
NotTold ==
    /\ \A u \in Users : \A c \in callbacks[u] : told[c.write] = "none"
    /\ \A w \in Writes : w > made => told[w] = "none"

\* What is applied was not refused, and is still queued or came before all that
\* is.
AppliedOK ==
    \A u \in Users : \A w \in applied[u] :
        /\ w \notin bad
        /\ w <= made
        /\ \/ \E b \in Elements(queue[u]) : b.write = w
           \/ \A b \in Elements(queue[u]) : w < b.write

\* A call exists while the stream is open; before the handshake is done, only
\* the handshake is under way.
CallOK ==
    /\ stream # "open" =>
          /\ up = << >> /\ down = << >> /\ posted = << >>
          /\ ended = "no" /\ ~shaken
    /\ stream = "open" /\ ~shaken =>
          /\ ended # "denied"
          /\ \/ up = <<Shake>> /\ down = << >>
             \/ up = << >> /\ down \in {<< >>, <<Shake>>}
    /\ Reading => down # << >>
    /\ idle => stream = "open" /\ shaken /\ pipeline = << >>

\* Afterwards the responses answer the first batches of the pipeline, which are
\* applied, and the requests are the others; a refusal is of the first of them.
AnswersOK ==
    shaken =>
        /\ Len(down) <= Len(pipeline)
        /\ \A i \in 1..Len(down) :
              /\ down[i] = pipeline[i]
              /\ pipeline[i].write \in applied[user]
              /\ pipeline[i].write <= value[user]
        /\ ended = "no" => up = SubSeq(pipeline, Len(down) + 1, Len(pipeline))
        /\ ended = "denied" => /\ Len(down) < Len(pipeline)
                               /\ pipeline[Len(down) + 1].write \in bad

PipelineOK == pipeline = HeadOf(queue[user])

\* TypeOK of what belongs to the call and the bounds.
CallTypeOK ==
    /\ stream \in Streams
    /\ shaken \in BOOLEAN
    /\ idle \in BOOLEAN
    /\ up \in Seq(Batches \cup Shakes)
    /\ down \in Seq(Batches \cup Shakes)
    /\ ended \in Endings
    /\ posted \in Posts
    /\ switches \in 0..MaxSwitches
    /\ breaks \in 0..MaxBreaks

\* TypeOK of the rest.
QueueTypeOK ==
    /\ user \in Users
    /\ queue \in [Users -> Seq(Batches)]
    /\ nextId \in 1..(MaxWrites + 1)
    /\ callbacks \in [Users -> SUBSET Batches]
    /\ pipeline \in Seq(Batches)
    /\ made \in 0..MaxWrites
    /\ bad \subseteq Writes
    /\ applied \in [Users -> SUBSET Writes]
    /\ value \in [Users -> 0..MaxWrites]
    /\ told \in [Writes -> Answers]

Inv ==
    /\ TypeOK
    /\ IdsOK
    /\ QueuedOnce
    /\ NotTold
    /\ AppliedOK
    /\ CallOK
    /\ AnswersOK
    /\ PipelineOK
    /\ ServerCatchesUp

LEMMA TypeParts == TypeOK <=> QueueTypeOK /\ CallTypeOK
BY Zenon DEF TypeOK, QueueTypeOK, CallTypeOK

LEMMA TypePartsNext == TypeOK' <=> QueueTypeOK' /\ CallTypeOK'
BY Zenon DEF TypeOK, QueueTypeOK, CallTypeOK

-----------------------------------------------------------------------------
(* Steps of the call that leave queues and pipeline alone                  *)

LEMMA SameQueues ==
    ASSUME Inv,
           UNCHANGED <<user, nextId, callbacks, pipeline, disk, server, told>>,
           CallTypeOK', CallOK', AnswersOK'
    PROVE  Inv'
<1> USE DEF Inv, disk, server
<1>1. QueueTypeOK'
  BY TypeParts DEF QueueTypeOK
<1>2. TypeOK'
  BY <1>1, TypePartsNext
<1>3. IdsOK'
  BY DEF IdsOK, CallbacksQueued, Ascending, Elements
<1>4. QueuedOnce' /\ NotTold' /\ AppliedOK' /\ ServerCatchesUp'
  BY DEF QueuedOnce, NotTold, AppliedOK, ServerCatchesUp, Elements
<1>5. PipelineOK'
  BY DEF PipelineOK, HeadOf
<1> QED BY <1>2, <1>3, <1>4, <1>5

\* A call that is gone leaves nothing to answer.
LEMMA NoCall ==
    ASSUME CallTypeOK, DropCall, up' = << >>, idle' = FALSE,
           stream' \in Streams, stream' # "open",
           switches' \in 0..MaxSwitches, breaks' \in 0..MaxBreaks
    PROVE  CallTypeOK' /\ CallOK' /\ AnswersOK'
<1>1. shaken' = FALSE /\ posted' = << >> /\ down' = << >> /\ ended' = "no"
  BY DEF DropCall
<1>2. ~shaken' /\ ~idle'
  BY <1>1
<1>3. shaken' \in BOOLEAN /\ idle' \in BOOLEAN
  BY <1>1, Zenon
<1>4. /\ up' \in Seq(Batches \cup Shakes) /\ down' \in Seq(Batches \cup Shakes)
      /\ ended' \in Endings /\ posted' \in Posts
  BY <1>1 DEF Endings, Posts
<1>5. CallTypeOK'
  BY <1>3, <1>4, Zenon DEF CallTypeOK
<1>6. ~Reading'
  BY <1>1 DEF Reading
<1>7. CallOK'
  BY <1>1, <1>2, <1>6 DEF CallOK
<1>8. AnswersOK'
  BY <1>2, Zenon DEF AnswersOK
<1> QED BY <1>5, <1>7, <1>8

LEMMA StartedStream ==
    \A s \in Streams : Started(s) \in Streams /\ (Started(s) = "open" => s = "open")
BY DEF Started, Streams

LEMMA NoCredentialsKeepsInv == ASSUME Inv, NoCredentials PROVE Inv'
<1> USE DEF Inv
<1>1. CallTypeOK
  BY TypeParts
<1>2. stream' \in Streams /\ stream' # "open"
  BY StartedStream DEF NoCredentials, Streams, Started
<1>3. switches' \in 0..MaxSwitches /\ breaks' \in 0..MaxBreaks
  BY <1>1, BoundsAssumption DEF NoCredentials, CallTypeOK
<1>4. CallTypeOK' /\ CallOK' /\ AnswersOK'
  BY <1>1, <1>2, <1>3, NoCall DEF NoCredentials
<1> QED BY <1>4, SameQueues DEF NoCredentials

LEMMA StreamBreaksKeepsInv == ASSUME Inv, StreamBreaks PROVE Inv'
<1> USE DEF Inv
<1>1. CallTypeOK
  BY TypeParts
<1>2. stream' \in Streams /\ stream' # "open"
  BY StartedStream DEF StreamBreaks, Streams, Started
<1>3. switches' \in 0..MaxSwitches /\ breaks' \in 0..MaxBreaks
  BY <1>1 DEF StreamBreaks, CallTypeOK
<1>4. CallTypeOK' /\ CallOK' /\ AnswersOK'
  BY <1>1, <1>2, <1>3, NoCall DEF StreamBreaks
<1> QED BY <1>4, SameQueues DEF StreamBreaks

LEMMA IdleTimerFiresKeepsInv == ASSUME Inv, IdleTimerFires PROVE Inv'
<1> USE DEF Inv
<1>1. CallTypeOK
  BY TypeParts
<1>2. stream' \in Streams /\ stream' # "open"
  BY DEF IdleTimerFires, Streams
<1>3. switches' \in 0..MaxSwitches /\ breaks' \in 0..MaxBreaks
  BY <1>1 DEF IdleTimerFires, CallTypeOK
<1>4. CallTypeOK' /\ CallOK' /\ AnswersOK'
  BY <1>1, <1>2, <1>3, NoCall DEF IdleTimerFires
<1> QED BY <1>4, SameQueues DEF IdleTimerFires

LEMMA BackoffElapsesKeepsInv == ASSUME Inv, BackoffElapses PROVE Inv'
<1> USE DEF Inv, BackoffElapses, call
<1>1. CallTypeOK'
  BY TypeParts DEF CallTypeOK, Streams
<1>2. CallOK'
  BY DEF CallOK, Reading
<1>3. AnswersOK'
  BY DEF AnswersOK, server, disk
<1> QED BY <1>1, <1>2, <1>3, SameQueues

LEMMA OpenWithCredentialsKeepsInv == ASSUME Inv, OpenWithCredentials PROVE Inv'
<1> USE DEF Inv, OpenWithCredentials
<1>1. CallTypeOK
  BY TypeParts
<1>2. <<Shake>> \in Seq(Batches \cup Shakes)
  BY DEF Shakes
<1>3. CallTypeOK'
  BY <1>1, <1>2 DEF CallTypeOK, Streams
<1>4. ~shaken /\ up' = <<Shake>> /\ down = << >> /\ posted = << >> /\ ended = "no"
  BY DEF CallOK
<1>5. CallOK'
  BY <1>4 DEF CallOK, Reading
<1>6. AnswersOK'
  BY <1>4 DEF AnswersOK
<1> QED BY <1>3, <1>5, <1>6, SameQueues

LEMMA AppendToOne ==
    ASSUME NEW a, NEW b
    PROVE  Append(<<a>>, b) = <<a, b>>
<1> DEFINE S == {a, b}
<1>1. <<a>> \in Seq(S) /\ <<a, b>> \in Seq(S)
  OBVIOUS
<1>2. Len(<<a>>) = 1 /\ Len(<<a, b>>) = 2
  OBVIOUS
<1>3. /\ Append(<<a>>, b) \in Seq(S)
      /\ Len(Append(<<a>>, b)) = 2
      /\ Append(<<a>>, b)[1] = a
      /\ Append(<<a>>, b)[2] = b
  BY <1>1, <1>2, AppendProperties
<1>4. \A i \in 1..2 : Append(<<a>>, b)[i] = <<a, b>>[i]
  BY <1>3
<1> QED BY <1>1, <1>2, <1>3, <1>4, SeqEqual

\* What a completion does to those posted.
LEMMA PostedFacts ==
    ASSUME NEW p \in Posts
    PROVE  /\ p \in {<< >>, <<"failed">>} => Append(p, "read") \in Posts
           /\ p \in {<< >>, <<"read">>} => Append(p, "failed") \in Posts
           /\ p \in {<<"read">>, <<"read", "failed">>} =>
                 Tail(p) \in {<< >>, <<"failed">>}
<1>1. /\ Append(<< >>, "read") = <<"read">>
      /\ Append(<<"failed">>, "read") = <<"failed", "read">>
  BY AppendToOne
<1>2. /\ Append(<< >>, "failed") = <<"failed">>
      /\ Append(<<"read">>, "failed") = <<"read", "failed">>
  BY AppendToOne
<1>3. /\ Tail(<<"read">>) = << >>
      /\ Tail(<<"read", "failed">>) = <<"failed">>
  OBVIOUS
<1> QED BY <1>1, <1>2, <1>3, Zenon DEF Posts

LEMMA ReadingLength ==
    Reading => Len(posted) \in {1, 2}
<1>1. Len(<<"read">>) = 1 /\ Len(<<"read", "failed">>) = 2
  OBVIOUS
<1> QED BY <1>1, Zenon DEF Reading

LEMMA NotReading ==
    ASSUME posted' \in {<< >>, <<"failed">>}
    PROVE  posted' \in Posts /\ ~Reading'
<1>1. /\ <<"failed">>[1] = "failed"
      /\ <<"read">>[1] = "read"
      /\ <<"read", "failed">>[1] = "read"
  OBVIOUS
<1>2. <<"failed">> # <<"read">> /\ <<"failed">> # <<"read", "failed">>
  BY <1>1
<1>3. << >> # <<"read">> /\ << >> # <<"read", "failed">>
  OBVIOUS
<1> QED BY <1>2, <1>3, Zenon DEF Posts, Reading

LEMMA ReadCompletesKeepsInv == ASSUME Inv, ReadCompletes PROVE Inv'
<1> USE DEF Inv, ReadCompletes, client
<1>1. CallTypeOK
  BY TypeParts
<1>2. posted' \in Posts
  BY <1>1, PostedFacts DEF CallTypeOK
<1>3. CallTypeOK'
  BY <1>1, <1>2 DEF CallTypeOK
<1>4. stream = "open"
  BY DEF CallOK
<1>5. CallOK'
  BY <1>4 DEF CallOK
<1>6. AnswersOK'
  BY DEF AnswersOK, server, disk
<1> QED BY <1>3, <1>5, <1>6, SameQueues

LEMMA OperationFailsKeepsInv == ASSUME Inv, OperationFails PROVE Inv'
<1> USE DEF Inv, OperationFails, client
<1>1. CallTypeOK
  BY TypeParts
<1>2. posted' \in Posts
  BY <1>1, PostedFacts DEF CallTypeOK
<1>3. CallTypeOK'
  BY <1>1, <1>2 DEF CallTypeOK
<1>4. stream = "open"
  BY DEF CallOK
<1>5. Reading' => Reading
  <2>1. CASE posted = << >>
    <3>1. posted' = <<"failed">>
      BY <2>1
    <3> QED BY <3>1, NotReading
  <2>2. CASE posted = <<"read">>
    BY <2>2 DEF Reading
  <2> QED BY <2>1, <2>2
<1>6. CallOK'
  BY <1>4, <1>5 DEF CallOK
<1>7. AnswersOK'
  BY DEF AnswersOK, server, disk
<1> QED BY <1>3, <1>6, <1>7, SameQueues

LEMMA HandshakeCompletesKeepsInv == ASSUME Inv, HandshakeCompletes PROVE Inv'
<1> USE DEF Inv, HandshakeCompletes
<1>1. CallTypeOK /\ QueueTypeOK
  BY TypeParts
<1>2. stream = "open" /\ ~shaken /\ down # << >>
  BY DEF CallOK
<1>3. /\ ended # "denied"
      /\ up = << >> /\ down = <<Shake>>
  BY <1>2 DEF CallOK
<1>4. down' = << >> /\ Len(down') = 0
  BY <1>3
<1>5. pipeline \in Seq(Batches) /\ pipeline \in Seq(Batches \cup Shakes)
  BY <1>1, SeqMonotonic DEF QueueTypeOK
<1>6. up' = pipeline
  BY <1>3, <1>5, ConcatEmptySeq
<1>7. posted' \in {<< >>, <<"failed">>}
  BY <1>1, PostedFacts DEF CallTypeOK, Reading
<1>8. posted' \in Posts /\ ~Reading'
  BY <1>7, NotReading
<1>9. shaken' = TRUE /\ shaken' \in BOOLEAN /\ idle' \in BOOLEAN
  BY Zenon
<1>10. idle' => pipeline = << >>
  BY Zenon
<1>11. CallTypeOK'
  <2>1. << >> \in Seq(Batches \cup Shakes)
    OBVIOUS
  <2> QED BY <1>1, <1>4, <1>5, <1>6, <1>8, <1>9, <2>1, Zenon DEF CallTypeOK
<1>12. CallOK'
  BY <1>2, <1>8, <1>9, <1>10 DEF CallOK
<1>13. SubSeq(pipeline, 1, Len(pipeline)) = pipeline
  BY <1>5, SubSeqFull
<1>14. AnswersOK'
  BY <1>3, <1>4, <1>5, <1>6, <1>13, SeqFacts DEF AnswersOK
<1> QED BY <1>11, <1>12, <1>14, SameQueues

\* The next request, after the handshake, is the first batch without response.
LEMMA FirstRequest ==
    ASSUME Inv, ended = "no", up # << >>, Head(up) # Shake
    PROVE  /\ stream = "open" /\ shaken
           /\ Len(down) < Len(pipeline)
           /\ Head(up) = pipeline[Len(down) + 1]
           /\ Tail(up) = SubSeq(pipeline, Len(down) + 2, Len(pipeline))
           /\ Tail(up) \in Seq(Batches \cup Shakes)
<1> USE DEF Inv
<1>1. CallTypeOK /\ QueueTypeOK
  BY TypeParts
<1>2. stream = "open"
  BY DEF CallOK
<1>3. Head(<<Shake>>) = Shake
  OBVIOUS
<1>4. shaken
  BY <1>2, <1>3 DEF CallOK
<1>5. /\ up = SubSeq(pipeline, Len(down) + 1, Len(pipeline))
      /\ Len(down) <= Len(pipeline)
  BY <1>4 DEF AnswersOK
<1>6. /\ pipeline \in Seq(Batches) /\ Len(pipeline) \in Nat
      /\ Len(down) \in Nat /\ up \in Seq(Batches \cup Shakes)
  BY <1>1, SeqFacts DEF CallTypeOK, QueueTypeOK
<1>7. Len(down) < Len(pipeline)
  <2>1. CASE Len(down) = Len(pipeline)
    BY <2>1, <1>5, <1>6, SubSeqEmpty
  <2> QED BY <2>1, <1>5, <1>6
<1>8. Len(down) + 1 \in 1..Len(pipeline) /\ Len(pipeline) \in (Len(down) + 1)..Len(pipeline)
  BY <1>6, <1>7
<1>9. /\ Head(up) = pipeline[Len(down) + 1]
      /\ Tail(up) = SubSeq(pipeline, Len(down) + 1 + 1, Len(pipeline))
  BY <1>5, <1>6, <1>8, HeadTailOfSubSeq
<1>10. Tail(up) \in Seq(Batches \cup Shakes)
  BY <1>6, HeadTailProperties
<1> QED BY <1>2, <1>4, <1>6, <1>7, <1>9, <1>10

LEMMA ServerShakesHandsKeepsInv == ASSUME Inv, ServerShakesHands PROVE Inv'
<1> USE DEF Inv, ServerShakesHands
<1>1. CallTypeOK /\ QueueTypeOK
  BY TypeParts
<1>2. stream = "open"
  BY DEF CallOK
<1>3. ~shaken
  <2> SUFFICES ASSUME shaken PROVE FALSE
    OBVIOUS
  <2>1. /\ up = SubSeq(pipeline, Len(down) + 1, Len(pipeline))
        /\ Len(down) <= Len(pipeline)
    BY DEF AnswersOK
  <2>2. /\ pipeline \in Seq(Batches) /\ Len(pipeline) \in Nat
        /\ Len(down) \in Nat
    BY <1>1, SeqFacts DEF CallTypeOK, QueueTypeOK
  <2>3. up \in Seq(Batches)
    BY <2>1, <2>2, SubSeqProperties
  <2>4. Head(up) \in Batches
    BY <2>3, HeadTailProperties
  <2>5. Shake.id = 0
    BY DEF Shake
  <2> QED BY <2>4, <2>5, BatchFacts
<1>4. up = <<Shake>> /\ down = << >>
  BY <1>2, <1>3 DEF CallOK
<1>5. Tail(<<Shake>>) = << >> /\ Append(<< >>, Shake) = <<Shake>>
  OBVIOUS
<1>6. up' = << >> /\ down' = <<Shake>>
  BY <1>4, <1>5
<1>7. <<Shake>> \in Seq(Batches \cup Shakes) /\ <<Shake>> # << >>
  BY DEF Shakes
<1>8. CallTypeOK'
  BY <1>1, <1>6, <1>7 DEF CallTypeOK, client
<1>9. CallOK'
  BY <1>2, <1>3, <1>6, <1>7 DEF CallOK, client, Reading
<1>10. AnswersOK'
  BY <1>3 DEF AnswersOK, client
<1> QED BY <1>8, <1>9, <1>10, SameQueues DEF client

LEMMA ServerRefusesKeepsInv == ASSUME Inv, ServerRefuses PROVE Inv'
<1> USE DEF Inv, ServerRefuses
<1>1. CallTypeOK
  BY TypeParts
<1>2. /\ stream = "open" /\ shaken
      /\ Len(down) < Len(pipeline)
      /\ Head(up) = pipeline[Len(down) + 1]
      /\ Tail(up) \in Seq(Batches \cup Shakes)
  BY FirstRequest
<1>3. CallTypeOK'
  BY <1>1, <1>2 DEF CallTypeOK, client, Endings
<1>4. CallOK'
  BY <1>2 DEF CallOK, client, Reading
<1>5. AnswersOK'
  BY <1>2 DEF AnswersOK, client, disk, server
<1> QED BY <1>3, <1>4, <1>5, SameQueues DEF client

LEMMA ConnectionLostKeepsInv == ASSUME Inv, ConnectionLost PROVE Inv'
<1> USE DEF Inv, ConnectionLost
<1>1. CallTypeOK
  BY TypeParts
<1>2. down \in Seq(Batches \cup Shakes) /\ Len(down) \in Nat
  BY <1>1, SeqFacts DEF CallTypeOK
<1>3. PICK n \in Len(posted)..Len(down) : down' = SubSeq(down, 1, n)
  BY Zenon
<1>4. n \in 0..Len(down)
  <2>1. Len(posted) \in Nat
    BY <1>1 DEF CallTypeOK, Posts
  <2> QED BY <1>2, <2>1
<1>5. /\ down' \in Seq(Batches \cup Shakes)
      /\ Len(down') = n
      /\ \A i \in 1..n : down'[i] = down[i]
  BY <1>2, <1>3, <1>4, SubSeqProperties
<1>6. CallTypeOK'
  <2>1. breaks' \in 0..MaxBreaks
    BY <1>1, BoundsAssumption DEF CallTypeOK
  <2> QED BY <1>1, <1>5, <2>1 DEF CallTypeOK, client, Endings
<1>7. Reading => Len(posted) \in {1, 2}
  BY ReadingLength
<1>8. Reading => n > 0
  <2> SUFFICES ASSUME Reading PROVE n > 0
    OBVIOUS
  <2> DEFINE length == Len(posted)
  <2>1. length \in {1, 2} /\ n \in length..Len(down)
    BY <1>7
  <2> HIDE DEF length
  <2> QED BY <2>1, <1>2
<1>9. Reading' => down' # << >>
  BY <1>8, <1>5, SeqFacts DEF Reading
<1>10. ~shaken /\ up = << >> => down' \in {<< >>, <<Shake>>}
  <2> SUFFICES ASSUME ~shaken, up = << >>
               PROVE  down' \in {<< >>, <<Shake>>}
    OBVIOUS
  <2>1. down \in {<< >>, <<Shake>>}
    BY DEF CallOK
  <2>2. CASE n = 0
    BY <2>2, <1>5, SeqFacts
  <2>3. CASE n # 0
    <3>0. Len(<< >>) = 0 /\ Len(<<Shake>>) = 1
      OBVIOUS
    <3>1. down = <<Shake>> /\ Len(down) = 1
      <4>1. CASE down = << >>
        BY <4>1, <2>3, <1>4, <3>0
      <4> QED BY <4>1, <2>1, <3>0, Zenon
    <3>2. n = Len(down)
      BY <3>1, <2>3, <1>4
    <3>3. down' = down
      BY <3>2, <1>2, <1>3, SubSeqFull
    <3> QED BY <3>1, <3>3
  <2> QED BY <2>2, <2>3
<1>11. ~shaken /\ down = << >> => down' = << >>
  BY <1>2, <1>4, <1>5, SeqFacts
<1>12. CallOK'
  BY <1>9, <1>10, <1>11 DEF CallOK, client
<1>13. AnswersOK'
  BY <1>2, <1>4, <1>5 DEF AnswersOK, client, disk, server
<1> QED BY <1>6, <1>12, <1>13, SameQueues DEF client

-----------------------------------------------------------------------------
(* Heads and tails of queues                                               *)

LEMMA HeadOfFacts ==
    ASSUME NEW q \in Seq(Batches)
    PROVE  /\ HeadOf(q) \in Seq(Batches)
           /\ Len(HeadOf(q)) \in 0..Len(q)
           /\ Len(HeadOf(q)) <= PipelineSize
           /\ HeadOf(q) = SubSeq(q, 1, Len(HeadOf(q)))
           /\ \A i \in 1..Len(HeadOf(q)) : HeadOf(q)[i] = q[i]
           /\ HeadOf(q) = << >> <=> q = << >>
<1> DEFINE n == Least(Len(q), PipelineSize)
<1>1. /\ Len(q) \in Nat
      /\ \A i \in 1..Len(q) : q[i] \in Batches
      /\ q = << >> <=> Len(q) = 0
  BY QueueFacts
<1>2. n \in 0..Len(q) /\ n <= PipelineSize /\ (n = 0 <=> Len(q) = 0)
  BY <1>1, PipelineSizeAssumption DEF Least
<1> HIDE DEF n
<1>3. /\ SubSeq(q, 1, n) \in Seq(Batches)
      /\ Len(SubSeq(q, 1, n)) = n
      /\ \A i \in 1..n : SubSeq(q, 1, n)[i] = q[i]
  BY <1>1, <1>2, SubSeqProperties
<1>4. HeadOf(q) = SubSeq(q, 1, n)
  BY DEF HeadOf, n
<1>5. HeadOf(q) = << >> <=> q = << >>
  BY <1>1, <1>2, <1>3, <1>4, SeqFacts
<1> QED BY <1>1, <1>2, <1>3, <1>4, <1>5

LEMMA HeadOfLength ==
    ASSUME NEW q \in Seq(Batches)
    PROVE  Len(HeadOf(q)) = Least(Len(q), PipelineSize)
<1> DEFINE k == Least(Len(q), PipelineSize)
<1>1. k \in 0..Len(q) /\ Len(q) \in Nat
  BY QueueFacts, PipelineSizeAssumption DEF Least
<1> HIDE DEF k
<1>2. Len(SubSeq(q, 1, k)) = k
  BY <1>1, QueueFacts, SubSeqProperties
<1> QED BY <1>2 DEF HeadOf, k

LEMMA TailShifts ==
    ASSUME NEW s \in Seq(Batches), s # << >>,
           NEW i \in 1..Len(s), NEW j \in 0..(Len(s) - 1)
    PROVE  SubSeq(Tail(s), i, j) = SubSeq(s, i + 1, j + 1)
<1>1. /\ Len(s) \in Nat /\ Len(s) > 0
      /\ \A k \in 1..Len(s) : s[k] \in Batches
  BY QueueFacts
<1>2. /\ Tail(s) \in Seq(Batches)
      /\ Len(Tail(s)) = Len(s) - 1
      /\ \A k \in 1..(Len(s) - 1) : Tail(s)[k] = s[k + 1]
  BY HeadTailProperties
<1> DEFINE a == SubSeq(Tail(s), i, j)
           b == SubSeq(s, i + 1, j + 1)
<1>3. /\ a \in Seq(Batches)
      /\ Len(a) = IF i <= j THEN j - i + 1 ELSE 0
      /\ \A k \in 1..(j - i + 1) : a[k] = Tail(s)[i + k - 1]
  <2>1. \A k \in i..j : Tail(s)[k] \in Batches
    BY <1>1, <1>2
  <2> QED BY <2>1, SubSeqProperties
<1>4. /\ b \in Seq(Batches)
      /\ Len(b) = IF i <= j THEN j - i + 1 ELSE 0
      /\ \A k \in 1..(j - i + 1) : b[k] = s[i + k]
  <2>1. \A k \in (i + 1)..(j + 1) : s[k] \in Batches
    BY <1>1
  <2>2. /\ b \in Seq(Batches)
        /\ Len(b) = IF i + 1 <= j + 1 THEN (j + 1) - (i + 1) + 1 ELSE 0
        /\ \A k \in 1..((j + 1) - (i + 1) + 1) : b[k] = s[(i + 1) + k - 1]
    BY <2>1, SubSeqProperties
  <2> HIDE DEF b
  <2> QED BY <2>2, <1>1
<1> HIDE DEF a, b
<1>5. \A k \in 1..Len(a) : a[k] = b[k]
  BY <1>1, <1>2, <1>3, <1>4
<1>6. a = b
  BY <1>3, <1>4, <1>5, SeqEqual
<1> QED BY <1>6 DEF a, b

\* What Inv says of the open queue and the pipeline.
LEMMA OpenQueueFacts ==
    ASSUME Inv
    PROVE  /\ user \in Users
           /\ queue[user] \in Seq(Batches) /\ Ascending(queue[user])
           /\ Len(queue[user]) \in Nat
           /\ pipeline \in Seq(Batches)
           /\ Len(pipeline) \in 0..Len(queue[user])
           /\ Len(pipeline) <= PipelineSize
           /\ pipeline = SubSeq(queue[user], 1, Len(pipeline))
           /\ \A i \in 1..Len(pipeline) : pipeline[i] = queue[user][i]
           /\ pipeline = << >> <=> queue[user] = << >>
<1>1. user \in Users /\ queue[user] \in Seq(Batches) /\ Ascending(queue[user])
  BY TypeParts DEF Inv, QueueTypeOK, IdsOK
<1>2. pipeline = HeadOf(queue[user])
  BY DEF Inv, PipelineOK
<1>3. Len(queue[user]) \in Nat
  BY <1>1, QueueFacts
<1> QED BY <1>1, <1>2, <1>3, HeadOfFacts

LEMMA ServerAppliesKeepsInv == ASSUME Inv, ServerApplies PROVE Inv'
<1> USE DEF Inv, ServerApplies
<1> DEFINE k == Len(down) + 1
           b == pipeline[k]
           q == queue[user]
<1>1. CallTypeOK /\ QueueTypeOK
  BY TypeParts
<1>2. /\ stream = "open" /\ shaken
      /\ Len(down) < Len(pipeline)
      /\ Head(up) = b
      /\ Tail(up) = SubSeq(pipeline, Len(down) + 2, Len(pipeline))
      /\ Tail(up) \in Seq(Batches \cup Shakes)
  BY FirstRequest
<1>3. down \in Seq(Batches \cup Shakes) /\ Len(down) \in Nat
  BY <1>1, SeqFacts DEF CallTypeOK
<1>4. k \in 1..Len(pipeline) /\ k \in 1..Len(q) /\ b = q[k] /\ b \in Batches
  BY <1>2, <1>3, OpenQueueFacts, QueueFacts
<1>5. b.write \in Writes /\ b.write \notin bad /\ b.write <= made
  <2>1. b.write \in Writes
    BY <1>4, BatchFacts
  <2>2. b.write \notin bad
    BY <1>2
  <2>3. k \in DOMAIN q /\ user \in Users
    BY <1>4, OpenQueueFacts, QueueFacts
  <2>4. q[k].write <= made
    BY <2>3 DEF QueuedOnce
  <2> QED BY <2>1, <2>2, <2>4, <1>4
<1>6. b \in Elements(q)
  BY <1>4, OpenQueueFacts, QueueFacts DEF Elements
<1>7. /\ applied' = [applied EXCEPT ![user] = @ \cup {b.write}]
      /\ value' = [value EXCEPT ![user] = b.write]
      /\ down' = Append(down, b)
      /\ up' = Tail(up)
  BY <1>2
<1> HIDE DEF b
<1>8. /\ UNCHANGED <<user, nextId, callbacks, pipeline, stream, shaken, idle,
                     queue, made, bad, ended, posted, told, switches, breaks>>
  BY DEF client, disk
<1>9. QueueTypeOK'
  BY <1>1, <1>5, <1>7, <1>8 DEF QueueTypeOK, Writes
<1>10. /\ down' \in Seq(Batches \cup Shakes)
       /\ Len(down') = k
       /\ \A i \in 1..Len(down) : down'[i] = down[i]
       /\ down'[k] = b
  BY <1>3, <1>4, <1>7, AppendProperties
<1>11. CallTypeOK'
  BY <1>1, <1>2, <1>7, <1>8, <1>10 DEF CallTypeOK
<1>12. IdsOK' /\ QueuedOnce' /\ NotTold' /\ PipelineOK'
  BY <1>8 DEF IdsOK, CallbacksQueued, Ascending, Elements, QueuedOnce, NotTold,
              PipelineOK, HeadOf
<1>13. AppliedOK'
  <2> SUFFICES ASSUME NEW u \in Users, NEW w \in applied'[u]
               PROVE  /\ w \notin bad
                      /\ w <= made
                      /\ \/ \E c \in Elements(queue[u]) : c.write = w
                         \/ \A c \in Elements(queue[u]) : w < c.write
    BY <1>8 DEF AppliedOK, Elements
  <2>1. CASE w \in applied[u]
    BY <2>1 DEF AppliedOK
  <2>2. CASE w \notin applied[u]
    <3>1. u = user /\ w = b.write
      BY <2>2, <1>1, <1>7 DEF QueueTypeOK
    <3> QED BY <3>1, <1>5, <1>6
  <2> QED BY <2>1, <2>2
<1>14. CallOK'
  <2>1. down' # << >>
    BY <1>7, <1>3, <1>4, AppendProperties
  <2> QED BY <2>1, <1>2, <1>8 DEF CallOK, Reading
<1>15. AnswersOK'
  <2>1. shaken' /\ ended' = "no" /\ pipeline' = pipeline /\ Len(down') <= Len(pipeline')
    BY <1>2, <1>4, <1>8, <1>10
  <2>2. up' = SubSeq(pipeline', Len(down') + 1, Len(pipeline'))
    BY <1>2, <1>3, <1>7, <1>8, <1>10
  <2>3. ASSUME NEW i \in 1..Len(down')
        PROVE  /\ down'[i] = pipeline'[i]
               /\ pipeline'[i].write \in applied'[user']
               /\ pipeline'[i].write <= value'[user']
    <3>1. applied'[user] = applied[user] \cup {b.write} /\ value'[user] = b.write
      BY <1>1, <1>7 DEF QueueTypeOK
    <3>2. CASE i = k
      BY <3>1, <3>2, <1>5, <1>8, <1>10, BoundsAssumption DEF b, Writes
    <3>3. CASE i < k
      <4>1. i \in 1..Len(down) /\ i \in 1..Len(pipeline) /\ i \in 1..Len(q)
        BY <3>3, <1>2, <1>3, <1>4, <1>10, OpenQueueFacts
      <4>2. down[i] = pipeline[i] /\ pipeline[i].write \in applied[user]
        BY <4>1, <1>2 DEF AnswersOK
      <4>3. pipeline[i] = q[i] /\ q[i].write < q[k].write
        <5>1. i \in DOMAIN q /\ k \in DOMAIN q /\ user \in Users /\ pipeline[i] = q[i]
          BY <4>1, <1>4, OpenQueueFacts, QueueFacts
        <5> QED BY <5>1, <3>3 DEF QueuedOnce
      <4>4. q[i].write \in Nat /\ q[k].write \in Nat
        BY <4>1, <1>4, OpenQueueFacts, QueueFacts
      <4> QED BY <4>1, <4>2, <4>3, <4>4, <3>1, <1>4, <1>8, <1>10
    <3> QED BY <3>2, <3>3, <1>3, <1>10
  <2> QED BY <2>1, <2>2, <2>3 DEF AnswersOK
<1>16. ServerCatchesUp'
  <2> SUFFICES ASSUME NEW u \in Users, NEW w \in applied'[u], w > value'[u]
               PROVE  \E c \in Elements(queue[u]) : c.write = w
    BY <1>8 DEF ServerCatchesUp, Elements
  <2>1. CASE u # user
    BY <2>1, <1>1, <1>7 DEF ServerCatchesUp, QueueTypeOK
  <2>2. CASE u = user
    <3>1. value'[u] = b.write /\ w \in applied[user] \cup {b.write}
      BY <2>2, <1>1, <1>7 DEF QueueTypeOK
    <3>2. b.write \in Nat
      BY <1>5, BoundsAssumption DEF Writes
    <3>3. CASE w = b.write
      BY <3>1, <3>2, <3>3
    <3>4. CASE w \in applied[user] /\ w # b.write
      <4>1. w \in Nat
        BY <3>4, <1>1, BoundsAssumption DEF QueueTypeOK, Writes
      <4>2. ~(w < b.write)
        BY <4>1, <3>1, <3>2
      <4> QED BY <4>2, <3>4, <2>2, <1>6 DEF AppliedOK
    <3> QED BY <3>1, <3>3, <3>4
  <2> QED BY <2>1, <2>2
<1>17. TypeOK'
  BY <1>9, <1>11, TypePartsNext
<1> QED BY <1>12, <1>13, <1>14, <1>15, <1>16, <1>17

-----------------------------------------------------------------------------
(* New starts: a changed account, network or process                       *)

LEMMA RestartKeepsInv ==
    ASSUME Inv,
           user' \in Users, RestartNetwork(queue[user']),
           UNCHANGED <<disk, server>>,
           nextId' \in 1..(made + 1),
           \A u \in Users : \A i \in DOMAIN queue[u] : queue[u][i].id < nextId',
           callbacks' \in [Users -> SUBSET Batches],
           \A u \in Users : callbacks'[u] \subseteq callbacks[u],
           told' \in [Writes -> Answers],
           NotTold',
           switches' \in 0..MaxSwitches, breaks' \in 0..MaxBreaks
    PROVE  Inv'
<1> USE DEF Inv
<1>1. CallTypeOK /\ QueueTypeOK
  BY TypeParts
<1>2. UNCHANGED <<queue, made, bad, applied, value>>
  BY DEF disk, server
<1>3. queue[user'] \in Seq(Batches) /\ Ascending(queue[user'])
  BY <1>1 DEF QueueTypeOK, IdsOK
<1>4. pipeline' = HeadOf(queue[user'])
  BY <1>3, RefillFromNothing DEF RestartNetwork
<1>5. QueueTypeOK'
  <2>1. pipeline' \in Seq(Batches)
    BY <1>3, <1>4, HeadOfFacts
  <2>2. nextId' \in 1..(MaxWrites + 1)
    BY <1>1, BoundsAssumption DEF QueueTypeOK
  <2> QED BY <2>1, <2>2, <1>1, <1>2 DEF QueueTypeOK
<1>6. CallTypeOK' /\ CallOK' /\ AnswersOK'
  <2>1. DropCall /\ up' = << >> /\ idle' = FALSE
    BY DEF RestartNetwork
  <2>2. stream' \in Streams /\ stream' # "open"
    BY DEF RestartNetwork, Streams
  <2> QED BY <2>1, <2>2, <1>1, NoCall
<1>7. IdsOK'
  <2>1. nextId' <= made' + 1
    BY <1>1, <1>2 DEF QueueTypeOK
  <2>2. CallbacksQueued'
    BY <1>2 DEF IdsOK, CallbacksQueued, Elements
  <2> QED BY <2>1, <2>2, <1>2 DEF IdsOK, Ascending
<1>8. QueuedOnce' /\ AppliedOK' /\ ServerCatchesUp'
  BY <1>2 DEF QueuedOnce, AppliedOK, ServerCatchesUp, Elements
<1>10. PipelineOK'
  BY <1>2, <1>4 DEF PipelineOK, HeadOf
<1>11. TypeOK'
  BY <1>5, <1>6, TypePartsNext
<1> QED BY <1>6, <1>7, <1>8, <1>10, <1>11

LEMMA NextIdFacts ==
    ASSUME Inv
    PROVE  /\ nextId \in 1..(made + 1) /\ made + 1 \in 1..(MaxWrites + 1)
           /\ \A u \in Users : \A i \in DOMAIN queue[u] : queue[u][i].id < nextId
           /\ LoadNextBatchId(queue) \in 1..(made + 1)
           /\ \A u \in Users : \A i \in DOMAIN queue[u] :
                 queue[u][i].id < LoadNextBatchId(queue)
<1>1. QueueTypeOK
  BY TypeParts DEF Inv
<1>2. /\ nextId \in 1..(MaxWrites + 1) /\ made \in 0..MaxWrites
      /\ nextId <= made + 1
      /\ \A u \in Users : \A i \in DOMAIN queue[u] : queue[u][i].id < nextId
      /\ queue \in [Users -> Seq(Batches)]
  BY <1>1 DEF Inv, IdsOK, QueueTypeOK
<1>3. /\ LoadNextBatchId(queue) \in 1..nextId
      /\ \A u \in Users : \A i \in DOMAIN queue[u] :
            queue[u][i].id < LoadNextBatchId(queue)
  BY <1>2, NextIdIsLeastBound
<1> DEFINE next == LoadNextBatchId(queue)
<1>4. next \in 1..nextId
  BY <1>3
<1> HIDE DEF next
<1>5. next \in 1..(made + 1)
  BY <1>2, <1>4, BoundsAssumption
<1>6. nextId \in 1..(made + 1) /\ made + 1 \in 1..(MaxWrites + 1)
  BY <1>2, BoundsAssumption
<1> QED BY <1>2, <1>3, <1>5, <1>6 DEF next

LEMMA HandleCredentialChangeKeepsInv == ASSUME Inv, HandleCredentialChange PROVE Inv'
<1> USE DEF Inv, HandleCredentialChange
<1>1. CallTypeOK /\ QueueTypeOK
  BY TypeParts
<1>2. /\ nextId' \in 1..(made + 1)
      /\ \A u \in Users : \A i \in DOMAIN queue[u] : queue[u][i].id < nextId'
  <2>1. nextId' = nextId \/ nextId' = LoadNextBatchId(queue)
    OBVIOUS
  <2> QED BY <2>1, NextIdFacts, Zenon
<1>3. switches' \in 0..MaxSwitches /\ breaks' \in 0..MaxBreaks
  BY <1>1, BoundsAssumption DEF CallTypeOK
<1>4. callbacks' \in [Users -> SUBSET Batches] /\ told' \in [Writes -> Answers]
  BY <1>1 DEF QueueTypeOK
<1>5. NotTold'
  BY DEF NotTold, disk
<1> QED BY <1>2, <1>3, <1>4, <1>5, RestartKeepsInv

LEMMA ConnectivityChangesKeepsInv == ASSUME Inv, ConnectivityChanges PROVE Inv'
<1> USE DEF Inv, ConnectivityChanges
<1>1. CallTypeOK /\ QueueTypeOK
  BY TypeParts
<1>2. /\ nextId' \in 1..(made + 1)
      /\ \A u \in Users : \A i \in DOMAIN queue[u] : queue[u][i].id < nextId'
  BY NextIdFacts
<1>3. switches' \in 0..MaxSwitches /\ breaks' \in 0..MaxBreaks
  BY <1>1, BoundsAssumption DEF CallTypeOK
<1>4. /\ callbacks' \in [Users -> SUBSET Batches] /\ told' \in [Writes -> Answers]
      /\ user' \in Users /\ RestartNetwork(queue[user'])
  BY <1>1 DEF QueueTypeOK
<1>5. NotTold'
  BY DEF NotTold, disk
<1> QED BY <1>2, <1>3, <1>4, <1>5, RestartKeepsInv

LEMMA AppRestartsKeepsInv == ASSUME Inv, AppRestarts PROVE Inv'
<1> USE DEF Inv, AppRestarts
<1>1. CallTypeOK /\ QueueTypeOK
  BY TypeParts
<1>2. /\ nextId' \in 1..(made + 1)
      /\ \A u \in Users : \A i \in DOMAIN queue[u] : queue[u][i].id < nextId'
  BY NextIdFacts
<1>3. switches' \in 0..MaxSwitches /\ breaks' \in 0..MaxBreaks
  BY <1>1, BoundsAssumption DEF CallTypeOK
<1>4. /\ user' \in Users /\ RestartNetwork(queue[user'])
      /\ callbacks' \in [Users -> SUBSET Batches]
      /\ \A u \in Users : callbacks'[u] = {}
  BY <1>1 DEF QueueTypeOK
<1>5. told' \in [Writes -> Answers]
  BY <1>1 DEF QueueTypeOK, Answers
<1>6. NotTold'
  <2> SUFFICES ASSUME NEW w \in Writes, w > made
               PROVE  told'[w] = "none"
    BY <1>4 DEF NotTold, disk
  <2>1. told[w] = "none"
    BY DEF NotTold
  <2>2. ASSUME NEW c \in callbacks[user], told' = [told EXCEPT ![c.write] = "ok"]
        PROVE  told'[w] = "none"
    <3>1. PICK i \in DOMAIN queue[user] : c = queue[user][i]
      BY <1>1 DEF IdsOK, CallbacksQueued, QueueTypeOK, Elements
    <3>2. c.write <= made
      BY <3>1, <1>1 DEF QueuedOnce, QueueTypeOK
    <3>3. c.write # w
      <4>1. w \in Nat /\ made \in Nat /\ c.write \in Nat
        BY <3>1, <1>1, OpenQueueFacts, QueueFacts, BoundsAssumption DEF Writes, QueueTypeOK
      <4> QED BY <4>1, <3>2
    <3> QED BY <3>3, <2>2, <2>1, <1>1 DEF QueueTypeOK
  <2> QED BY <2>1, <2>2
<1> QED BY <1>2, <1>3, <1>4, <1>5, <1>6, RestartKeepsInv

-----------------------------------------------------------------------------
(* Steps that change a queue                                               *)

\* Refilling keeps the pipeline a head of the queue, and sends what is new.
LEMMA FillsPipeline ==
    ASSUME NEW q \in Seq(Batches), Ascending(q),
           NEW m \in 0..Len(q), m <= PipelineSize,
           NEW state \in Streams,
           FillWritePipeline(q, SubSeq(q, 1, m), state),
           shaken \in BOOLEAN, idle \in BOOLEAN,
           up \in Seq(Batches \cup Shakes),
           idle => state = "open" /\ shaken /\ m = 0
    PROVE  /\ pipeline' = HeadOf(q)
           /\ stream' \in Streams
           /\ stream' = "open" <=> state = "open"
           /\ up' \in Seq(Batches \cup Shakes)
           /\ idle' \in BOOLEAN
           /\ idle' => state = "open" /\ pipeline' = << >>
           /\ ~(state = "open" /\ shaken) => up' = up
           /\ \A n \in 0..m :
                 state = "open" /\ shaken /\ up = SubSeq(q, n + 1, m) =>
                     up' = SubSeq(pipeline', n + 1, Len(pipeline'))
<1> DEFINE pipe == SubSeq(q, 1, m)
           full == Refilled(q, pipe)
           l == Len(full)
           new == SubSeq(full, Len(pipe) + 1, l)
           send == state = "open" /\ shaken /\ new # << >>
<1>1. full = HeadOf(q)
  BY RefillFromHead
<1>2. /\ Len(q) \in Nat
      /\ \A i \in 1..Len(q) : q[i] \in Batches
  BY QueueFacts
<1>3. /\ pipe \in Seq(Batches) /\ Len(pipe) = m
      /\ pipe = << >> <=> m = 0
  <2>1. pipe \in Seq(Batches) /\ Len(pipe) = m
    BY <1>2, SubSeqProperties
  <2> QED BY <2>1, SeqFacts
<1>4. /\ full \in Seq(Batches) /\ l \in m..Len(q)
      /\ full = SubSeq(q, 1, l)
      /\ \A i \in 1..l : full[i] = q[i]
      /\ l \in Nat
      /\ full = << >> <=> l = 0
  <2>1. /\ HeadOf(q) = SubSeq(q, 1, Least(Len(q), PipelineSize))
        /\ Least(Len(q), PipelineSize) \in m..Len(q)
    BY <1>2, PipelineSizeAssumption DEF HeadOf, Least
  <2> DEFINE k == Least(Len(q), PipelineSize)
  <2> HIDE DEF k
  <2>2. k \in m..Len(q) /\ HeadOf(q) = SubSeq(q, 1, k)
    BY <2>1 DEF k
  <2>3. Len(SubSeq(q, 1, k)) = k
    BY <1>2, <2>2, SubSeqProperties
  <2>4. l = k
    BY <1>1, <2>2, <2>3
  <2>5. full \in Seq(Batches) /\ \A i \in 1..l : full[i] = q[i]
    BY <1>1, HeadOfFacts
  <2>6. l \in m..Len(q) /\ full = SubSeq(q, 1, l)
    BY <1>1, <2>2, <2>4
  <2>7. full = << >> <=> l = 0
    BY <2>5, SeqFacts
  <2> QED BY <2>5, <2>6, <2>7, <1>2
<1>5. /\ pipeline' = full
      /\ stream' = IF full = << >> THEN state ELSE Started(state)
      /\ up' = IF send THEN up \o new ELSE up
      /\ idle' = IF send THEN FALSE ELSE idle \/ (state = "open" /\ full = << >>)
  BY Zenon DEF FillWritePipeline
<1> HIDE DEF pipe, full
<1>6. /\ new \in Seq(Batches)
      /\ new = << >> <=> l = m
      /\ \A n \in 0..m : SubSeq(full, n + 1, m) \o new = SubSeq(full, n + 1, l)
  <2>1. \A i \in (m + 1)..l : full[i] \in Batches
    BY <1>2, <1>4
  <2>2. new = SubSeq(full, m + 1, l)
    BY <1>3
  <2>3. new \in Seq(Batches) /\ Len(new) = l - m
    <3> HIDE DEF l, new
    <3>1. /\ SubSeq(full, m + 1, l) \in Seq(Batches)
          /\ Len(SubSeq(full, m + 1, l)) = IF m + 1 <= l THEN l - (m + 1) + 1 ELSE 0
      BY <2>1, <1>4, SubSeqProperties
    <3>2. Len(new) = IF m + 1 <= l THEN l - (m + 1) + 1 ELSE 0
      BY <3>1, <2>2
    <3>3. Len(new) = l - m
      BY <3>2, <1>4
    <3> QED BY <3>1, <3>3, <2>2
  <2>4. new = << >> <=> Len(new) = 0
    BY <2>3, SeqFacts
  <2>5. ASSUME NEW n \in 0..m
        PROVE  SubSeq(full, n + 1, m) \o new = SubSeq(full, n + 1, l)
    <3>1. n + 1 \in 1..(Len(full) + 1) /\ m \in ((n + 1) - 1)..Len(full) /\ l \in m..Len(full)
      <4> HIDE DEF new
      <4>1. m \in 0..l /\ l \in Nat
        BY <1>4
      <4>2. n + 1 \in 1..(l + 1) /\ m \in ((n + 1) - 1)..l /\ l \in m..l
        <5> HIDE DEF l
        <5> QED BY <4>1
      <4> QED BY <4>2
    <3> QED BY <3>1, <2>2, <1>4, ConcatAdjacentSubSeq
  <2> HIDE DEF l, new
  <2> QED BY <2>3, <2>4, <2>5, <1>4
<1> HIDE DEF new, l
<1>7. idle' => state = "open" /\ full = << >>
  <2>1. CASE send
    BY <2>1, <1>5, Zenon
  <2>2. CASE ~send
    <3>1. idle => state = "open" /\ new = << >> /\ m = 0
      BY <2>2
    <3>2. idle => state = "open" /\ full = << >>
      BY <3>1, <1>4, <1>6
    <3> QED BY <3>2, <2>2, <1>5, Zenon
  <2> QED BY <2>1, <2>2
<1>8. idle' \in BOOLEAN
  BY <1>5, Zenon
<1>9. up' \in Seq(Batches \cup Shakes)
  <2>1. new \in Seq(Batches \cup Shakes)
    BY <1>6, SeqMonotonic
  <2> QED BY <2>1, <1>5, ConcatProperties
<1>10. ~(state = "open" /\ shaken) => up' = up
  BY <1>5
<1>11. ASSUME NEW n \in 0..m, state = "open", shaken, up = SubSeq(q, n + 1, m)
       PROVE  up' = SubSeq(pipeline', n + 1, Len(pipeline'))
  <2>1. SubSeq(q, n + 1, m) = SubSeq(full, n + 1, m)
    <3>1. \A i \in (n + 1)..m : q[i] \in Batches /\ full[i] \in Batches /\ full[i] = q[i]
      BY <1>2, <1>4
    <3> DEFINE a == SubSeq(q, n + 1, m)
               b == SubSeq(full, n + 1, m)
    <3>2. /\ a \in Seq(Batches)
          /\ Len(a) = IF n + 1 <= m THEN m - (n + 1) + 1 ELSE 0
          /\ \A i \in 1..(m - (n + 1) + 1) : a[i] = q[(n + 1) + i - 1]
      BY <3>1, SubSeqProperties
    <3>3. /\ b \in Seq(Batches)
          /\ Len(b) = IF n + 1 <= m THEN m - (n + 1) + 1 ELSE 0
          /\ \A i \in 1..(m - (n + 1) + 1) : b[i] = full[(n + 1) + i - 1]
      BY <3>1, SubSeqProperties
    <3> HIDE DEF a, b
    <3>4. \A i \in 1..Len(a) : a[i] = b[i]
      BY <3>1, <3>2, <3>3
    <3>5. a = b
      BY <3>2, <3>3, <3>4, SeqEqual
    <3> QED BY <3>5 DEF a, b
  <2>2. up' = up \o new
    <3>1. CASE new # << >>
      BY <3>1, <1>11, <1>5
    <3>2. CASE new = << >>
      <4>1. up' = up
        BY <3>2, <1>5
      <4>2. up \o << >> = up
        BY ConcatEmptySeq
      <4> QED BY <4>1, <4>2, <3>2
    <3> QED BY <3>1, <3>2
  <2> QED BY <2>1, <2>2, <1>5, <1>6, <1>11 DEF l
<1>12. stream' \in Streams /\ (stream' = "open" <=> state = "open")
  <2>1. \A s \in Streams : Started(s) = "open" <=> s = "open"
    BY DEF Started, Streams
  <2> QED BY <2>1, <1>5, StartedStream
<1> QED BY <1>1, <1>5, <1>7, <1>8, <1>9, <1>10, <1>11, <1>12

LEMMA SubSeqsAgree ==
    ASSUME NEW s \in Seq(Batches), NEW t \in Seq(Batches),
           NEW i \in Nat \ {0}, NEW j \in Nat, j <= Len(s), j <= Len(t),
           \A k \in i..j : s[k] = t[k]
    PROVE  SubSeq(s, i, j) = SubSeq(t, i, j)
<1> DEFINE a == SubSeq(s, i, j)
           b == SubSeq(t, i, j)
<1>1. \A k \in i..j : s[k] \in Batches /\ t[k] \in Batches
  BY QueueFacts
<1>2. /\ a \in Seq(Batches)
      /\ Len(a) = IF i <= j THEN j - i + 1 ELSE 0
      /\ \A k \in 1..(j - i + 1) : a[k] = s[i + k - 1]
  BY <1>1, SubSeqProperties
<1>3. /\ b \in Seq(Batches)
      /\ Len(b) = IF i <= j THEN j - i + 1 ELSE 0
      /\ \A k \in 1..(j - i + 1) : b[k] = t[i + k - 1]
  BY <1>1, SubSeqProperties
<1> HIDE DEF a, b
<1>4. \A k \in 1..Len(a) : a[k] = b[k]
  BY <1>2, <1>3
<1>5. a = b
  BY <1>2, <1>3, <1>4, SeqEqual
<1> QED BY <1>5 DEF a, b

LEMMA WriteMutationsKeepsInv == ASSUME Inv, WriteMutations PROVE Inv'
<1> USE DEF Inv
<1> DEFINE batch == [id |-> nextId, write |-> made + 1]
           q == queue[user]
           added == Append(q, batch)
           m == Len(pipeline)
<1>1. CallTypeOK /\ QueueTypeOK
  BY TypeParts
<1>2. /\ made < MaxWrites /\ made' = made + 1
      /\ bad' \in {bad, bad \cup {made + 1}}
      /\ queue' = [queue EXCEPT ![user] = added]
      /\ callbacks' = [callbacks EXCEPT ![user] = @ \cup {batch}]
      /\ FillWritePipeline(added, pipeline, stream)
      /\ nextId' = nextId + 1
      /\ UNCHANGED <<user, shaken, down, ended, posted, applied, value, told,
                     switches, breaks>>
  BY DEF WriteMutations, server
<1>3. /\ made \in Nat /\ made + 1 \in Writes /\ nextId \in Writes
      /\ nextId \in 1..(made + 1)
  <2>1. nextId \in 1..(made + 1) /\ made \in 0..MaxWrites
    BY <1>1, NextIdFacts DEF QueueTypeOK
  <2> QED BY <2>1, <1>2, BoundsAssumption DEF Writes
<1>4. batch \in Batches /\ batch.id = nextId /\ batch.write = made + 1
  BY <1>3 DEF Batches
<1> HIDE DEF batch
<1>5. /\ q \in Seq(Batches) /\ Len(q) \in Nat /\ DOMAIN q = 1..Len(q)
      /\ \A i \in 1..Len(q) : q[i] \in Batches /\ q[i].id \in Nat /\ q[i].write \in Nat
      /\ user \in Users
  BY OpenQueueFacts, QueueFacts
<1>6. /\ added \in Seq(Batches) /\ added # << >>
      /\ Len(added) = Len(q) + 1
      /\ DOMAIN added = 1..(Len(q) + 1)
      /\ \A i \in 1..Len(q) : added[i] = q[i]
      /\ added[Len(q) + 1] = batch
  <2>1. /\ added \in Seq(Batches) /\ added # << >>
        /\ Len(added) = Len(q) + 1
        /\ \A i \in 1..Len(q) : added[i] = q[i]
        /\ added[Len(q) + 1] = batch
    BY <1>4, <1>5, AppendProperties
  <2>2. DOMAIN added = 1..Len(added)
    BY <2>1, LenProperties
  <2> QED BY <2>1, <2>2
<1> HIDE DEF added
<1>7. \A i \in DOMAIN q : q[i].id < nextId /\ q[i].write <= made
  BY <1>5 DEF IdsOK, QueuedOnce
<1>8. /\ Ascending(added)
      /\ \A i, j \in DOMAIN added : i < j => added[i].write < added[j].write
  <2> SUFFICES ASSUME NEW i \in DOMAIN added, NEW j \in DOMAIN added, i < j
               PROVE  added[i].id < added[j].id /\ added[i].write < added[j].write
    BY DEF Ascending
  <2>1. i \in DOMAIN q /\ added[i] = q[i]
    BY <1>5, <1>6
  <2>2. CASE j = Len(q) + 1
    BY <2>1, <2>2, <1>3, <1>4, <1>5, <1>6, <1>7
  <2>3. CASE j # Len(q) + 1
    <3>1. j \in DOMAIN q /\ added[j] = q[j]
      BY <2>3, <1>5, <1>6
    <3> QED BY <2>1, <3>1, <1>5 DEF IdsOK, Ascending, QueuedOnce
  <2> QED BY <2>2, <2>3
<1>9. /\ m \in 0..Len(added) /\ m <= PipelineSize
      /\ m \in 0..Len(q)
      /\ pipeline \in Seq(Batches)
      /\ \A i \in 1..m : pipeline[i] = added[i]
  BY <1>5, <1>6, OpenQueueFacts
<1>10. pipeline = SubSeq(added, 1, m)
  <2>1. SubSeq(pipeline, 1, m) = SubSeq(added, 1, m)
    BY <1>6, <1>9, SubSeqsAgree
  <2> QED BY <2>1, <1>9, SubSeqFull
<1>11. shaken \in BOOLEAN /\ idle \in BOOLEAN /\ stream \in Streams /\ up \in Seq(Batches \cup Shakes)
  BY <1>1, Zenon DEF CallTypeOK
<1>12. idle => stream = "open" /\ shaken /\ m = 0
  BY <1>9, SeqFacts DEF CallOK
<1> HIDE DEF m
<1>13. /\ pipeline' = HeadOf(added)
       /\ stream' \in Streams
       /\ stream' = "open" <=> stream = "open"
       /\ up' \in Seq(Batches \cup Shakes)
       /\ idle' \in BOOLEAN
       /\ idle' => stream = "open" /\ pipeline' = << >>
       /\ ~(stream = "open" /\ shaken) => up' = up
       /\ \A n \in 0..m :
             stream = "open" /\ shaken /\ up = SubSeq(added, n + 1, m) =>
                 up' = SubSeq(pipeline', n + 1, Len(pipeline'))
  <2>1. FillWritePipeline(added, SubSeq(added, 1, m), stream)
    BY <1>2, <1>10
  <2> QED BY <2>1, <1>6, <1>8, <1>9, <1>11, <1>12, FillsPipeline
<1>14. /\ pipeline' \in Seq(Batches) /\ Len(pipeline') \in m..Len(added)
       /\ \A i \in 1..m : pipeline'[i] = pipeline[i]
       /\ pipeline' # << >>
  <2>1. /\ pipeline' \in Seq(Batches) /\ Len(pipeline') \in 0..Len(added)
        /\ \A i \in 1..Len(pipeline') : pipeline'[i] = added[i]
        /\ pipeline' # << >>
    BY <1>6, <1>13, HeadOfFacts
  <2>2. Len(pipeline') = Least(Len(added), PipelineSize)
    BY <1>6, <1>13, HeadOfLength
  <2>3. Len(pipeline') \in m..Len(added)
    BY <2>2, <1>5, <1>6, <1>9, PipelineSizeAssumption DEF Least
  <2> QED BY <2>1, <2>3, <1>9
<1>15. QueueTypeOK'
  <2>1. queue' \in [Users -> Seq(Batches)] /\ callbacks' \in [Users -> SUBSET Batches]
    BY <1>1, <1>2, <1>4, <1>6 DEF QueueTypeOK
  <2>2. nextId' \in 1..(MaxWrites + 1) /\ made' \in 0..MaxWrites
    BY <1>2, <1>3, BoundsAssumption DEF Writes
  <2>3. bad' \subseteq Writes
    BY <1>1, <1>2, <1>3 DEF QueueTypeOK
  <2> QED BY <2>1, <2>2, <2>3, <1>1, <1>2, <1>14 DEF QueueTypeOK
<1>16. CallTypeOK'
  BY <1>1, <1>2, <1>13, Zenon DEF CallTypeOK
<1>17. TypeOK'
  BY <1>15, <1>16, TypePartsNext
<1>18. /\ queue'[user] = added
       /\ \A u \in Users : u # user => queue'[u] = queue[u]
       /\ callbacks'[user] = callbacks[user] \cup {batch}
       /\ \A u \in Users : u # user => callbacks'[u] = callbacks[u]
  BY <1>1, <1>2 DEF QueueTypeOK
<1>19. ASSUME NEW u \in Users, NEW i \in DOMAIN queue'[u]
       PROVE  \/ i \in DOMAIN queue[u] /\ queue'[u][i] = queue[u][i]
              \/ u = user /\ i = Len(q) + 1 /\ queue'[u][i] = batch
  <2>1. CASE u # user
    BY <2>1, <1>18
  <2>2. CASE u = user
    BY <2>2, <1>5, <1>6, <1>18
  <2> QED BY <2>1, <2>2
<1>20. ASSUME NEW u \in Users, NEW i \in DOMAIN queue[u]
       PROVE  /\ queue[u][i].id \in Nat /\ queue[u][i].write \in Nat
              /\ queue[u][i].id < nextId /\ queue[u][i].write <= made
  <2>1. queue[u] \in Seq(Batches)
    BY <1>1 DEF QueueTypeOK
  <2> QED BY <2>1, QueueFacts DEF IdsOK, QueuedOnce
<1>21. \A u \in Users : Elements(queue[u]) \subseteq Elements(queue'[u])
  <2> SUFFICES ASSUME NEW u \in Users, NEW i \in DOMAIN queue[u]
               PROVE  \E j \in DOMAIN queue'[u] : queue'[u][j] = queue[u][i]
    BY DEF Elements
  <2>1. CASE u # user
    BY <2>1, <1>18
  <2>2. CASE u = user
    BY <2>2, <1>5, <1>6, <1>18
  <2> QED BY <2>1, <2>2
<1>22. IdsOK'
  <2>1. nextId' <= made' + 1
    BY <1>2, <1>3
  <2>2. \A u \in Users : Ascending(queue'[u])
    BY <1>8, <1>18 DEF IdsOK
  <2>3. \A u \in Users : \A i \in DOMAIN queue'[u] : queue'[u][i].id < nextId'
    BY <1>2, <1>3, <1>4, <1>19, <1>20
  <2>4. ASSUME NEW u \in Users, NEW v \in Users,
               NEW i \in DOMAIN queue'[u], NEW j \in DOMAIN queue'[v],
               queue'[u][i].id = queue'[v][j].id
        PROVE  u = v /\ i = j
    <3>1. CASE i \in DOMAIN queue[u] /\ queue'[u][i] = queue[u][i]
      <4>1. CASE j \in DOMAIN queue[v] /\ queue'[v][j] = queue[v][j]
        BY <2>4, <3>1, <4>1 DEF IdsOK, CallbacksQueued
      <4>2. CASE queue'[v][j] = batch
        BY <2>4, <3>1, <4>2, <1>3, <1>4, <1>20
      <4> QED BY <4>1, <4>2, <1>19
    <3>2. CASE u = user /\ i = Len(q) + 1 /\ queue'[u][i] = batch
      <4>1. CASE j \in DOMAIN queue[v] /\ queue'[v][j] = queue[v][j]
        BY <2>4, <3>2, <4>1, <1>3, <1>4, <1>20
      <4>2. CASE v = user /\ j = Len(q) + 1
        BY <3>2, <4>2
      <4> QED BY <4>1, <4>2, <1>19
    <3> QED BY <3>1, <3>2, <1>19
  <2>5. ASSUME NEW u \in Users, NEW c \in callbacks'[u]
        PROVE  c \in Elements(queue'[u])
    <3>1. CASE c \in callbacks[u]
      BY <3>1, <1>21 DEF IdsOK, CallbacksQueued
    <3>2. CASE u = user /\ c = batch
      <4>1. Len(q) + 1 \in DOMAIN queue'[u] /\ queue'[u][Len(q) + 1] = batch
        BY <3>2, <1>5, <1>6, <1>18
      <4> QED BY <4>1, <3>2 DEF Elements
    <3> QED BY <3>1, <3>2, <1>18
  <2>6. CallbacksQueued'
    BY <2>4, <2>5 DEF CallbacksQueued, Elements
  <2> QED BY <2>1, <2>2, <2>3, <2>6 DEF IdsOK, Ascending
<1>23. QueuedOnce'
  <2>1. \A u \in Users : \A i \in DOMAIN queue'[u] : queue'[u][i].write <= made'
    BY <1>2, <1>3, <1>4, <1>19, <1>20
  <2>2. \A u \in Users : \A i, j \in DOMAIN queue'[u] :
           i < j => queue'[u][i].write < queue'[u][j].write
    BY <1>8, <1>18 DEF QueuedOnce
  <2>3. ASSUME NEW u \in Users, NEW v \in Users, u # v,
               NEW i \in DOMAIN queue'[u], NEW j \in DOMAIN queue'[v]
        PROVE  queue'[u][i].write # queue'[v][j].write
    <3>1. CASE i \in DOMAIN queue[u] /\ queue'[u][i] = queue[u][i]
      <4>1. CASE j \in DOMAIN queue[v] /\ queue'[v][j] = queue[v][j]
        BY <2>3, <3>1, <4>1 DEF QueuedOnce
      <4>2. CASE queue'[v][j] = batch
        BY <3>1, <4>2, <1>3, <1>4, <1>20
      <4> QED BY <4>1, <4>2, <1>19
    <3>2. CASE u = user /\ queue'[u][i] = batch
      <4>1. j \in DOMAIN queue[v] /\ queue'[v][j] = queue[v][j]
        BY <3>2, <2>3, <1>19
      <4> QED BY <3>2, <4>1, <1>3, <1>4, <1>20
    <3> QED BY <3>1, <3>2, <1>19
  <2> QED BY <2>1, <2>2, <2>3 DEF QueuedOnce
<1>24. NotTold'
  <2>1. ASSUME NEW u \in Users, NEW c \in callbacks'[u]
        PROVE  told[c.write] = "none"
    <3>1. CASE c \in callbacks[u]
      BY <3>1 DEF NotTold
    <3>2. CASE c = batch
      BY <3>2, <1>3, <1>4 DEF NotTold
    <3> QED BY <3>1, <3>2, <1>18
  <2>2. ASSUME NEW w \in Writes, w > made + 1
        PROVE  told[w] = "none"
    <3>1. w > made
      BY <2>2, <1>3, BoundsAssumption DEF Writes
    <3> QED BY <3>1 DEF NotTold
  <2> QED BY <2>1, <2>2, <1>2 DEF NotTold
<1>25. AppliedOK'
  <2> SUFFICES ASSUME NEW u \in Users, NEW w \in applied[u]
               PROVE  /\ w \notin bad'
                      /\ w <= made'
                      /\ \/ \E b \in Elements(queue'[u]) : b.write = w
                         \/ \A b \in Elements(queue'[u]) : w < b.write
    BY <1>2 DEF AppliedOK, Elements
  <2>1. /\ w \notin bad
        /\ w <= made
        /\ \/ \E b \in Elements(queue[u]) : b.write = w
           \/ \A b \in Elements(queue[u]) : w < b.write
    BY DEF AppliedOK
  <2>2. w \in Nat
    BY <1>1, BoundsAssumption DEF QueueTypeOK, Writes
  <2>3. w \notin bad' /\ w <= made' /\ w < made + 1
    BY <2>1, <2>2, <1>2, <1>3
  <2>4. CASE \A b \in Elements(queue[u]) : w < b.write
    <3> SUFFICES ASSUME NEW i \in DOMAIN queue'[u]
                 PROVE  w < queue'[u][i].write
      BY <2>3 DEF Elements
    <3>1. CASE i \in DOMAIN queue[u] /\ queue'[u][i] = queue[u][i]
      BY <2>4, <3>1 DEF Elements
    <3>2. CASE queue'[u][i] = batch
      BY <2>3, <3>2, <1>4
    <3> QED BY <3>1, <3>2, <1>19
  <2> QED BY <2>1, <2>3, <2>4, <1>21
<1>26. CallOK'
  BY <1>2, <1>13, <1>14 DEF CallOK, Reading
<1>27. AnswersOK'
  <2> SUFFICES ASSUME shaken PROVE AnswersOK'
    BY <1>2 DEF AnswersOK
  <2>1. stream = "open"
    BY DEF CallOK
  <2>2. /\ Len(down) <= m
        /\ \A i \in 1..Len(down) :
              /\ down[i] = pipeline[i]
              /\ pipeline[i].write \in applied[user]
              /\ pipeline[i].write <= value[user]
        /\ ended = "no" => up = SubSeq(pipeline, Len(down) + 1, m)
        /\ ended = "denied" => /\ Len(down) < m
                               /\ pipeline[Len(down) + 1].write \in bad
    BY DEF AnswersOK, m
  <2>3. Len(down) \in 0..m /\ m \in Nat
    <3>1. down \in Seq(Batches \cup Shakes)
      BY <1>1 DEF CallTypeOK
    <3>2. Len(down) \in Nat
      BY <3>1, SeqFacts
    <3>3. m \in Nat
      BY <1>5, <1>9
    <3> QED BY <3>2, <3>3, <2>2
  <2>4. Len(down) <= Len(pipeline') /\ (Len(down) < m => Len(down) < Len(pipeline'))
    BY <2>2, <2>3, <1>9, <1>14
  <2>5. ASSUME ended = "no"
        PROVE  up' = SubSeq(pipeline', Len(down) + 1, Len(pipeline'))
    <3>1. SubSeq(pipeline, Len(down) + 1, m) = SubSeq(added, Len(down) + 1, m)
      <4>1. \A k \in (Len(down) + 1)..m : pipeline[k] = added[k]
        BY <2>3, <1>9
      <4>2. m \in Nat /\ Len(down) + 1 \in Nat \ {0} /\ m <= Len(added) /\ m <= Len(pipeline)
        BY <2>3, <1>9 DEF m
      <4> QED BY <4>1, <4>2, <1>6, <1>9, SubSeqsAgree
    <3> QED BY <3>1, <2>1, <2>2, <2>3, <2>5, <1>13
  <2>6. \A i \in 1..Len(down) : i \in 1..m
    BY <2>3
  <2>7. Len(down) < m => Len(down) + 1 \in 1..m
    BY <2>3
  <2>8. \A i \in 1..Len(down) :
            /\ down[i] = pipeline'[i]
            /\ pipeline'[i].write \in applied[user]
            /\ pipeline'[i].write <= value[user]
    BY <2>2, <2>6, <1>14
  <2>9. ended = "denied" => /\ Len(down) < Len(pipeline')
                            /\ pipeline'[Len(down) + 1].write \in bad'
    BY <2>2, <2>4, <2>7, <1>2, <1>14
  <2> QED BY <2>4, <2>5, <2>8, <2>9, <1>2, Zenon DEF AnswersOK
<1>28. PipelineOK'
  BY <1>2, <1>13, <1>18 DEF PipelineOK, HeadOf
<1>29. ServerCatchesUp'
  BY <1>2, <1>21 DEF ServerCatchesUp
<1> QED BY <1>17, <1>22, <1>23, <1>24, <1>25, <1>26, <1>27, <1>28, <1>29

\* Who hears the answer to the head of the queue: its callback, if there is one.
LEMMA HeadHears ==
    ASSUME Inv, NEW b \in Elements(queue[user]), NEW answer \in Answers,
           NotifyUser(b, answer)
    PROVE  /\ \/ told' = told
              \/ /\ told[b.write] = "none"
                 /\ told' = [told EXCEPT ![b.write] = answer]
           /\ \A u \in Users : callbacks'[u] \subseteq callbacks[u] \ {b}
           /\ callbacks' \in [Users -> SUBSET Batches]
           /\ told' \in [Writes -> Answers]
           /\ \A w \in Writes : w # b.write => told'[w] = told[w]
           /\ b.write \in Writes /\ b.write <= made
<1> USE DEF Inv
<1> DEFINE found == {c \in callbacks[user] : c.id = b.id}
<1>1. QueueTypeOK
  BY TypeParts
<1>2. PICK i \in DOMAIN queue[user] : b = queue[user][i]
  BY DEF Elements
<1>3. user \in Users /\ b \in Batches /\ b.write \in Writes /\ b.write <= made
  <2>1. user \in Users /\ b \in Batches /\ b.write \in Writes
    BY <1>2, OpenQueueFacts, QueueFacts
  <2> QED BY <2>1, <1>2 DEF QueuedOnce
<1>4. \A c \in callbacks[user] : c.id = b.id => c = b
  <2> SUFFICES ASSUME NEW c \in callbacks[user], c.id = b.id
               PROVE  c = b
    OBVIOUS
  <2>1. PICK j \in DOMAIN queue[user] : c = queue[user][j]
    BY <1>3 DEF IdsOK, CallbacksQueued, Elements
  <2> QED BY <2>1, <1>2, <1>3 DEF IdsOK, CallbacksQueued
<1>5. /\ told' = [w \in Writes |-> IF \E c \in found : c.write = w THEN answer ELSE told[w]]
      /\ callbacks' = [callbacks EXCEPT ![user] = @ \ found]
  BY DEF NotifyUser
<1>6. found \subseteq {b} /\ (b \in callbacks[user] => found = {b})
  BY <1>4
<1>7. told' \in [Writes -> Answers]
  BY <1>1, <1>5 DEF QueueTypeOK
<1>8. callbacks' \in [Users -> SUBSET Batches]
  BY <1>1, <1>3, <1>5 DEF QueueTypeOK
<1>9. \A w \in Writes : w # b.write => told'[w] = told[w]
  BY <1>5, <1>6
<1>10. \A u \in Users : callbacks'[u] \subseteq callbacks[u] \ {b}
  <2>1. b \notin callbacks'[user] /\ callbacks'[user] \subseteq callbacks[user]
    BY <1>1, <1>3, <1>5, <1>6 DEF QueueTypeOK
  <2>2. ASSUME NEW u \in Users, u # user
        PROVE  callbacks'[u] = callbacks[u] /\ b \notin callbacks[u]
    <3>1. callbacks'[u] = callbacks[u]
      BY <2>2, <1>1, <1>5 DEF QueueTypeOK
    <3>2. ASSUME b \in callbacks[u] PROVE FALSE
      <4>1. PICK j \in DOMAIN queue[u] : b = queue[u][j]
        BY <3>2 DEF IdsOK, CallbacksQueued, Elements
      <4> QED BY <4>1, <2>2, <1>2, <1>3 DEF IdsOK, CallbacksQueued
    <3> QED BY <3>1, <3>2
  <2> QED BY <2>1, <2>2
<1>11. CASE b \in callbacks[user]
  <2>1. found = {b} /\ told[b.write] = "none"
    BY <1>3, <1>6, <1>11 DEF NotTold
  <2>2. \A w \in Writes : told'[w] = IF w = b.write THEN answer ELSE told[w]
    BY <2>1, <1>5
  <2>3. told' = [told EXCEPT ![b.write] = answer]
    BY <2>2, <1>1, <1>7 DEF QueueTypeOK
  <2> QED BY <2>1, <2>3, <1>3, <1>7, <1>8, <1>9, <1>10
<1>12. CASE b \notin callbacks[user]
  <2>1. found = {}
    BY <1>6, <1>12
  <2>2. \A w \in Writes : told'[w] = told[w]
    BY <2>1, <1>5
  <2>3. told' = told
    BY <2>2, <1>1, <1>7 DEF QueueTypeOK
  <2> QED BY <2>3, <1>3, <1>7, <1>8, <1>9, <1>10
<1> QED BY <1>11, <1>12

LEMMA PipelineHead ==
    ASSUME Inv, pipeline # << >>
    PROVE  /\ queue[user] # << >>
           /\ Len(pipeline) \in Nat /\ Len(pipeline) > 0
           /\ Head(pipeline) = pipeline[1]
           /\ Head(pipeline) = Head(queue[user])
           /\ Head(queue[user]) = queue[user][1]
           /\ 1 \in DOMAIN queue[user]
           /\ Head(pipeline) \in Elements(queue[user])
           /\ Without(queue[user], Head(pipeline)) = Tail(queue[user])
<1> DEFINE q == queue[user]
<1>1. /\ q \in Seq(Batches) /\ Ascending(q) /\ q # << >>
      /\ Len(pipeline) \in Nat /\ Len(pipeline) > 0
      /\ pipeline[1] = q[1]
      /\ 1 \in DOMAIN q
  <2>1. /\ q \in Seq(Batches) /\ Ascending(q) /\ q # << >>
        /\ pipeline \in Seq(Batches)
        /\ Len(pipeline) \in 0..Len(q)
        /\ \A i \in 1..Len(pipeline) : pipeline[i] = q[i]
    BY OpenQueueFacts
  <2>2. Len(pipeline) \in Nat /\ Len(pipeline) > 0
    BY <2>1, SeqFacts
  <2>3. DOMAIN q = 1..Len(q) /\ Len(q) \in Nat
    BY <2>1, SeqFacts
  <2> QED BY <2>1, <2>2, <2>3
<1>2. Head(pipeline) = pipeline[1] /\ Head(q) = q[1]
  OBVIOUS
<1>3. Without(q, Head(q)) = Tail(q)
  BY <1>1, WithoutHead
<1>4. Head(pipeline) \in Elements(q)
  BY <1>1, <1>2 DEF Elements
<1> QED BY <1>1, <1>2, <1>3, <1>4

LEMMA HeadLeaves ==
    ASSUME Inv, pipeline # << >>, NEW answer \in Answers,
           NotifyUser(Head(pipeline), answer),
           queue' = [queue EXCEPT ![user] = Without(queue[user], Head(pipeline))],
           UNCHANGED <<user, nextId, made, bad, applied, value>>,
           Head(pipeline).write \in applied[user] =>
               Head(pipeline).write <= value[user]
    PROVE  /\ queue' \in [Users -> Seq(Batches)]
           /\ callbacks' \in [Users -> SUBSET Batches]
           /\ told' \in [Writes -> Answers]
           /\ queue'[user] = Tail(queue[user])
           /\ Ascending(queue'[user])
           /\ IdsOK' /\ QueuedOnce' /\ NotTold' /\ AppliedOK' /\ ServerCatchesUp'
<1> USE DEF Inv
<1> DEFINE q == queue[user]
           b == Head(pipeline)
<1>1. QueueTypeOK
  BY TypeParts
<1>2. /\ q \in Seq(Batches) /\ Ascending(q) /\ q # << >> /\ user \in Users
      /\ Len(q) \in Nat /\ DOMAIN q = 1..Len(q) /\ 1 \in DOMAIN q
      /\ b = q[1] /\ b \in Elements(q)
      /\ Without(q, b) = Tail(q)
  BY PipelineHead, OpenQueueFacts, QueueFacts
<1>3. /\ Tail(q) \in Seq(Batches)
      /\ DOMAIN Tail(q) = 1..(Len(q) - 1)
      /\ \A i \in 1..(Len(q) - 1) : Tail(q)[i] = q[i + 1]
  <2>1. /\ Tail(q) \in Seq(Batches)
        /\ Len(Tail(q)) = Len(q) - 1
        /\ \A i \in 1..Len(Tail(q)) : Tail(q)[i] = q[i + 1]
    BY <1>2, HeadTailProperties
  <2> QED BY <2>1, LenProperties
<1>4. /\ \/ told' = told
         \/ /\ told[b.write] = "none"
            /\ told' = [told EXCEPT ![b.write] = answer]
      /\ \A u \in Users : callbacks'[u] \subseteq callbacks[u] \ {b}
      /\ callbacks' \in [Users -> SUBSET Batches]
      /\ told' \in [Writes -> Answers]
      /\ \A w \in Writes : w # b.write => told'[w] = told[w]
      /\ b.write \in Writes /\ b.write <= made
  <2>1. b \in Elements(queue[user]) /\ NotifyUser(b, answer)
    BY <1>2
  <2> HIDE DEF b
  <2> QED BY <2>1, HeadHears
<1> HIDE DEF b
<1>5. /\ queue' \in [Users -> Seq(Batches)]
      /\ queue'[user] = Tail(q)
      /\ \A u \in Users : u # user => queue'[u] = queue[u]
  <2>1. queue' = [queue EXCEPT ![user] = Tail(q)]
    BY <1>2 DEF b
  <2> QED BY <2>1, <1>1, <1>2, <1>3 DEF QueueTypeOK
<1> DEFINE old(u, i) == IF u = user THEN i + 1 ELSE i
<1>6. ASSUME NEW u \in Users, NEW i \in DOMAIN queue'[u]
      PROVE  old(u, i) \in DOMAIN queue[u] /\ queue'[u][i] = queue[u][old(u, i)]
  <2>1. CASE u = user
    <3>1. i \in 1..(Len(q) - 1) /\ i + 1 \in 1..Len(q)
      BY <2>1, <1>2, <1>3, <1>5
    <3> QED BY <3>1, <2>1, <1>2, <1>3, <1>5
  <2>2. CASE u # user
    BY <2>2, <1>5
  <2> QED BY <2>1, <2>2
<1>7. \A u \in Users : \A i \in DOMAIN queue'[u] : i \in Nat
  <2> SUFFICES ASSUME NEW u \in Users PROVE \A i \in DOMAIN queue'[u] : i \in Nat
    OBVIOUS
  <2>1. queue'[u] \in Seq(Batches)
    BY <1>5
  <2>2. DOMAIN queue'[u] = 1..Len(queue'[u]) /\ Len(queue'[u]) \in Nat
    BY <2>1, SeqFacts
  <2> QED BY <2>2
<1>8. \A u \in Users : Elements(queue[u]) \subseteq Elements(queue'[u]) \cup {b}
  <2> SUFFICES ASSUME NEW u \in Users, NEW i \in DOMAIN queue[u], queue[u][i] # b
               PROVE  \E j \in DOMAIN queue'[u] : queue'[u][j] = queue[u][i]
    BY DEF Elements
  <2>1. CASE u = user
    <3>1. i \in 1..Len(q) /\ i # 1
      BY <2>1, <1>2
    <3>2. i - 1 \in 1..(Len(q) - 1) /\ (i - 1) + 1 = i
      BY <3>1, <1>2
    <3>3. i - 1 \in DOMAIN queue'[user] /\ queue'[user][i - 1] = q[(i - 1) + 1]
      BY <3>2, <1>3, <1>5
    <3> QED BY <2>1, <3>2, <3>3
  <2>2. CASE u # user
    BY <2>2, <1>5
  <2> QED BY <2>1, <2>2
<1>9. \A u \in Users : Elements(queue'[u]) \subseteq Elements(queue[u])
  BY <1>6 DEF Elements
<1>10. \A i \in DOMAIN queue'[user] : b.write < queue'[user][i].write
  <2> SUFFICES ASSUME NEW i \in DOMAIN queue'[user]
               PROVE  b.write < queue'[user][i].write
    OBVIOUS
  <2>1. i + 1 \in DOMAIN q /\ queue'[user][i] = q[i + 1] /\ i \in 1..(Len(q) - 1)
    BY <1>2, <1>3, <1>5, <1>6
  <2>2. 1 < i + 1
    BY <2>1, <1>2
  <2> QED BY <2>1, <2>2, <1>2 DEF QueuedOnce
<1>11. IdsOK'
  <2>1. \A u \in Users : Ascending(queue'[u])
    <3> SUFFICES ASSUME NEW u \in Users,
                        NEW i \in DOMAIN queue'[u], NEW j \in DOMAIN queue'[u], i < j
                 PROVE  queue'[u][i].id < queue'[u][j].id
      BY DEF Ascending
    <3>1. old(u, i) < old(u, j)
      BY <1>7
    <3> QED BY <3>1, <1>6 DEF IdsOK, Ascending
  <2>2. \A u \in Users : \A i \in DOMAIN queue'[u] : queue'[u][i].id < nextId
    BY <1>6 DEF IdsOK
  <2>3. ASSUME NEW u \in Users, NEW v \in Users,
               NEW i \in DOMAIN queue'[u], NEW j \in DOMAIN queue'[v],
               queue'[u][i].id = queue'[v][j].id
        PROVE  u = v /\ i = j
    <3>1. /\ old(u, i) \in DOMAIN queue[u] /\ old(v, j) \in DOMAIN queue[v]
          /\ queue[u][old(u, i)].id = queue[v][old(v, j)].id
      BY <2>3, <1>6
    <3>2. i \in Nat /\ j \in Nat
      BY <1>7
    <3>3. u = v /\ old(u, i) = old(v, j)
      <4> HIDE DEF old
      <4> QED BY <3>1 DEF IdsOK, CallbacksQueued
    <3> QED BY <3>2, <3>3
  <2>4. \A u \in Users : callbacks'[u] \subseteq Elements(queue'[u])
    BY <1>4, <1>8 DEF IdsOK, CallbacksQueued
  <2>5. CallbacksQueued'
    BY <2>3, <2>4 DEF CallbacksQueued, Elements
  <2> QED BY <2>1, <2>2, <2>5 DEF IdsOK, Ascending
<1>12. QueuedOnce'
  <2>1. \A u \in Users : \A i \in DOMAIN queue'[u] : queue'[u][i].write <= made
    BY <1>6 DEF QueuedOnce
  <2>2. ASSUME NEW u \in Users,
               NEW i \in DOMAIN queue'[u], NEW j \in DOMAIN queue'[u], i < j
        PROVE  queue'[u][i].write < queue'[u][j].write
    <3>1. old(u, i) < old(u, j)
      BY <2>2, <1>7
    <3> QED BY <3>1, <1>6 DEF QueuedOnce
  <2>3. ASSUME NEW u \in Users, NEW v \in Users, u # v,
               NEW i \in DOMAIN queue'[u], NEW j \in DOMAIN queue'[v]
        PROVE  queue'[u][i].write # queue'[v][j].write
    BY <2>3, <1>6 DEF QueuedOnce
  <2> QED BY <2>1, <2>2, <2>3 DEF QueuedOnce
<1>13. NotTold'
  <2>1. ASSUME NEW u \in Users, NEW c \in callbacks'[u]
        PROVE  told'[c.write] = "none"
    <3>1. c \in callbacks[u] /\ c # b
      BY <1>4
    <3>2. PICK i \in DOMAIN queue[u] : c = queue[u][i]
      BY <3>1 DEF IdsOK, CallbacksQueued, Elements
    <3>3. c.write \in Writes
      <4>1. queue[u] \in Seq(Batches)
        BY <1>1 DEF QueueTypeOK
      <4> QED BY <4>1, <3>2, QueueFacts
    <3>4. c.write # b.write
      <4>1. CASE u # user
        BY <4>1, <3>2, <1>2 DEF QueuedOnce
      <4>2. CASE u = user
        <5>1. i \in 1..Len(q) /\ i # 1
          BY <4>2, <3>1, <3>2, <1>2
        <5>2. 1 < i
          BY <5>1, <1>2
        <5>3. q[1].write < q[i].write /\ q[1].write \in Nat /\ q[i].write \in Nat
          BY <5>1, <5>2, <1>2, QueueFacts DEF QueuedOnce
        <5> QED BY <5>3, <4>2, <3>2, <1>2
      <4> QED BY <4>1, <4>2
    <3> QED BY <3>1, <3>3, <3>4, <1>4 DEF NotTold
  <2>2. ASSUME NEW w \in Writes, w > made
        PROVE  told'[w] = "none"
    <3>1. w # b.write
      BY <2>2, <1>1, <1>4, BoundsAssumption DEF QueueTypeOK, Writes
    <3> QED BY <3>1, <2>2, <1>4 DEF NotTold
  <2> QED BY <2>1, <2>2 DEF NotTold
<1>14. AppliedOK'
  <2> SUFFICES ASSUME NEW u \in Users, NEW w \in applied[u]
               PROVE  \/ \E c \in Elements(queue'[u]) : c.write = w
                      \/ \A c \in Elements(queue'[u]) : w < c.write
    BY DEF AppliedOK, Elements
  <2>1. CASE \E c \in Elements(queue[u]) : c.write = w
    <3>1. CASE w = b.write /\ u = user
      BY <3>1, <1>10 DEF Elements
    <3>2. CASE w = b.write /\ u # user
      <4>1. PICK i \in DOMAIN queue[u] : queue[u][i].write = w
        BY <2>1 DEF Elements
      <4> QED BY <4>1, <3>2, <1>2 DEF QueuedOnce
    <3>3. CASE w # b.write
      BY <3>3, <2>1, <1>8
    <3> QED BY <3>1, <3>2, <3>3
  <2>2. CASE \A c \in Elements(queue[u]) : w < c.write
    BY <2>2, <1>9
  <2> QED BY <2>1, <2>2 DEF AppliedOK
<1>15. ServerCatchesUp'
  <2> SUFFICES ASSUME NEW u \in Users, NEW w \in applied[u], w > value[u]
               PROVE  \E c \in Elements(queue'[u]) : c.write = w
    BY DEF ServerCatchesUp, Elements
  <2>1. PICK c \in Elements(queue[u]) : c.write = w
    BY DEF ServerCatchesUp
  <2>2. c # b
    <3> SUFFICES ASSUME c = b PROVE FALSE
      OBVIOUS
    <3>1. u = user
      <4>1. PICK i \in DOMAIN queue[u] : b = queue[u][i]
        BY <2>1 DEF Elements
      <4>2. 1 \in DOMAIN queue[user] /\ queue[u][i].id = queue[user][1].id
        BY <4>1, <1>2
      <4> QED BY <4>2, <1>2 DEF IdsOK, CallbacksQueued
    <3>2. w <= value[user]
      BY <2>1, <3>1 DEF b
    <3>3. w \in Nat /\ value[user] \in Nat
      BY <1>1, <1>2, BoundsAssumption DEF QueueTypeOK, Writes
    <3> QED BY <3>1, <3>2, <3>3
  <2> QED BY <2>1, <2>2, <1>8
<1>16. Ascending(queue'[user])
  BY <1>2, <1>11 DEF IdsOK, Ascending
<1> QED BY <1>4, <1>5, <1>11, <1>12, <1>13, <1>14, <1>15, <1>16

LEMMA MutationResultKeepsInv == ASSUME Inv, MutationResult PROVE Inv'
<1> USE DEF Inv
<1> DEFINE q == queue[user]
           rest == Tail(q)
           p == Len(pipeline)
           d == Len(down)
           m == p - 1
<1>1. CallTypeOK /\ QueueTypeOK
  BY TypeParts
<1>2. /\ Reading /\ shaken /\ pipeline # << >>
      /\ posted' = Tail(posted) /\ down' = Tail(down)
      /\ NotifyUser(Head(pipeline), "ok")
      /\ queue' = [queue EXCEPT ![user] = Without(queue[user], Head(pipeline))]
      /\ FillWritePipeline(Without(queue[user], Head(pipeline)), Tail(pipeline), stream)
      /\ UNCHANGED <<user, nextId, shaken, made, bad, ended, applied, value,
                     switches, breaks>>
  BY DEF MutationResult, server
<1>3. /\ stream = "open" /\ down # << >> /\ ~idle
      /\ d <= p
      /\ \A i \in 1..d : /\ down[i] = pipeline[i]
                         /\ pipeline[i].write \in applied[user]
                         /\ pipeline[i].write <= value[user]
      /\ ended = "no" => up = SubSeq(pipeline, d + 1, p)
      /\ ended = "denied" => d < p /\ pipeline[d + 1].write \in bad
  BY <1>2 DEF CallOK, AnswersOK
<1>4. /\ down \in Seq(Batches \cup Shakes) /\ d \in Nat /\ d > 0
      /\ down' \in Seq(Batches \cup Shakes) /\ Len(down') = d - 1
      /\ \A i \in 1..(d - 1) : down'[i] = down[i + 1]
  BY <1>1, <1>2, <1>3, SeqFacts, HeadTailProperties DEF CallTypeOK
<1>5. /\ q \in Seq(Batches) /\ q # << >> /\ Len(q) \in Nat
      /\ pipeline \in Seq(Batches) /\ p \in 1..Len(q) /\ p <= PipelineSize
      /\ pipeline = SubSeq(q, 1, p)
      /\ \A i \in 1..p : pipeline[i] = q[i]
      /\ user \in Users
      /\ Without(queue[user], Head(pipeline)) = rest
      /\ Head(pipeline) = pipeline[1]
  BY <1>2, OpenQueueFacts, PipelineHead
<1> HIDE DEF p, d
<1>6. /\ queue' \in [Users -> Seq(Batches)]
      /\ callbacks' \in [Users -> SUBSET Batches]
      /\ told' \in [Writes -> Answers]
      /\ queue'[user] = rest
      /\ Ascending(rest)
      /\ IdsOK' /\ QueuedOnce' /\ NotTold' /\ AppliedOK' /\ ServerCatchesUp'
  <2>1. Head(pipeline).write <= value[user]
    BY <1>3, <1>4, <1>5
  <2>2. "ok" \in Answers
    BY DEF Answers
  <2> QED BY <2>1, <2>2, <1>2, HeadLeaves
<1>7. /\ rest \in Seq(Batches) /\ Len(rest) = Len(q) - 1
      /\ \A i \in 1..(Len(q) - 1) : rest[i] = q[i + 1]
  BY <1>5, HeadTailProperties
<1>8. /\ m \in 0..Len(rest) /\ m <= PipelineSize /\ m \in Nat
      /\ Tail(pipeline) = SubSeq(rest, 1, m)
  <2>1. m \in 0..Len(rest) /\ m <= PipelineSize /\ m \in Nat
    BY <1>5, <1>7, PipelineSizeAssumption
  <2>2. Tail(pipeline) = SubSeq(q, 2, p)
    <3>1. 1 \in 1..Len(q) /\ p \in 1..Len(q)
      BY <1>5
    <3>2. Tail(SubSeq(q, 1, p)) = SubSeq(q, 1 + 1, p)
      BY <3>1, <1>5, HeadTailOfSubSeq
    <3> QED BY <3>2, <1>5
  <2>3. SubSeq(rest, 1, m) = SubSeq(q, 1 + 1, m + 1)
    <3>1. 1 \in 1..Len(q) /\ m \in 0..(Len(q) - 1)
      BY <1>5
    <3> HIDE DEF m
    <3> QED BY <3>1, <1>5, TailShifts
  <2>4. m + 1 = p
    BY <1>5
  <2> QED BY <2>1, <2>2, <2>3, <2>4
<1> HIDE DEF m
<1>9. shaken \in BOOLEAN /\ idle \in BOOLEAN /\ stream \in Streams /\ up \in Seq(Batches \cup Shakes)
  BY <1>1, Zenon DEF CallTypeOK
<1>10. /\ pipeline' = HeadOf(rest)
       /\ stream' \in Streams
       /\ stream' = "open"
       /\ up' \in Seq(Batches \cup Shakes)
       /\ idle' \in BOOLEAN
       /\ idle' => pipeline' = << >>
       /\ \A n \in 0..m : up = SubSeq(rest, n + 1, m) =>
                             up' = SubSeq(pipeline', n + 1, Len(pipeline'))
  <2>1. FillWritePipeline(rest, SubSeq(rest, 1, m), stream)
    BY <1>2, <1>5, <1>8
  <2>2. stream = "open" /\ shaken /\ (idle => stream = "open" /\ shaken /\ m = 0)
    BY <1>2, <1>3
  <2>3. rest \in Seq(Batches) /\ Ascending(rest) /\ m \in 0..Len(rest) /\ m <= PipelineSize
    BY <1>6, <1>7, <1>8
  <2> HIDE DEF rest
  <2>4. /\ pipeline' = HeadOf(rest)
        /\ stream' \in Streams
        /\ stream' = "open" <=> stream = "open"
        /\ up' \in Seq(Batches \cup Shakes)
        /\ idle' \in BOOLEAN
        /\ idle' => stream = "open" /\ pipeline' = << >>
        /\ \A n \in 0..m :
              stream = "open" /\ shaken /\ up = SubSeq(rest, n + 1, m) =>
                  up' = SubSeq(pipeline', n + 1, Len(pipeline'))
    BY <2>1, <2>2, <2>3, <1>9, FillsPipeline
  <2> QED BY <2>2, <2>4
<1>11. /\ pipeline' \in Seq(Batches) /\ Len(pipeline') \in m..Len(rest)
       /\ \A i \in 1..Len(pipeline') : pipeline'[i] = q[i + 1]
  <2>1. /\ pipeline' \in Seq(Batches) /\ Len(pipeline') \in 0..Len(rest)
        /\ \A i \in 1..Len(pipeline') : pipeline'[i] = rest[i]
    BY <1>7, <1>10, HeadOfFacts
  <2>2. Len(pipeline') = Least(Len(rest), PipelineSize)
    BY <1>7, <1>10, HeadOfLength
  <2>3. Len(pipeline') \in m..Len(rest)
    BY <2>2, <1>5, <1>7, <1>8, PipelineSizeAssumption DEF Least
  <2>4. \A i \in 1..Len(pipeline') : i \in 1..(Len(q) - 1)
    BY <2>1, <1>5, <1>7
  <2> QED BY <2>1, <2>3, <2>4, <1>7
<1>12. QueueTypeOK'
  BY <1>1, <1>2, <1>6, <1>11 DEF QueueTypeOK
<1>13. posted' \in {<< >>, <<"failed">>}
  BY <1>1, <1>2, PostedFacts DEF CallTypeOK, Reading
<1>14. posted' \in Posts /\ ~Reading'
  BY <1>13, NotReading
<1>15. CallTypeOK'
  BY <1>1, <1>2, <1>4, <1>10, <1>14, Zenon DEF CallTypeOK
<1>16. CallOK'
  BY <1>2, <1>10, <1>14 DEF CallOK
<1>17. AnswersOK'
  <2>1. d - 1 <= Len(pipeline') /\ (d < p => d - 1 < Len(pipeline'))
    <3>1. p - 1 <= Len(pipeline') /\ Len(pipeline') \in Nat
      BY <1>5, <1>8, <1>11 DEF m
    <3> QED BY <3>1, <1>3, <1>4, <1>5
  <2>2. \A i \in 1..(d - 1) :
            /\ down'[i] = pipeline'[i]
            /\ pipeline'[i].write \in applied[user]
            /\ pipeline'[i].write <= value[user]
    <3> SUFFICES ASSUME NEW i \in 1..(d - 1)
                 PROVE  /\ down'[i] = pipeline'[i]
                        /\ pipeline'[i].write \in applied[user]
                        /\ pipeline'[i].write <= value[user]
      OBVIOUS
    <3>1. i \in 1..Len(pipeline') /\ i + 1 \in 1..d /\ i + 1 \in 1..p
      BY <2>1, <1>3, <1>4, <1>5, <1>11
    <3> QED BY <3>1, <1>3, <1>4, <1>5, <1>11
  <2>3. ASSUME ended = "no"
        PROVE  up' = SubSeq(pipeline', (d - 1) + 1, Len(pipeline'))
    <3>1. SubSeq(rest, d, m) = SubSeq(q, d + 1, m + 1)
      <4>1. d \in 1..Len(q) /\ m \in 0..(Len(q) - 1)
        BY <1>3, <1>4, <1>5, <1>7, <1>8
      <4> QED BY <4>1, <1>5, TailShifts
    <3>2. m + 1 = p /\ (d - 1) + 1 = d /\ d - 1 \in 0..m
      BY <1>3, <1>4, <1>5 DEF m
    <3>3. SubSeq(pipeline, d + 1, p) = SubSeq(q, d + 1, p)
      <4>1. \A k \in (d + 1)..p : pipeline[k] = q[k]
        BY <1>4, <1>5
      <4>2. p \in Nat /\ d + 1 \in Nat \ {0} /\ p <= Len(q) /\ p <= Len(pipeline)
        BY <1>4, <1>5 DEF p
      <4> QED BY <4>1, <4>2, <1>5, SubSeqsAgree
    <3>4. up = SubSeq(rest, (d - 1) + 1, m)
      BY <3>1, <3>2, <3>3, <2>3, <1>3
    <3> QED BY <3>2, <3>4, <1>10
  <2>4. ended = "denied" => /\ d - 1 < Len(pipeline')
                            /\ pipeline'[(d - 1) + 1].write \in bad
    <3> SUFFICES ASSUME ended = "denied"
                 PROVE  d - 1 < Len(pipeline') /\ pipeline'[(d - 1) + 1].write \in bad
      OBVIOUS
    <3>1. d < p /\ pipeline[d + 1].write \in bad
      BY <1>3
    <3>2. (d - 1) + 1 = d /\ d \in 1..Len(pipeline') /\ d + 1 \in 1..p
      BY <3>1, <2>1, <1>4, <1>5, <1>11
    <3> QED BY <3>1, <3>2, <2>1, <1>5, <1>11
  <2>5. Len(down') = d - 1
    BY <1>4
  <2> QED BY <2>1, <2>2, <2>3, <2>4, <2>5, <1>2, Zenon DEF AnswersOK
<1>18. PipelineOK'
  BY <1>2, <1>6, <1>10 DEF PipelineOK, HeadOf
<1>19. TypeOK'
  BY <1>12, <1>15, TypePartsNext
<1> QED BY <1>6, <1>16, <1>17, <1>18, <1>19

LEMMA WriteRefusedKeepsInv == ASSUME Inv, WriteRefused PROVE Inv'
<1> USE DEF Inv
<1> DEFINE q == queue[user]
           rest == Tail(q)
<1>1. CallTypeOK /\ QueueTypeOK
  BY TypeParts
<1>2. /\ ended = "denied" /\ shaken /\ pipeline # << >>
      /\ DropCall /\ up' = << >> /\ idle' = FALSE
      /\ NotifyUser(Head(pipeline), "error")
      /\ queue' = [queue EXCEPT ![user] = Without(queue[user], Head(pipeline))]
      /\ pipeline' = Refilled(Without(queue[user], Head(pipeline)), Tail(pipeline))
      /\ stream' \in {"initial", "starting"}
      /\ UNCHANGED <<user, nextId, made, bad, applied, value, switches, breaks>>
  BY DEF WriteRefused, server
<1>3. /\ q \in Seq(Batches) /\ q # << >> /\ Len(q) \in Nat
      /\ pipeline \in Seq(Batches)
      /\ Len(pipeline) \in 1..Len(q) /\ Len(pipeline) <= PipelineSize
      /\ pipeline = SubSeq(q, 1, Len(pipeline))
      /\ user \in Users
      /\ Without(queue[user], Head(pipeline)) = rest
      /\ Head(pipeline) = pipeline[1]
  BY <1>2, OpenQueueFacts, PipelineHead
<1>4. Head(pipeline).write \in applied[user] => Head(pipeline).write <= value[user]
  <2>1. /\ \A i \in 1..Len(down) : pipeline[i].write <= value[user]
        /\ pipeline[Len(down) + 1].write \in bad
    BY <1>2 DEF AnswersOK
  <2>2. down \in Seq(Batches \cup Shakes) /\ Len(down) \in Nat
    BY <1>1, SeqFacts DEF CallTypeOK
  <2>3. CASE Len(down) = 0
    <3>1. Head(pipeline).write \in bad
      BY <2>1, <2>3, <1>3
    <3> QED BY <3>1, <1>3 DEF AppliedOK
  <2>4. CASE Len(down) > 0
    BY <2>1, <2>2, <2>4, <1>3
  <2> QED BY <2>2, <2>3, <2>4
<1>5. /\ queue' \in [Users -> Seq(Batches)]
      /\ callbacks' \in [Users -> SUBSET Batches]
      /\ told' \in [Writes -> Answers]
      /\ queue'[user] = rest
      /\ Ascending(rest)
      /\ IdsOK' /\ QueuedOnce' /\ NotTold' /\ AppliedOK' /\ ServerCatchesUp'
  <2>1. "error" \in Answers
    BY DEF Answers
  <2> QED BY <2>1, <1>2, <1>4, HeadLeaves
<1>6. pipeline' = HeadOf(rest) /\ rest \in Seq(Batches)
  <2> DEFINE p == Len(pipeline)
             m == p - 1
  <2>1. rest \in Seq(Batches) /\ Len(rest) = Len(q) - 1
    BY <1>3, HeadTailProperties
  <2>2. m \in 0..Len(rest) /\ m <= PipelineSize
    BY <2>1, <1>3, PipelineSizeAssumption
  <2>3. Tail(pipeline) = SubSeq(rest, 1, m)
    <3>1. 1 \in 1..Len(q) /\ p \in 1..Len(q) /\ m \in 0..(Len(q) - 1) /\ m + 1 = p
      BY <1>3
    <3>2. Tail(SubSeq(q, 1, p)) = SubSeq(q, 1 + 1, p)
      BY <3>1, <1>3, HeadTailOfSubSeq
    <3> HIDE DEF m
    <3>3. SubSeq(rest, 1, m) = SubSeq(q, 1 + 1, m + 1)
      BY <3>1, <1>3, TailShifts
    <3> QED BY <3>1, <3>2, <3>3, <1>3
  <2> HIDE DEF m, rest
  <2>4. Refilled(rest, SubSeq(rest, 1, m)) = HeadOf(rest)
    BY <2>1, <2>2, <1>5, RefillFromHead
  <2> QED BY <2>1, <2>3, <2>4, <1>2, <1>3
<1>7. CallTypeOK' /\ CallOK' /\ AnswersOK'
  <2>1. stream' \in Streams /\ stream' # "open"
    BY <1>2 DEF Streams
  <2>2. switches' \in 0..MaxSwitches /\ breaks' \in 0..MaxBreaks
    BY <1>1, <1>2 DEF CallTypeOK
  <2> QED BY <2>1, <2>2, <1>1, <1>2, NoCall
<1>8. QueueTypeOK'
  <2>1. pipeline' \in Seq(Batches)
    BY <1>6, HeadOfFacts
  <2> QED BY <2>1, <1>1, <1>2, <1>5 DEF QueueTypeOK
<1>9. PipelineOK'
  BY <1>2, <1>5, <1>6 DEF PipelineOK, HeadOf
<1>10. TypeOK'
  BY <1>7, <1>8, TypePartsNext
<1> QED BY <1>5, <1>7, <1>9, <1>10

-----------------------------------------------------------------------------
(* The invariant holds                                                     *)

LEMMA InitInv == Init => Inv
<1> SUFFICES ASSUME Init PROVE Inv
  OBVIOUS
<1> USE DEF Init
<1>1. QueueTypeOK
  BY BoundsAssumption DEF QueueTypeOK, Answers, Writes
<1>2. shaken \in BOOLEAN /\ idle \in BOOLEAN /\ ~shaken /\ ~idle
  BY Zenon
<1>3. CallTypeOK
  <2>1. switches \in 0..MaxSwitches /\ breaks \in 0..MaxBreaks
    BY BoundsAssumption
  <2>2. /\ up \in Seq(Batches \cup Shakes) /\ down \in Seq(Batches \cup Shakes)
        /\ stream \in Streams /\ ended \in Endings /\ posted \in Posts
    BY DEF Streams, Endings, Posts
  <2> QED BY <2>1, <2>2, <1>2, Zenon DEF CallTypeOK
<1>4. \A u \in Users : DOMAIN queue[u] = {} /\ Elements(queue[u]) = {}
  <2>1. << >> \in Seq(Batches)
    OBVIOUS
  <2>2. DOMAIN << >> = 1..Len(<< >>) /\ Len(<< >>) = 0
    BY <2>1, QueueFacts
  <2>3. 1..0 = {}
    OBVIOUS
  <2>4. \A u \in Users : queue[u] = << >>
    OBVIOUS
  <2> QED BY <2>2, <2>3, <2>4 DEF Elements
<1>5. IdsOK
  BY <1>4 DEF IdsOK, Ascending, CallbacksQueued
<1>6. QueuedOnce /\ NotTold /\ AppliedOK /\ ServerCatchesUp
  BY <1>4 DEF QueuedOnce, NotTold, AppliedOK, ServerCatchesUp
<1>7. ~Reading
  BY DEF Reading
<1>8. CallOK /\ AnswersOK
  BY <1>2, <1>7 DEF CallOK, AnswersOK
<1>9. PipelineOK
  <2>1. queue[user] = << >> /\ << >> \in Seq(Batches)
    OBVIOUS
  <2> QED BY <2>1, HeadOfFacts DEF PipelineOK
<1>10. TypeOK
  BY <1>1, <1>3, TypeParts
<1> QED BY <1>5, <1>6, <1>8, <1>9, <1>10 DEF Inv

LEMMA StutterKeepsInv == ASSUME Inv, UNCHANGED vars PROVE Inv'
<1> USE DEF Inv, vars, client, call
<1>1. CallTypeOK' /\ CallOK' /\ AnswersOK'
  BY TypeParts DEF CallTypeOK, CallOK, AnswersOK, Reading, disk, server
<1> QED BY <1>1, SameQueues

LEMMA NextInv == ASSUME Inv, [Next]_vars PROVE Inv'
<1>1. CASE AppStep
  BY <1>1, WriteMutationsKeepsInv, HandleCredentialChangeKeepsInv,
     AppRestartsKeepsInv DEF AppStep
<1>2. CASE Trouble
  BY <1>2, ConnectivityChangesKeepsInv, NoCredentialsKeepsInv,
     ConnectionLostKeepsInv DEF Trouble
<1>3. CASE StreamStep
  BY <1>3, OpenWithCredentialsKeepsInv, BackoffElapsesKeepsInv,
     HandshakeCompletesKeepsInv, MutationResultKeepsInv, WriteRefusedKeepsInv,
     StreamBreaksKeepsInv, ReadCompletesKeepsInv, OperationFailsKeepsInv
  DEF StreamStep
<1>4. CASE ServerStep
  BY <1>4, ServerShakesHandsKeepsInv, ServerAppliesKeepsInv,
     ServerRefusesKeepsInv DEF ServerStep
<1>5. CASE IdleTimerFires
  BY <1>5, IdleTimerFiresKeepsInv
<1>6. CASE UNCHANGED vars
  BY <1>6, StutterKeepsInv
<1> QED BY <1>1, <1>2, <1>3, <1>4, <1>5, <1>6 DEF Next

LEMMA Invariant == Spec => []Inv
<1>1. Init => Inv
  BY InitInv
<1>2. Inv /\ [Next]_vars => Inv'
  BY NextInv
<1> QED BY <1>1, <1>2, PTL DEF Spec

-----------------------------------------------------------------------------
(* Theorems                                                                *)

\* Every variable keeps its type, the ids of batches among them: the writes
\* made bound the ids LoadNextBatchId hands out (leveldb_mutation_queue.cc
\* 58-125).
THEOREM TypeCorrect == Spec => []TypeOK
<1>1. Inv => TypeOK
  BY DEF Inv
<1> QED BY <1>1, Invariant, PTL

\* The pipeline is at every moment the head of the open queue, as much of it as
\* fits (remote_store.cc 370-405).
THEOREM PipelineFollowsQueue == Spec => []PipelineIsHeadOfQueue
<1>1. Inv => PipelineIsHeadOfQueue
  BY OpenQueueFacts, RefillFromNothing DEF Inv, PipelineOK, PipelineIsHeadOfQueue
<1> QED BY <1>1, Invariant, PTL

\* A response that names no batch is matched with the batch it answers
\* (remote_store.cc 432-450).
THEOREM ResponsesInOrder == Spec => []ResponsesMatch
<1>1. Inv => ResponsesMatch
  <2> SUFFICES ASSUME Inv, shaken
               PROVE  /\ Len(down) <= Len(pipeline)
                      /\ \A i \in DOMAIN down : down[i] = pipeline[i]
    BY DEF ResponsesMatch
  <2>1. DOMAIN down = 1..Len(down)
    BY TypeParts, SeqFacts DEF Inv, CallTypeOK
  <2> QED BY <2>1 DEF Inv, AnswersOK
<1> QED BY <1>1, Invariant, PTL

\* Ids are unique on disk, and a callback belongs to a batch in the queue of
\* its account (leveldb_mutation_queue.cc 58-125, sync_engine.cc 426-441).
THEOREM CallbacksBelong == Spec => []CallbacksQueued
<1>1. Inv => CallbacksQueued
  BY DEF Inv, IdsOK
<1> QED BY <1>1, Invariant, PTL

\* The idle timer never closes a stream that has writes to send (stream.cc
\* 234-241, remote_store.cc 452-481).
THEOREM IdleIsDrained == Spec => []IdleOnlyWhenDrained
<1>1. Inv => IdleOnlyWhenDrained
  BY DEF Inv, CallOK, IdleOnlyWhenDrained
<1> QED BY <1>1, Invariant, PTL

\* A write sent twice cannot leave the server behind the queue: what repairs
\* it is still to be sent.
THEOREM ResendsAreRepaired == Spec => []ServerCatchesUp
<1>1. Inv => ServerCatchesUp
  BY DEF Inv
<1> QED BY <1>1, Invariant, PTL

-----------------------------------------------------------------------------
(* The pipeline implements the queue of writes                             *)

LEMMA WritesOfFacts ==
    ASSUME NEW q \in Seq(Batches)
    PROVE  /\ WritesOf(q) \in Seq(Writes)
           /\ Len(WritesOf(q)) = Len(q)
           /\ DOMAIN WritesOf(q) = 1..Len(q)
           /\ \A i \in 1..Len(q) : WritesOf(q)[i] = q[i].write
<1>1. /\ Len(q) \in Nat /\ DOMAIN q = 1..Len(q)
      /\ \A i \in 1..Len(q) : q[i].write \in Writes
  BY QueueFacts
<1>2. /\ WritesOf(q) \in [1..Len(q) -> Writes]
      /\ DOMAIN WritesOf(q) = 1..Len(q)
      /\ \A i \in 1..Len(q) : WritesOf(q)[i] = q[i].write
  BY <1>1 DEF WritesOf
<1>3. WritesOf(q) \in Seq(Writes)
  <2>1. WritesOf(q) \in [1..Len(q) -> Writes]
    BY <1>2
  <2> QED BY <2>1, <1>1, SeqDef
<1>4. /\ Len(WritesOf(q)) \in Nat
      /\ DOMAIN WritesOf(q) = 1..Len(WritesOf(q))
  BY <1>3, LenProperties
<1>5. Len(WritesOf(q)) = Len(q)
  <2> DEFINE m == Len(WritesOf(q))
             n == Len(q)
  <2>1. m \in Nat /\ n \in Nat /\ 1..m = 1..n
    BY <1>1, <1>2, <1>4
  <2> HIDE DEF m, n
  <2>2. m = n
    <3>1. \A i \in Nat : i \in 1..m <=> i \in 1..n
      BY <2>1
    <3>2. m + 1 \notin 1..n /\ n + 1 \notin 1..m
      BY <2>1, <3>1
    <3> QED BY <2>1, <3>2
  <2> QED BY <2>2 DEF m, n
<1> QED BY <1>2, <1>3, <1>5

LEMMA WritesOfEmpty == WritesOf(<< >>) = << >>
<1>1. << >> \in Seq(Batches) /\ Len(<< >>) = 0
  OBVIOUS
<1>2. WritesOf(<< >>) \in Seq(Writes) /\ Len(WritesOf(<< >>)) = 0
  BY <1>1, WritesOfFacts
<1> QED BY <1>2, SeqFacts

LEMMA WritesOfAppend ==
    ASSUME NEW q \in Seq(Batches), NEW b \in Batches
    PROVE  WritesOf(Append(q, b)) = Append(WritesOf(q), b.write)
<1> DEFINE s == WritesOf(Append(q, b))
           t == Append(WritesOf(q), b.write)
<1>1. /\ Append(q, b) \in Seq(Batches) /\ Len(Append(q, b)) = Len(q) + 1
      /\ \A i \in 1..Len(q) : Append(q, b)[i] = q[i]
      /\ Append(q, b)[Len(q) + 1] = b
      /\ Len(q) \in Nat
  BY AppendProperties, SeqFacts
<1>2. /\ s \in Seq(Writes) /\ Len(s) = Len(q) + 1
      /\ \A i \in 1..(Len(q) + 1) : s[i] = Append(q, b)[i].write
  BY <1>1, WritesOfFacts
<1>3. b.write \in Writes
  BY BatchFacts
<1>4. /\ WritesOf(q) \in Seq(Writes) /\ Len(WritesOf(q)) = Len(q)
      /\ \A i \in 1..Len(q) : WritesOf(q)[i] = q[i].write
  BY WritesOfFacts
<1>5. /\ t \in Seq(Writes) /\ Len(t) = Len(q) + 1
      /\ \A i \in 1..Len(q) : t[i] = q[i].write
      /\ t[Len(q) + 1] = b.write
  BY <1>3, <1>4, AppendProperties
<1> HIDE DEF s, t
<1>6. \A i \in 1..Len(s) : s[i] = t[i]
  BY <1>1, <1>2, <1>5
<1>7. s = t
  BY <1>2, <1>5, <1>6, SeqEqual
<1> QED BY <1>7 DEF s, t

LEMMA WritesOfTail ==
    ASSUME NEW q \in Seq(Batches), q # << >>
    PROVE  /\ WritesOf(q) # << >>
           /\ Head(WritesOf(q)) = Head(q).write
           /\ WritesOf(Tail(q)) = Tail(WritesOf(q))
<1> DEFINE s == WritesOf(Tail(q))
           t == Tail(WritesOf(q))
<1>1. /\ Tail(q) \in Seq(Batches) /\ Len(Tail(q)) = Len(q) - 1
      /\ \A i \in 1..(Len(q) - 1) : Tail(q)[i] = q[i + 1]
      /\ Len(q) \in Nat /\ Len(q) > 0
  BY HeadTailProperties, QueueFacts
<1>2. /\ s \in Seq(Writes) /\ Len(s) = Len(q) - 1
      /\ \A i \in 1..(Len(q) - 1) : s[i] = Tail(q)[i].write
  BY <1>1, WritesOfFacts
<1>3. /\ WritesOf(q) \in Seq(Writes) /\ Len(WritesOf(q)) = Len(q)
      /\ \A i \in 1..Len(q) : WritesOf(q)[i] = q[i].write
  BY WritesOfFacts
<1>4. WritesOf(q) # << >>
  BY <1>1, <1>3, SeqFacts
<1>5. /\ t \in Seq(Writes) /\ Len(t) = Len(q) - 1
      /\ \A i \in 1..(Len(q) - 1) : t[i] = WritesOf(q)[i + 1]
  BY <1>3, <1>4, HeadTailProperties
<1> HIDE DEF s, t
<1>6. \A i \in 1..Len(s) : s[i] = t[i]
  <2> SUFFICES ASSUME NEW i \in 1..(Len(q) - 1) PROVE s[i] = t[i]
    BY <1>2
  <2>1. i + 1 \in 1..Len(q)
    BY <1>1
  <2> QED BY <2>1, <1>1, <1>2, <1>3, <1>5
<1>7. s = t
  BY <1>2, <1>5, <1>6, SeqEqual
<1>8. Head(WritesOf(q)) = Head(q).write
  <2>1. 1 \in 1..Len(q)
    BY <1>1
  <2>2. Head(WritesOf(q)) = WritesOf(q)[1] /\ Head(q) = q[1]
    OBVIOUS
  <2> QED BY <2>1, <2>2, <1>3
<1> QED BY <1>4, <1>7, <1>8 DEF s, t

\* The mapped variables of WriteQueue.
Waiting == [u \in Users |-> WritesOf(queue[u])]
Applied == UNION {applied[u] : u \in Users}

Mapped == <<Waiting, made, bad, Applied, told>>

LEMMA InitMaps == Init => Queue!Init
BY WritesOfEmpty DEF Init, Queue!Init, Queue!Writes, Writes

\* A head that leaves, in both.
LEMMA LeaveMaps ==
    ASSUME Inv, pipeline # << >>, NEW answer \in Answers,
           NotifyUser(Head(pipeline), answer),
           queue' = [queue EXCEPT ![user] = Without(queue[user], Head(pipeline))],
           UNCHANGED <<made, bad, applied>>
    PROVE  /\ Queue!Leave(user, answer)
           /\ Waiting[user] # << >>
           /\ Head(Waiting[user]) = Head(pipeline).write
<1> DEFINE q == queue[user]
           b == Head(pipeline)
<1>1. /\ q \in Seq(Batches) /\ q # << >> /\ user \in Users
      /\ b = Head(q) /\ b \in Elements(q)
      /\ Without(q, b) = Tail(q)
  BY PipelineHead, OpenQueueFacts
<1>2. /\ WritesOf(q) # << >>
      /\ Head(WritesOf(q)) = b.write
      /\ WritesOf(Tail(q)) = Tail(WritesOf(q))
  BY <1>1, WritesOfTail
<1>3. \/ told' = told
      \/ /\ told[b.write] = "none"
         /\ told' = [told EXCEPT ![b.write] = answer]
  <2>1. b \in Elements(queue[user]) /\ NotifyUser(b, answer)
    BY <1>1
  <2> HIDE DEF b
  <2> QED BY <2>1, HeadHears
<1>4. queue \in [Users -> Seq(Batches)] /\ queue' = [queue EXCEPT ![user] = Tail(q)]
  BY <1>1, TypeParts DEF Inv, QueueTypeOK
<1>5. Waiting' = [Waiting EXCEPT ![user] = Tail(@)]
  BY <1>1, <1>2, <1>4 DEF Waiting
<1>6. Waiting[user] = WritesOf(q)
  BY <1>1 DEF Waiting
<1>7. Applied' = Applied
  BY DEF Applied
<1> HIDE DEF b
<1>8. Queue!Leave(user, answer)
  BY <1>2, <1>3, <1>5, <1>6, <1>7 DEF Queue!Leave, Waiting, Applied
<1> QED BY <1>2, <1>6, <1>8 DEF b

\* Each step of the path is a step of the queue, or none.
LEMMA StepMaps ==
    ASSUME Inv, [Next]_vars
    PROVE  [Queue!Next]_Mapped
<1> USE DEF Inv
<1>0. QueueTypeOK /\ user \in Users
  BY TypeParts DEF QueueTypeOK
<1>1. UNCHANGED <<queue, made, bad, applied, told>> => UNCHANGED Mapped
  BY DEF Mapped, Waiting, Applied
<1>2. CASE WriteMutations
  <2> DEFINE batch == [id |-> nextId, write |-> made + 1]
             q == queue[user]
  <2>1. /\ made < MaxWrites /\ made' = made + 1
        /\ bad' \in {bad, bad \cup {made + 1}}
        /\ queue' = [queue EXCEPT ![user] = Append(q, batch)]
        /\ UNCHANGED <<applied, told>>
    BY <1>2 DEF WriteMutations, server
  <2>2. batch \in Batches /\ batch.write = made + 1
    BY <2>1, <1>0, NextIdFacts, BoundsAssumption DEF QueueTypeOK, Batches, Writes
  <2> HIDE DEF batch
  <2>3. WritesOf(Append(q, batch)) = Append(WritesOf(q), made + 1) /\ queue \in [Users -> Seq(Batches)]
    BY <2>2, <1>0, OpenQueueFacts, WritesOfAppend DEF QueueTypeOK
  <2>4. Waiting' = [Waiting EXCEPT ![user] = Append(@, made + 1)]
    BY <2>1, <2>3, <1>0 DEF Waiting
  <2>5. Applied' = Applied
    BY <2>1 DEF Applied
  <2>6. Queue!Make(user)
    BY <2>1, <2>4, <2>5 DEF Queue!Make, Waiting, Applied
  <2> QED BY <2>6, <1>0 DEF Queue!Next
<1>3. CASE MutationResult
  <2>1. /\ Reading /\ shaken /\ pipeline # << >>
        /\ NotifyUser(Head(pipeline), "ok")
        /\ queue' = [queue EXCEPT ![user] = Without(queue[user], Head(pipeline))]
        /\ UNCHANGED <<made, bad, applied>>
    BY <1>3 DEF MutationResult, server
  <2>2. /\ Queue!Leave(user, "ok")
        /\ Waiting[user] # << >>
        /\ Head(Waiting[user]) = Head(pipeline).write
    BY <2>1, LeaveMaps DEF Answers
  <2>3. down # << >> /\ Len(down) \in Nat /\ Len(down) > 0
    BY <2>1, TypeParts, SeqFacts DEF CallOK, CallTypeOK
  <2>4. Head(pipeline).write \in applied[user]
    BY <2>1, <2>3, PipelineHead DEF AnswersOK
  <2>5. Head(Waiting[user]) \in Applied
    BY <2>2, <2>4, <1>0 DEF Applied
  <2>6. Queue!Acknowledge(user)
    BY <2>2, <2>5 DEF Queue!Acknowledge, Waiting, Applied
  <2> QED BY <2>6, <1>0 DEF Queue!Next
<1>4. CASE WriteRefused
  <2>1. /\ ended = "denied" /\ shaken /\ pipeline # << >>
        /\ NotifyUser(Head(pipeline), "error")
        /\ queue' = [queue EXCEPT ![user] = Without(queue[user], Head(pipeline))]
        /\ UNCHANGED <<made, bad, applied>>
    BY <1>4 DEF WriteRefused, server
  <2>2. /\ Queue!Leave(user, "error")
        /\ Waiting[user] # << >>
        /\ Head(Waiting[user]) = Head(pipeline).write
    BY <2>1, LeaveMaps DEF Answers
  <2>3. Len(down) \in Nat
    BY TypeParts, SeqFacts DEF CallTypeOK
  <2>4. Head(pipeline).write \in bad \/ Head(pipeline).write \in applied[user]
    <3>1. CASE Len(down) = 0
      BY <3>1, <2>1, PipelineHead DEF AnswersOK
    <3>2. CASE Len(down) > 0
      BY <3>2, <2>1, <2>3, PipelineHead DEF AnswersOK
    <3> QED BY <3>1, <3>2, <2>3
  <2>5. Head(Waiting[user]) \in bad \cup Applied
    BY <2>2, <2>4, <1>0 DEF Applied
  <2>6. Queue!Reject(user)
    BY <2>2, <2>5 DEF Queue!Reject, Waiting, Applied
  <2> QED BY <2>6, <1>0 DEF Queue!Next
<1>5. CASE ServerApplies
  <2> DEFINE k == Len(down) + 1
             b == pipeline[k]
             q == queue[user]
  <2>1. /\ ended = "no" /\ up # << >> /\ Head(up) # Shake
        /\ Head(up).write \notin bad
        /\ applied' = [applied EXCEPT ![user] = @ \cup {Head(up).write}]
        /\ UNCHANGED <<queue, made, bad, told>>
    BY <1>5 DEF ServerApplies, disk
  <2>2. shaken /\ Len(down) < Len(pipeline) /\ Head(up) = b
    BY <2>1, FirstRequest
  <2>3. /\ Len(down) \in Nat /\ Len(pipeline) \in 0..Len(q) /\ Len(q) \in Nat
        /\ q \in Seq(Batches)
        /\ \A i \in 1..Len(pipeline) : pipeline[i] = q[i]
    BY TypeParts, SeqFacts, OpenQueueFacts DEF CallTypeOK
  <2>4. k \in 1..Len(q) /\ k \in 1..Len(pipeline)
    BY <2>2, <2>3
  <2>5. /\ Waiting[user] = WritesOf(q)
        /\ DOMAIN WritesOf(q) = 1..Len(q)
        /\ \A i \in 1..Len(q) : WritesOf(q)[i] = q[i].write
    BY <2>3, <1>0, WritesOfFacts DEF Waiting
  <2>6. \A j \in 1..(k - 1) : Waiting[user][j] \in Applied
    <3> SUFFICES ASSUME NEW j \in 1..(k - 1)
                 PROVE  Waiting[user][j] \in Applied
      OBVIOUS
    <3>1. j \in 1..Len(down) /\ j \in 1..Len(pipeline) /\ j \in 1..Len(q)
      BY <2>2, <2>3
    <3>2. pipeline[j].write \in applied[user]
      BY <3>1, <2>2 DEF AnswersOK
    <3> QED BY <3>1, <3>2, <2>3, <2>5, <1>0 DEF Applied
  <2>7. Waiting[user][k] = b.write /\ k \in DOMAIN Waiting[user]
    BY <2>3, <2>4, <2>5
  <2>8. Applied' = Applied \cup {b.write}
    <3>1. applied \in [Users -> SUBSET Writes] /\ applied' = [applied EXCEPT ![user] = @ \cup {b.write}]
      BY <2>1, <2>2, <1>0 DEF QueueTypeOK
    <3> HIDE DEF b
    <3> QED BY <3>1, <1>0 DEF Applied
  <2>9. Waiting' = Waiting
    BY <2>1 DEF Waiting
  <2>10. Waiting[user][k] \notin bad /\ Applied' = Applied \cup {Waiting[user][k]}
    BY <2>1, <2>2, <2>7, <2>8
  <2> HIDE DEF k
  <2>11. \E i \in DOMAIN Waiting[user] :
            /\ Waiting[user][i] \notin bad
            /\ \A j \in 1..(i - 1) : Waiting[user][j] \in Applied
            /\ Applied' = Applied \cup {Waiting[user][i]}
    BY <2>6, <2>7, <2>10
  <2>12. \E u \in Users : Queue!Apply(u)
    BY <2>1, <2>9, <2>11, <1>0, Zenon DEF Queue!Apply, Waiting, Applied
  <2> QED BY <2>12, Zenon DEF Queue!Next
<1>6. CASE AppRestarts
  <2>1. UNCHANGED <<queue, made, bad, applied>>
    BY <1>6 DEF AppRestarts, disk, server
  <2>2. CASE told' = told
    BY <2>1, <2>2, <1>1
  <2>3. CASE told' # told
    <3>1. PICK c \in callbacks[user] :
             /\ Reading /\ shaken /\ pipeline # << >>
             /\ c.id = Head(pipeline).id
             /\ told' = [told EXCEPT ![c.write] = "ok"]
      BY <2>3, <1>6 DEF AppRestarts
    <3> DEFINE b == Head(pipeline)
               q == queue[user]
    <3>2. /\ q \in Seq(Batches) /\ q # << >> /\ b = Head(q) /\ b \in Elements(q)
      BY <3>1, PipelineHead, OpenQueueFacts
    <3>3. c = b
      <4>1. PICK i \in DOMAIN q : c = q[i]
        BY <1>0 DEF IdsOK, CallbacksQueued, Elements
      <4>2. PICK j \in DOMAIN q : b = q[j]
        BY <3>2 DEF Elements
      <4> QED BY <4>1, <4>2, <3>1, <1>0 DEF IdsOK, CallbacksQueued
    <3>4. /\ WritesOf(q) # << >> /\ Head(WritesOf(q)) = b.write
          /\ Waiting[user] = WritesOf(q)
      BY <3>2, <1>0, WritesOfTail DEF Waiting
    <3>5. down # << >> /\ Len(down) \in Nat /\ Len(down) > 0
      BY <3>1, TypeParts, SeqFacts DEF CallOK, CallTypeOK
    <3>6. b.write \in applied[user]
      BY <3>1, <3>5, PipelineHead DEF AnswersOK
    <3>7. b.write \in Applied
      BY <3>6, <1>0 DEF Applied
    <3>8. told[b.write] = "none" /\ told' = [told EXCEPT ![b.write] = "ok"]
      BY <3>1, <3>3, <1>0 DEF NotTold
    <3>9. Waiting' = Waiting /\ Applied' = Applied
      BY <2>1 DEF Waiting, Applied
    <3> HIDE DEF b
    <3>10. Queue!HearAndDie(user)
      BY <3>4, <3>7, <3>8, <3>9, <2>1 DEF Queue!HearAndDie, Waiting, Applied
    <3> QED BY <3>10, <1>0 DEF Queue!Next
  <2> QED BY <2>2, <2>3
<1>7. CASE HandleCredentialChange \/ ConnectivityChanges
  BY <1>1, <1>7 DEF HandleCredentialChange, ConnectivityChanges, disk, server
<1>8. CASE OpenWithCredentials \/ NoCredentials \/ BackoffElapses \/ IdleTimerFires
  BY <1>1, <1>8 DEF OpenWithCredentials, NoCredentials, BackoffElapses,
                    IdleTimerFires, disk, server
<1>9. CASE HandshakeCompletes \/ StreamBreaks \/ ReadCompletes \/ OperationFails
  BY <1>1, <1>9 DEF HandshakeCompletes, StreamBreaks, ReadCompletes,
                    OperationFails, disk, server
<1>10. CASE ServerShakesHands \/ ServerRefuses \/ ConnectionLost
  BY <1>1, <1>10 DEF ServerShakesHands, ServerRefuses, ConnectionLost, disk, server
<1>11. CASE UNCHANGED vars
  BY <1>1, <1>11 DEF vars, disk, server
<1> QED
  <2> HIDE DEF Inv
  <2> QED BY <1>2, <1>3, <1>4, <1>5, <1>6, <1>7, <1>8, <1>9, <1>10, <1>11, Zenon
          DEF Next, AppStep, Trouble, StreamStep, ServerStep

\* The whole write path, with its pipeline, resends, refusals and restarts,
\* implements the queue the app relies on (remote_store.cc 370-567,
\* sync_engine.cc 203-441, leveldb_mutation_queue.cc 58-210).
THEOREM ImplementsWriteQueue == Spec => IsAWriteQueue
<1>1. Init => Queue!Init
  BY InitMaps
<1>2. Inv /\ [Next]_vars => [Queue!Next]_(Queue!vars)
  BY StepMaps DEF Queue!vars, Mapped, Waiting, Applied
<1> QED BY <1>1, <1>2, Invariant, PTL DEF Spec, IsAWriteQueue, Queue!Spec

-----------------------------------------------------------------------------
(* What the app may therefore rely on                                      *)

Promise == INSTANCE WriteQueueProofs WITH
    waiting <- [u \in Users |-> WritesOf(queue[u])],
    applied <- UNION {applied[u] : u \in Users}

IsApplied(w) == \E u \in Users : w \in applied[u]

IsQueued(w) == \E u \in Users : \E b \in Elements(queue[u]) : b.write = w

\* A write is applied, refused, or on the disk of the device.
WritesKept == \A w \in 1..made : IsApplied(w) \/ w \in bad \/ IsQueued(w)

\* "ok" is heard of a write the server has applied, an error of one it refused or
\* whose acknowledgement was lost, and nothing refused is ever applied.
AnswersTrue ==
    /\ \A w \in Writes : told[w] = "ok" => IsApplied(w)
    /\ \A w \in Writes : told[w] = "error" => w \in bad \/ IsApplied(w)
    /\ \A w \in bad : ~IsApplied(w)

\* The server has the oldest writes of a queue, if any.
ServerInOrder ==
    \A u \in Users : \A i, j \in DOMAIN queue[u] :
        i < j /\ IsApplied(queue[u][j].write) => IsApplied(queue[u][i].write)

\* A callback hears one answer; a write leaves the disk when it is settled.
AnswersFinal ==
    /\ \A w \in Writes : told[w] # "none" => told'[w] = told[w]
    /\ \A w \in 1..made : IsQueued(w) => IsQueued(w)' \/ IsApplied(w) \/ w \in bad

LEMMA IsPromise == Spec => Promise!Spec
<1>1. Queue!vars = Promise!vars /\ (Queue!vars)' = (Promise!vars)'
  BY DEF Queue!vars, Promise!vars
<1>2. Queue!Init => Promise!Init
  BY DEF Queue!Init, Queue!Writes, Promise!Init, Promise!Writes
<1>3. Queue!Next => Promise!Next
  <2>1. ASSUME NEW u \in Users, Queue!Make(u) \/ Queue!Apply(u) \/ Queue!HearAndDie(u)
        PROVE  Promise!Make(u) \/ Promise!Apply(u) \/ Promise!HearAndDie(u)
    BY <2>1, Zenon DEF Queue!Make, Queue!Apply, Queue!HearAndDie,
                       Promise!Make, Promise!Apply, Promise!HearAndDie
  <2>2. ASSUME NEW u \in Users, Queue!Acknowledge(u) \/ Queue!Reject(u)
        PROVE  Promise!Acknowledge(u) \/ Promise!Reject(u)
    BY <2>2, Zenon DEF Queue!Acknowledge, Queue!Reject, Queue!Leave,
                       Promise!Acknowledge, Promise!Reject, Promise!Leave
  <2> QED BY <2>1, <2>2, Zenon DEF Queue!Next, Promise!Next
<1>4. [Queue!Next]_(Queue!vars) => [Promise!Next]_(Promise!vars)
  BY <1>1, <1>3, Zenon
<1>5. Queue!Spec => Promise!Spec
  BY <1>2, <1>4, PTL DEF Queue!Spec, Promise!Spec
<1> QED BY <1>5, ImplementsWriteQueue, PTL DEF IsAWriteQueue

\* The abstract queue speaks of what is applied and waits in these words.
LEMMA PromiseWords ==
    /\ \A w : Promise!Waits(w) <=> IsQueued(w)
    /\ \A w : w \in UNION {applied[u] : u \in Users} <=> IsApplied(w)
<1>1. \A w : Promise!Waits(w) <=> IsQueued(w)
  <2>1. \A u \in Users : DOMAIN WritesOf(queue[u]) = DOMAIN queue[u]
    BY DEF WritesOf
  <2>2. \A u \in Users : \A i \in DOMAIN queue[u] :
           WritesOf(queue[u])[i] = queue[u][i].write
    BY DEF WritesOf
  <2>3. \A w : Promise!Waits(w) <=>
             \E u \in Users : \E i \in DOMAIN WritesOf(queue[u]) : WritesOf(queue[u])[i] = w
    BY DEF Promise!Waits
  <2>4. \A w : IsQueued(w) <=>
             \E u \in Users : \E i \in DOMAIN queue[u] : queue[u][i].write = w
    BY DEF IsQueued, Elements
  <2>5. \A w : \A u \in Users :
             (\E i \in DOMAIN WritesOf(queue[u]) : WritesOf(queue[u])[i] = w)
                <=> \E i \in DOMAIN queue[u] : queue[u][i].write = w
    BY <2>1, <2>2
  <2> QED BY <2>3, <2>4, <2>5, Zenon
<1>2. \A w : w \in UNION {applied[u] : u \in Users} <=> IsApplied(w)
  BY DEF IsApplied
<1> QED BY <1>1, <1>2

\* No write of the app is ever lost, by a crash between two steps of the SDK, a
\* change of account, a broken stream or a full pipeline: it is applied, refused,
\* or in the queue of its account on disk (sync_engine.cc 203-441,
\* leveldb_mutation_queue.cc 58-210).
THEOREM NoWriteIsLost == Spec => []WritesKept
<1>1. Promise!NothingLost => WritesKept
  BY PromiseWords DEF Promise!NothingLost, WritesKept
<1> QED BY <1>1, IsPromise, Promise!WritesAreKept, PTL

\* What a callback hears is true of the server (remote_store.cc 432-527).
THEOREM CallbacksHearTheTruth == Spec => []AnswersTrue
<1>1. Promise!HeardIsTrue => AnswersTrue
  BY PromiseWords DEF Promise!HeardIsTrue, Promise!Writes, Writes, AnswersTrue
<1> QED BY <1>1, IsPromise, Promise!AnswersAreTrue, PTL

\* The server takes the writes of an account in the order they were made, whatever
\* is sent again (remote_store.cc 370-439).
THEOREM ServerTakesPrefix == Spec => []ServerInOrder
<1>1. Promise!AppliedInOrder => ServerInOrder
  BY PromiseWords DEF Promise!AppliedInOrder, ServerInOrder, WritesOf
<1> QED BY <1>1, IsPromise, Promise!DatabaseHasPrefix, PTL

\* An answer is heard once, and a write leaves the disk only when the server has
\* applied or refused it (sync_engine.cc 250-341).
THEOREM AnswersStand == Spec => [][AnswersFinal]_vars
<1>1. [Promise!AnswerStands /\ Promise!OnlySettledLeave]_(Promise!vars)
        => [AnswersFinal]_vars
  <2>1. (\A w : Promise!Waits(w) <=> IsQueued(w))'
    BY PromiseWords, PTL
  <2>2. \A w : Promise!Waits(w)' <=> IsQueued(w)'
    BY <2>1, Zenon
  <2>3. ASSUME UNCHANGED Promise!vars
        PROVE  AnswersFinal
    <3>1. told' = told /\ \A w : Promise!Waits(w)' <=> Promise!Waits(w)
      <4>1. /\ told' = told
            /\ [u \in Users |-> WritesOf(queue[u])]' = [u \in Users |-> WritesOf(queue[u])]
        BY <2>3 DEF Promise!vars
      <4> QED BY <4>1, Zenon DEF Promise!Waits
    <3> QED BY <3>1, <2>2, PromiseWords, Zenon DEF AnswersFinal
  <2>4. ASSUME Promise!AnswerStands, Promise!OnlySettledLeave
        PROVE  AnswersFinal
    <3>1. \A w \in Writes : told[w] # "none" => told'[w] = told[w]
      BY <2>4, Zenon DEF Promise!AnswerStands, Promise!Writes, Writes
    <3>2. \A w \in 1..made : IsQueued(w) => IsQueued(w)' \/ IsApplied(w) \/ w \in bad
      BY <2>2, <2>4, PromiseWords, Zenon DEF Promise!OnlySettledLeave
    <3> QED BY <3>1, <3>2, Zenon DEF AnswersFinal
  <2> QED BY <2>3, <2>4
<1> QED BY <1>1, IsPromise, Promise!AnswersAreFinal, PTL

\* What the server holds is a write it applied, and once the queue of the account
\* has drained, the last of them.
ServerHoldsLast ==
    \A u \in Users :
        /\ value[u] = 0 \/ value[u] \in applied[u]
        /\ queue[u] = << >> => \A w \in applied[u] : w <= value[u]

\* When nothing waits any more, everything is settled.
DrainedIsSettled ==
    (\A u \in Users : queue[u] = << >>) =>
        \A w \in 1..made : IsApplied(w) \/ w \in bad

ValueOK == \A u \in Users : value[u] = 0 \/ value[u] \in applied[u]

LEMMA ValueStaysOK == ASSUME Inv, ValueOK, [Next]_vars PROVE ValueOK'
<1>1. CASE ServerApplies
  <2>1. /\ applied' = [applied EXCEPT ![user] = @ \cup {Head(up).write}]
        /\ value' = [value EXCEPT ![user] = Head(up).write]
    BY <1>1 DEF ServerApplies
  <2>2. /\ applied \in [Users -> SUBSET Writes] /\ value \in [Users -> 0..MaxWrites]
        /\ user \in Users
    BY DEF Inv, TypeOK
  <2> QED BY <2>1, <2>2 DEF ValueOK
<1>2. CASE UNCHANGED server
  BY <1>2 DEF server, ValueOK
<1>3. ServerApplies \/ UNCHANGED server
  BY Zenon DEF Next, vars, AppStep, Trouble, StreamStep, ServerStep, WriteMutations,
        HandleCredentialChange, AppRestarts, ConnectivityChanges, NoCredentials,
        ConnectionLost, OpenWithCredentials, BackoffElapses, HandshakeCompletes,
        MutationResult, WriteRefused, StreamBreaks, ReadCompletes, OperationFails,
        ServerShakesHands, ServerRefuses, IdleTimerFires
<1> QED BY <1>1, <1>2, <1>3

\* With EventuallyDrained: every write ends up applied or refused, and an account
\* whose queue has drained has its last applied write on the server, whatever was
\* sent twice (remote_store.cc 370-527).
THEOREM DrainedServerIsCurrent == Spec => [](ServerHoldsLast /\ DrainedIsSettled)
<1>1. Init => ValueOK
  BY DEF Init, ValueOK
<1>2. Inv /\ ValueOK /\ [Next]_vars => ValueOK'
  BY ValueStaysOK
<1>3. Inv /\ ValueOK => ServerHoldsLast
  <2> SUFFICES ASSUME Inv, ValueOK, NEW u \in Users, queue[u] = << >>,
                      NEW w \in applied[u]
               PROVE  w <= value[u]
    BY DEF ValueOK, ServerHoldsLast
  <2>1. Elements(queue[u]) = {}
    <3>1. DOMAIN << >> = {}
      OBVIOUS
    <3> QED BY <3>1, Zenon DEF Elements
  <2>2. ~(w > value[u])
    BY <2>1 DEF Inv, ServerCatchesUp
  <2>3. w \in Nat /\ value[u] \in Nat
    <3>1. applied[u] \subseteq Writes /\ value[u] \in 0..MaxWrites
      BY DEF Inv, TypeOK
    <3> QED BY <3>1, BoundsAssumption DEF Writes
  <2> QED BY <2>2, <2>3
<1>4. WritesKept => DrainedIsSettled
  <2> SUFFICES ASSUME \A u \in Users : queue[u] = << >>, NEW w, IsQueued(w)
               PROVE  FALSE
    BY DEF WritesKept, DrainedIsSettled
  <2>1. \A u \in Users : Elements(queue[u]) = {}
    <3>1. DOMAIN << >> = {}
      OBVIOUS
    <3> QED BY <3>1, Zenon DEF Elements
  <2> QED BY <2>1 DEF IsQueued
<1> QED BY <1>1, <1>2, <1>3, <1>4, Invariant, NoWriteIsLost, PTL DEF Spec

-----------------------------------------------------------------------------
(* Progress: what EventuallyDrained rests on besides fairness              *)

\* The guards of StreamStep and ServerStep.
CanMove ==
    \/ stream \in {"starting", "backoff"}
    \/ Reading /\ (shaken => pipeline # << >>)
    \/ Failing
    \/ down # << >> /\ posted \in {<< >>, <<"failed">>}
    \/ ended # "no" /\ \/ posted = << >> /\ down = << >>
                       \/ posted = <<"read">> /\ up # << >>
    \/ ended = "no" /\ up # << >>

\* While a write waits, there is always a next step to take towards its answer.
NeverStuck == queue[user] # << >> => CanMove

\* A pipeline that is not empty has its stream started, an operation fails only
\* on a call that has ended, and a handshake or its answer is under way.
StreamOK ==
    /\ pipeline # << >> => stream \in {"starting", "open", "backoff"}
    /\ posted \notin {<< >>, <<"read">>} => ended # "no"
    /\ stream = "open" /\ ~shaken /\ ended = "no" => up # << >> \/ down # << >>

LEMMA NoCallStreamOK ==
    ASSUME DropCall, stream' # "open",
           pipeline' # << >> => stream' \in {"starting", "backoff"}
    PROVE  StreamOK'
BY DEF DropCall, StreamOK

LEMMA RestartStreamOK ==
    ASSUME NEW q \in Seq(Batches), Ascending(q), RestartNetwork(q)
    PROVE  StreamOK'
<1>1. pipeline' = HeadOf(q) /\ (HeadOf(q) = << >> <=> q = << >>)
  BY RefillFromNothing, HeadOfFacts DEF RestartNetwork
<1> QED BY <1>1, NoCallStreamOK DEF RestartNetwork

LEMMA FillStreamOK ==
    ASSUME NEW q \in Seq(Batches), NEW pipe, NEW state \in Streams,
           FillWritePipeline(q, pipe, state)
    PROVE  /\ pipeline' # << >> => stream' \in {"starting", "open", "backoff"}
           /\ stream' = "open" => state = "open"
           /\ ~shaken => up' = up
BY DEF FillWritePipeline, Started, Streams

LEMMA StreamStaysOK == ASSUME Inv, StreamOK, [Next]_vars PROVE StreamOK'
<1>0. Inv' /\ TypeOK
  BY NextInv DEF Inv
<1>a. \A u \in Users : queue[u] \in Seq(Batches) /\ Ascending(queue[u])
  BY DEF Inv, TypeOK, IdsOK
<1>1. CASE WriteMutations
  <2>1. PICK q : /\ q = Append(queue[user], [id |-> nextId, write |-> made + 1])
                 /\ FillWritePipeline(q, pipeline, stream)
                 /\ queue' = [queue EXCEPT ![user] = q]
    BY <1>1 DEF WriteMutations
  <2>2. q \in Seq(Batches) /\ stream \in Streams
    BY <1>0, <2>1 DEF TypeOK, Inv
  <2>3. UNCHANGED <<shaken, down, ended, posted>>
    BY <1>1 DEF WriteMutations
  <2> QED BY <2>1, <2>2, <2>3, FillStreamOK DEF StreamOK
<1>2. CASE HandleCredentialChange
  <2>1. user' \in Users /\ RestartNetwork(queue[user'])
    BY <1>2 DEF HandleCredentialChange
  <2> QED BY <1>a, <2>1, RestartStreamOK
<1>3. CASE AppRestarts \/ ConnectivityChanges
  <2>1. user \in Users /\ RestartNetwork(queue[user])
    BY <1>0, <1>3 DEF AppRestarts, ConnectivityChanges, TypeOK
  <2> QED BY <1>a, <2>1, RestartStreamOK
<1>4. CASE OpenWithCredentials
  BY <1>4 DEF OpenWithCredentials, StreamOK
<1>5. CASE NoCredentials \/ StreamBreaks
  <2>1. DropCall /\ pipeline' = pipeline /\ stream' = IF pipeline = << >> THEN "error" ELSE "backoff"
    BY <1>5 DEF NoCredentials, StreamBreaks, Started
  <2> QED BY <2>1, NoCallStreamOK
<1>6. CASE BackoffElapses
  BY <1>6 DEF BackoffElapses, call, StreamOK
<1>7. CASE IdleTimerFires
  <2>1. DropCall /\ pipeline' = << >> /\ stream' = "initial"
    BY <1>7 DEF IdleTimerFires, Inv, CallOK
  <2> QED BY <2>1, NoCallStreamOK
<1>8. CASE WriteRefused
  BY <1>8, NoCallStreamOK DEF WriteRefused
<1>9. CASE HandshakeCompletes \/ MutationResult
  <2>1. /\ stream = "open" /\ shaken' /\ ended' = ended
        /\ posted' = Tail(posted) /\ Reading
    BY <1>9 DEF HandshakeCompletes, MutationResult, Inv, CallOK
  <2>2. posted = <<"read", "failed">> \/ posted = <<"read">>
    BY <2>1 DEF Reading
  <2>3. posted = <<"read">> => posted' = << >>
    BY <2>1
  <2>4. posted = <<"read", "failed">> => ended # "no"
    BY DEF StreamOK
  <2>5. stream' = "open"
    <3>1. CASE HandshakeCompletes
      BY <2>1, <3>1 DEF HandshakeCompletes
    <3>2. CASE MutationResult
      BY <2>1, <3>2 DEF MutationResult, FillWritePipeline, Started
    <3> QED BY <1>9, <3>1, <3>2
  <2> QED BY <2>1, <2>2, <2>3, <2>4, <2>5 DEF StreamOK
<1>10. CASE ReadCompletes
  <2>1. \/ posted = << >> /\ posted' = <<"read">>
        \/ posted = <<"failed">>
    <3>1. CASE posted = << >>
      <4>1. Append(<< >>, "read") = <<"read">>
        OBVIOUS
      <4> QED BY <1>10, <3>1, <4>1 DEF ReadCompletes
    <3>2. CASE posted # << >>
      BY <1>10, <3>2, Zenon DEF ReadCompletes
    <3> QED BY <3>1, <3>2
  <2>2. <<"failed">> # << >> /\ <<"failed">> # <<"read">>
    <3>1. <<"failed">>[1] # <<"read">>[1]
      OBVIOUS
    <3> QED BY <3>1
  <2>3. posted = <<"failed">> => ended # "no"
    BY <2>2 DEF StreamOK
  <2> QED BY <1>10, <2>1, <2>3 DEF ReadCompletes, client, StreamOK
<1>11. CASE OperationFails
  BY <1>11 DEF OperationFails, client, StreamOK
<1>12. CASE ServerShakesHands
  <2>1. down \in Seq(Batches \cup Shakes)
    BY <1>0 DEF TypeOK
  <2>2. down' # << >>
    BY <1>12, <2>1 DEF ServerShakesHands, Shakes
  <2> QED BY <1>12, <2>2 DEF ServerShakesHands, client, StreamOK
<1>13. CASE ServerApplies \/ ServerRefuses
  <2>1. stream = "open" /\ shaken
    BY <1>13 DEF ServerApplies, ServerRefuses, Inv, CallOK
  <2> QED BY <1>13, <2>1 DEF ServerApplies, ServerRefuses, client, StreamOK
<1>14. CASE ConnectionLost
  BY <1>14 DEF ConnectionLost, client, StreamOK
<1>15. CASE UNCHANGED vars
  BY <1>15 DEF vars, client, call, StreamOK
<1> QED BY <1>1, <1>2, <1>3, <1>4, <1>5, <1>6, <1>7, <1>8, <1>9, <1>10, <1>11, <1>12, <1>13,
           <1>14, <1>15
        DEF Next, AppStep, Trouble, StreamStep, ServerStep

LEMMA StreamInvariant == Spec => [](Inv /\ StreamOK)
<1>1. Init => StreamOK
  BY DEF Init, StreamOK
<1>2. Inv /\ StreamOK /\ [Next]_vars => StreamOK'
  BY StreamStaysOK
<1> QED BY <1>1, <1>2, Invariant, PTL DEF Spec

\* In no state, after whatever breaks, restarts and changes of account, is a write
\* of the open queue left with nothing to happen next: the stream is on its way to
\* be opened, or a request, a response or a failure of its call is to be handled
\* (remote_store.cc 370-565, stream.cc 96-330).
THEOREM QueueNeverStuck == Spec => []NeverStuck
<1>1. Inv /\ StreamOK => NeverStuck
  <2> SUFFICES ASSUME Inv, StreamOK, queue[user] # << >>, ~CanMove
               PROVE  FALSE
    BY DEF NeverStuck
  <2> USE DEF CanMove
  <2>1. TypeOK /\ pipeline # << >> /\ stream = "open"
    BY OpenQueueFacts DEF Inv, StreamOK
  <2>2. posted = << >>
    BY <2>1 DEF TypeOK, Posts, Reading, Failing
  <2>3. down = << >> /\ ended = "no" /\ up = << >>
    BY <2>2
  <2>4. shaken
    BY <2>1, <2>3 DEF StreamOK
  <2>5. up = SubSeq(pipeline, Len(down) + 1, Len(pipeline))
    BY <2>3, <2>4 DEF Inv, AnswersOK
  <2>6. SubSeq(pipeline, 1, Len(pipeline)) = pipeline
    BY OpenQueueFacts, SubSeqFull
  <2> QED BY <2>1, <2>3, <2>5, <2>6
<1> QED BY <1>1, StreamInvariant, PTL

-----------------------------------------------------------------------------
(* ... and why it comes to an end: every step descends                      *)

\* How far the call is from answering.  A lost connection is behind all that it
\* makes necessary: the close, the backoff, the token and the handshake.
CallRank ==
    IF ended = "unavailable" THEN IF shaken THEN 4 ELSE 5
    ELSE IF stream = "backoff" THEN 3
    ELSE IF stream = "starting" THEN 2
    ELSE IF stream = "open" /\ ~shaken THEN 1 ELSE 0

\* What is under way in the call: a request becomes a response, a response is
\* read; a completion is posted; the idle timer fires.
Armed   == IF idle THEN 1 ELSE 0
Transit == 3 * Len(up) + 2 * Len(down) + (2 - Len(posted)) + Armed

RankOK ==
    /\ Len(queue[user]) \in Nat
    /\ CallRank \in 0..5
    /\ Transit \in Nat
    /\ made + switches + breaks \in 0..(MaxWrites + MaxSwitches + MaxBreaks)

CallDescends ==
    \/ CallRank' < CallRank
    \/ CallRank' = CallRank /\ Transit' < Transit

\* In lexicographic order: the writes that wait, the way of the call, what is
\* under way in it.
Descends ==
    \/ Len(queue[user])' < Len(queue[user])
    \/ Len(queue[user])' = Len(queue[user]) /\ CallDescends

\* A step of the app or of the network that the bounds count.
Spends == made' + switches' + breaks' > made + switches + breaks

LEMMA PostedLength ==
    /\ \A p \in Posts : Len(p) \in 0..2
    /\ \A p \in {<< >>, <<"read">>, <<"failed">>} :
          \A a \in {"read", "failed"} : Len(Append(p, a)) = Len(p) + 1
    /\ \A p \in Posts : p # << >> => Len(p) \in 1..2
<1>1. /\ Len(<<"read">>) = 1 /\ Len(<<"failed">>) = 1
      /\ Len(<<"read", "failed">>) = 2 /\ Len(<<"failed", "read">>) = 2
  OBVIOUS
<1>2. \A p \in Posts : Len(p) \in 0..2 /\ (p # << >> => Len(p) \in 1..2)
  BY <1>1 DEF Posts
<1> DEFINE Events == {"read", "failed"}
<1>3. << >> \in Seq(Events) /\ <<"read">> \in Seq(Events) /\ <<"failed">> \in Seq(Events)
  OBVIOUS
<1>4. ASSUME NEW p \in Seq(Events), NEW a \in Events
      PROVE  Len(Append(p, a)) = Len(p) + 1
  <2> HIDE DEF Events
  <2> QED BY AppendProperties
<1>5. \A p \in {<< >>, <<"read">>, <<"failed">>} :
         \A a \in Events : Len(Append(p, a)) = Len(p) + 1
  <2> HIDE DEF Events
  <2> QED BY <1>3, <1>4
<1> QED BY <1>2, <1>5

LEMMA RankFacts == ASSUME Inv PROVE RankOK
<1>1. TypeOK /\ BoundsAssumption
  BY BoundsAssumption DEF Inv
<1>2. /\ queue[user] \in Seq(Batches)
      /\ up \in Seq(Batches \cup Shakes) /\ down \in Seq(Batches \cup Shakes)
      /\ posted \in Posts
  BY <1>1 DEF TypeOK
<1>3. /\ Len(queue[user]) \in Nat /\ Len(up) \in Nat /\ Len(down) \in Nat
      /\ Len(posted) \in 0..2
  <2>1. Len(queue[user]) \in Nat
    BY <1>2, QueueFacts
  <2>2. Len(up) \in Nat /\ Len(down) \in Nat
    BY <1>2, SeqFacts
  <2> QED BY <1>2, <2>1, <2>2, PostedLength
<1>4. Transit \in Nat
  <2>1. Armed \in {0, 1}
    BY DEF Armed
  <2>2. \A a, b \in Nat, c \in 0..2, d \in {0, 1} : 3 * a + 2 * b + (2 - c) + d \in Nat
    OBVIOUS
  <2> QED BY <1>3, <2>1, <2>2 DEF Transit
<1>5. CallRank \in 0..5
  BY DEF CallRank
<1>6. made + switches + breaks \in 0..(MaxWrites + MaxSwitches + MaxBreaks)
  BY <1>1 DEF TypeOK, BoundsAssumption
<1> QED BY <1>3, <1>4, <1>5, <1>6 DEF RankOK

\* The app, and the network, spend what the bounds allow.
LEMMA TroubleSpends ==
    ASSUME TypeOK, AppStep \/ Trouble
    PROVE  Spends
<1>1. /\ made \in Nat /\ switches \in Nat /\ breaks \in Nat
  BY BoundsAssumption DEF TypeOK
<1>2. \/ made' = made + 1 /\ switches' = switches /\ breaks' = breaks
      \/ made' = made /\ switches' = switches + 1 /\ breaks' = breaks
      \/ made' = made /\ switches' = switches /\ breaks' = breaks + 1
  BY Zenon DEF AppStep, Trouble, WriteMutations, HandleCredentialChange, AppRestarts,
               ConnectivityChanges, NoCredentials, ConnectionLost, disk
<1> QED BY <1>1, <1>2 DEF Spends

\* An answer takes the head off the queue.
LEMMA AnswerDescends ==
    ASSUME Inv, MutationResult \/ WriteRefused
    PROVE  Len(queue[user])' < Len(queue[user])
<1>1. /\ user' = user /\ pipeline # << >>
      /\ queue' = [queue EXCEPT ![user] = Without(queue[user], Head(pipeline))]
  BY Zenon DEF MutationResult, WriteRefused
<1>2. queue[user] \in Seq(Batches) /\ queue[user] # << >> /\ user \in Users
  BY <1>1, OpenQueueFacts
<1>3. queue'[user] = Tail(queue[user])
  <2>1. queue \in [Users -> Seq(Batches)]
    BY DEF Inv, TypeOK
  <2> QED BY <1>1, <1>2, <2>1, PipelineHead
<1>4. Len(Tail(queue[user])) = Len(queue[user]) - 1 /\ Len(queue[user]) \in Nat
  BY <1>2, HeadTailProperties, QueueFacts
<1>5. queue'[user'] = Tail(queue[user])
  BY <1>1, <1>3, Zenon
<1> QED BY <1>4, <1>5

\* A call that fails is denied, with a batch it was denied for, or lost.
LEMMA BreakIsLoss ==
    ASSUME Inv, StreamOK, StreamBreaks
    PROVE  ended = "unavailable"
<1>1. ended # "no"
  <2>1. <<"failed">> # << >> /\ <<"failed">> # <<"read">>
    <3>1. <<"failed">>[1] # <<"read">>[1]
      OBVIOUS
    <3> QED BY <3>1
  <2>2. <<"failed", "read">> # << >> /\ <<"failed", "read">> # <<"read">>
    <3>1. Len(<<"failed", "read">>) = 2 /\ Len(<<"read">>) = 1 /\ Len(<< >>) = 0
      OBVIOUS
    <3> QED BY <3>1
  <2> QED BY <2>1, <2>2, Zenon DEF StreamBreaks, Failing, StreamOK
<1>2. ASSUME ended = "denied" PROVE FALSE
  <2>1. stream = "open" /\ shaken
    BY <1>2 DEF Inv, CallOK
  <2>2. pipeline = << >>
    BY <1>2, <2>1 DEF StreamBreaks
  <2>3. Len(down) < Len(pipeline)
    BY <1>2, <2>1 DEF Inv, AnswersOK
  <2>4. Len(down) \in Nat
    BY SeqFacts DEF Inv, TypeOK
  <2> QED BY <2>2, <2>3, <2>4
<1> QED BY <1>1, <1>2 DEF Inv, TypeOK, Endings

\* Before the call is open and shaken, each step brings it closer.
LEMMA CallStepDescends ==
    ASSUME Inv, StreamOK,
           \/ OpenWithCredentials \/ BackoffElapses
           \/ HandshakeCompletes \/ StreamBreaks
    PROVE  CallRank' < CallRank
<1> USE DEF CallRank
<1>1. CASE OpenWithCredentials
  <2>1. ended = "no" /\ ~shaken
    BY <1>1 DEF OpenWithCredentials, Inv, CallOK
  <2> QED BY <1>1, <2>1 DEF OpenWithCredentials
<1>2. CASE BackoffElapses
  <2>1. ended = "no" /\ ~shaken
    BY <1>2 DEF BackoffElapses, Inv, CallOK
  <2> QED BY <1>2, <2>1 DEF BackoffElapses, call
<1>3. CASE HandshakeCompletes
  <2>1. stream = "open" /\ ~shaken /\ shaken'
    BY <1>3 DEF HandshakeCompletes, Inv, CallOK
  <2> QED BY <1>3, <2>1 DEF HandshakeCompletes
<1>4. CASE StreamBreaks
  <2>1. ended = "unavailable" /\ ended' = "no"
    BY <1>4, BreakIsLoss DEF StreamBreaks, DropCall
  <2> QED BY <2>1
<1> QED BY <1>1, <1>2, <1>3, <1>4

LEMMA TransitArithmetic ==
    ASSUME NEW a \in Nat, NEW b \in Nat, NEW c \in 0..2, NEW d \in {0, 1}
    PROVE  /\ c < 2 => 3*a + 2*b + (2 - (c + 1)) + d < 3*a + 2*b + (2 - c) + d
           /\ 3*(a - 1) + 2*(b + 1) + (2 - c) + d < 3*a + 2*b + (2 - c) + d
           /\ 3*(a - 1) + 2*b + (2 - c) + d < 3*a + 2*b + (2 - c) + d
           /\ c = 0 \/ b > 0 => 3*0 + 2*0 + (2 - 0) + 0 < 3*a + 2*b + (2 - c) + 1
OBVIOUS

\* On a call that is open, what is under way is.
LEMMA TransitFacts ==
    ASSUME Inv
    PROVE  /\ Len(up) \in Nat /\ Len(down) \in Nat /\ Len(posted) \in 0..2
           /\ Armed \in {0, 1} /\ CallRank \in 0..5
           /\ up # << >> => Len(Tail(up)) = Len(up) - 1
           /\ \A x \in Batches \cup Shakes : Len(Append(down, x)) = Len(down) + 1
<1>1. /\ up \in Seq(Batches \cup Shakes) /\ down \in Seq(Batches \cup Shakes)
      /\ posted \in Posts
  BY DEF Inv, TypeOK
<1>2. Len(up) \in Nat /\ Len(down) \in Nat
  BY <1>1, SeqFacts
<1>3. Len(posted) \in 0..2
  BY <1>1, PostedLength
<1>4. Armed \in {0, 1} /\ CallRank \in 0..5
  BY DEF Armed, CallRank
<1>5. up # << >> => Len(Tail(up)) = Len(up) - 1
  BY <1>1, HeadTailProperties
<1>6. \A x \in Batches \cup Shakes : Len(Append(down, x)) = Len(down) + 1
  BY <1>1, AppendProperties
<1> QED BY <1>2, <1>3, <1>4, <1>5, <1>6

LEMMA CompletionDescends ==
    ASSUME Inv, ReadCompletes \/ OperationFails
    PROVE  CallRank' = CallRank /\ Transit' < Transit
<1>1. /\ UNCHANGED <<stream, shaken, idle, up, down, ended>>
      /\ posted \in {<< >>, <<"read">>, <<"failed">>}
      /\ \E a \in {"read", "failed"} : posted' = Append(posted, a)
  BY Zenon DEF ReadCompletes, OperationFails, client
<1>2. Len(posted') = Len(posted) + 1 /\ Len(posted) < 2
  <2>1. Len(<< >>) = 0 /\ Len(<<"read">>) = 1 /\ Len(<<"failed">>) = 1
    OBVIOUS
  <2>2. Len(posted) < 2
    <3>1. posted = << >> \/ posted = <<"read">> \/ posted = <<"failed">>
      BY <1>1, Zenon
    <3>2. Len(posted) \in {0, 1}
      BY <3>1, <2>1, Zenon
    <3>3. \A n \in {0, 1} : n < 2
      OBVIOUS
    <3> QED BY <3>2, <3>3, Zenon
  <2>3. Len(posted') = Len(posted) + 1
    BY <1>1, PostedLength, Zenon
  <2> QED BY <2>2, <2>3
<1>3. CallRank' = CallRank /\ Armed' = Armed
  BY <1>1 DEF CallRank, Armed
<1> QED BY <1>1, <1>2, <1>3, TransitFacts, TransitArithmetic DEF Transit

LEMMA ServerDescends ==
    ASSUME Inv, ServerStep
    PROVE  CallRank' = CallRank /\ Transit' < Transit
<1>1. /\ UNCHANGED <<stream, shaken, idle, posted>>
      /\ up # << >> /\ up' = Tail(up) /\ ended = "no"
      /\ \/ ended' = "no" /\ down' = Append(down, Head(up))
         \/ ended' = "denied" /\ down' = down /\ shaken
  <2>1. CASE ServerShakesHands
    BY <2>1, Zenon DEF ServerShakesHands, client
  <2>2. CASE ServerApplies
    BY <2>2, Zenon DEF ServerApplies, client
  <2>3. CASE ServerRefuses
    <3>1. shaken
      BY <2>3, FirstRequest DEF ServerRefuses
    <3> QED BY <2>3, <3>1, Zenon DEF ServerRefuses, client
  <2> QED BY <2>1, <2>2, <2>3 DEF ServerStep
<1>2. stream = "open"
  BY <1>1 DEF Inv, CallOK
<1>3. CallRank' = CallRank /\ Armed' = Armed
  BY <1>1, <1>2 DEF CallRank, Armed
<1>4. Len(up') = Len(up) - 1
  BY <1>1, TransitFacts
<1>5. Len(down') = Len(down) + 1 \/ Len(down') = Len(down)
  <2>1. Head(up) \in Batches \cup Shakes
    BY <1>1, HeadTailProperties DEF Inv, TypeOK
  <2> QED BY <1>1, <2>1, TransitFacts
<1> QED BY <1>1, <1>3, <1>4, <1>5, TransitFacts, TransitArithmetic DEF Transit

LEMMA IdleTimerDescends ==
    ASSUME Inv, StreamOK, IdleTimerFires
    PROVE  CallDescends
<1>1. /\ stream = "open" /\ shaken /\ pipeline = << >> /\ idle
      /\ up' = << >> /\ down' = << >> /\ posted' = << >> /\ idle' = FALSE
      /\ stream' = "initial" /\ ended' = "no"
  BY DEF IdleTimerFires, DropCall, Inv, CallOK
<1>2. Len(down) = 0 /\ down = << >> /\ ended # "denied"
  <2>1. /\ Len(down) <= Len(pipeline)
        /\ ended = "denied" => Len(down) < Len(pipeline)
    BY <1>1 DEF Inv, AnswersOK
  <2>2. Len(pipeline) = 0
    BY <1>1
  <2>3. Len(down) \in Nat /\ (Len(down) = 0 => down = << >>)
    BY SeqFacts DEF Inv, TypeOK
  <2> QED BY <2>1, <2>2, <2>3
<1>3. CASE ended = "unavailable"
  BY <1>1, <1>3 DEF CallRank, CallDescends
<1>4. CASE ended = "no"
  <2>1. posted = << >>
    <3>1. posted \in {<< >>, <<"read">>} /\ ~Reading
      BY <1>2, <1>4, Zenon DEF StreamOK, Inv, CallOK
    <3> QED BY <3>1, Zenon DEF Reading
  <2>2. CallRank = 0 /\ CallRank' = 0
    BY <1>1, <1>4 DEF CallRank
  <2>3. /\ Len(posted) = 0
        /\ Len(up') = 0 /\ Len(down') = 0 /\ Len(posted') = 0
        /\ Armed = 1 /\ Armed' = 0
    BY <1>1, <2>1 DEF Armed
  <2>4. Transit' < Transit
    BY <2>3, <1>2, TransitFacts DEF Transit
  <2> QED BY <2>2, <2>4 DEF CallDescends
<1> QED BY <1>2, <1>3, <1>4 DEF Inv, TypeOK, Endings

LEMMA StepDescends == ASSUME Inv, StreamOK, Next PROVE Descends \/ Spends
<1>1. CASE AppStep \/ Trouble
  BY <1>1, TroubleSpends DEF Inv
<1>2. CASE MutationResult \/ WriteRefused
  BY <1>2, AnswerDescends DEF Descends
<1>3. CASE \/ OpenWithCredentials \/ BackoffElapses \/ HandshakeCompletes
           \/ StreamBreaks \/ ReadCompletes \/ OperationFails
           \/ ServerStep \/ IdleTimerFires
  <2>1. user' = user /\ queue' = queue
    BY <1>3, Zenon DEF OpenWithCredentials, BackoffElapses, HandshakeCompletes,
          StreamBreaks, ReadCompletes, OperationFails, ServerStep, ServerShakesHands,
          ServerApplies, ServerRefuses, IdleTimerFires, disk, client
  <2>2. CallDescends
    <3>1. CASE \/ OpenWithCredentials \/ BackoffElapses
               \/ HandshakeCompletes \/ StreamBreaks
      BY <3>1, CallStepDescends DEF CallDescends
    <3>2. CASE ReadCompletes \/ OperationFails
      BY <3>2, CompletionDescends DEF CallDescends
    <3>3. CASE ServerStep
      BY <3>3, ServerDescends DEF CallDescends
    <3>4. CASE IdleTimerFires
      BY <3>4, IdleTimerDescends
    <3> QED BY <1>3, <3>1, <3>2, <3>3, <3>4
  <2>3. Len(queue[user])' = Len(queue[user])
    BY <2>1, Zenon
  <2> QED BY <2>2, <2>3, Zenon DEF Descends
<1> QED BY <1>1, <1>2, <1>3, Zenon DEF Next, StreamStep

\* The SDK is never busy in vain: every step of the stream, the call, the server
\* and the timers brings the open queue closer to its answers, in a measure that
\* cannot fall for ever, unless the app or the network does something new.  With
\* QueueNeverStuck this is why resends, backoffs and restarts end with an empty
\* queue (remote_store.cc 370-565, stream.cc 96-330).
THEOREM EveryStepDescends == Spec => []RankOK /\ [][Descends \/ Spends]_vars
<1>1. Inv => RankOK
  BY RankFacts
<1>2. Inv /\ StreamOK /\ [Next]_vars => [Descends \/ Spends]_vars
  BY StepDescends
<1> QED BY <1>1, <1>2, StreamInvariant, PTL DEF Spec
=============================================================================
