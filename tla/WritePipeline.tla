--------------------------- MODULE WritePipeline ---------------------------
(***************************************************************************)
(* The path of a write of the app through the Firestore SDK: SyncEngine,   *)
(* LocalStore and its persistent queue of mutation batches per account,    *)
(* RemoteStore and its pipeline, the write stream with its handshake, idle *)
(* timer and backoff, and the gRPC call below.                             *)
(*                                                                         *)
(* SDK code runs on one worker queue: a step of the module is one          *)
(* operation of that queue, with every call it makes.  The server, the     *)
(* loss of connections, restarts of the app and changes of account fall    *)
(* between any two of them.                                                *)
(*                                                                         *)
(* Batch ids are handed out again once the queues that held them drain, so *)
(* the module also numbers the writes, 1, 2, ..., in the order they are    *)
(* made; the code never sees these numbers.                                *)
(***************************************************************************)
EXTENDS Integers, Sequences

CONSTANTS
    Users,         \* accounts of the device, signed out being one of them
    PipelineSize,  \* kMaxPendingWrites
    MaxWrites,     \* bound: writes made
    MaxSwitches,   \* bound: changes of account
    MaxBreaks      \* bound: broken calls, tokens not got, restarts of app or network

ASSUME PipelineSizeAssumption == PipelineSize \in Nat \ {0}
ASSUME BoundsAssumption ==
    MaxWrites \in Nat /\ MaxSwitches \in Nat /\ MaxBreaks \in Nat

Writes  == 1..MaxWrites
Answers == {"none", "ok", "error"}
Batches == [id : Writes, write : Writes]

\* What the two ends of the stream say to each other: a handshake and its
\* answer, a batch and its acknowledgement.
Shake == [id |-> 0, write |-> 0]
Shakes == {Shake}

VARIABLES
    user,       \* current_user_, whose queue LocalStore has open
    queue,      \* queue[u]: the mutation batches of u, on disk
    nextId,     \* next_batch_id_
    callbacks,  \* mutation_callbacks_[u], with the write each belongs to
    pipeline,   \* write_pipeline_
    stream,     \* state_ of the write stream ("open" is Open or Healthy)
    shaken,     \* handshake_complete_
    idle,       \* idleness_timer_ is armed
    up,         \* requests given to gRPC the server has not taken
    down,       \* responses of the server not handled yet
    ended,      \* how the server, or the network, has ended the call
    posted,     \* completions on the worker queue: of the Read that got the
                \* first of the responses, and of an operation that failed
    made,       \* number of writes made
    bad,        \* the writes the server refuses
    applied,    \* history: applied[u], the writes of u the server has applied
    value,      \* value[u]: the last of them to be applied, what the server holds
    told,       \* history: what the callback of each write has heard
    switches, breaks

disk   == <<queue, made, bad>>
client == <<user, nextId, callbacks, pipeline, stream, shaken, idle>>
call   == <<up, down, ended, posted>>
server == <<applied, value>>
vars   == <<disk, client, call, server, told, switches, breaks>>

Streams == {"initial", "starting", "open", "error", "backoff"}
Endings == {"no", "denied", "unavailable"}
Posts   == {<< >>, <<"read">>, <<"failed">>,
            <<"read", "failed">>, <<"failed", "read">>}

TypeOK ==
    /\ user \in Users
    /\ queue \in [Users -> Seq(Batches)]
    /\ nextId \in 1..(MaxWrites + 1)
    /\ callbacks \in [Users -> SUBSET Batches]
    /\ pipeline \in Seq(Batches)
    /\ stream \in Streams /\ shaken \in BOOLEAN /\ idle \in BOOLEAN
    /\ up \in Seq(Batches \cup Shakes)
    /\ down \in Seq(Batches \cup Shakes)
    /\ ended \in Endings
    /\ posted \in Posts
    /\ made \in 0..MaxWrites
    /\ bad \subseteq Writes
    /\ applied \in [Users -> SUBSET Writes]
    /\ value \in [Users -> 0..MaxWrites]
    /\ told \in [Writes -> Answers]
    /\ switches \in 0..MaxSwitches
    /\ breaks \in 0..MaxBreaks

-----------------------------------------------------------------------------
(* Queue and pipeline                                                      *)

Elements(s) == {s[i] : i \in DOMAIN s}

\* Mutant: ids start over.
LoadFirstBatchId(queues) == 1

\* Mutant: the largest id on disk, and not the one after it.
LoadLastBatchId(queues) ==
    CHOOSE n \in 0..MaxWrites :
        /\ \A u \in Users : \A b \in Elements(queues[u]) : b.id <= n
        /\ n = 0 \/ \E u \in Users : \E b \in Elements(queues[u]) : b.id = n

\* LoadNextBatchIdFromDb: one more than the largest id on disk.
LoadNextBatchId(queues) ==
    CHOOSE n \in 1..(MaxWrites + 1) :
        /\ \A u \in Users : \A b \in Elements(queues[u]) : b.id < n
        /\ \A m \in 1..(n - 1) :
              \E u \in Users : \E b \in Elements(queues[u]) : b.id >= m

Least(m, n) == IF m < n THEN m ELSE n

\* GetNextMutationBatch, repeated while there is room: the pipeline and the
\* batches of the queue with larger ids.
Refilled(batches, pipe) ==
    LET last == IF pipe = << >> THEN 0 ELSE pipe[Len(pipe)].id
        have == CHOOSE n \in 0..Len(batches) :
                    \A i \in DOMAIN batches : i > n <=> batches[i].id > last
        room == PipelineSize - Len(pipe)
    IN  pipe \o SubSeq(batches, have + 1, Least(Len(batches), have + room))

\* Stream::Start, of a stream that is not started.
Started(state) ==
    IF state = "initial" THEN "starting"
    ELSE IF state = "error" THEN "backoff" ELSE state

\* Mutant: a new write leaves the idle timer armed.
FillTimed(batches, pipe, state) ==
    LET full == Refilled(batches, pipe)
        new  == SubSeq(full, Len(pipe) + 1, Len(full))
    IN  /\ pipeline' = full
        /\ stream' = IF full = << >> THEN state ELSE Started(state)
        /\ up' = IF state = "open" /\ shaken THEN up \o new ELSE up
        /\ idle' = (idle \/ (state = "open" /\ full = << >>))

\* FillWritePipeline with the batches of the user, the pipeline and the state
\* of the stream a handler has come to: send what is new if the handshake is
\* done, else leave it to that; arm the idle timer when there is nothing; start
\* the stream when there is something.
FillWritePipeline(batches, pipe, state) ==
    LET full == Refilled(batches, pipe)
        new  == SubSeq(full, Len(pipe) + 1, Len(full))
        send == state = "open" /\ shaken /\ new # << >>
    IN  /\ pipeline' = full
        /\ stream' = IF full = << >> THEN state ELSE Started(state)
        /\ up' = IF send THEN up \o new ELSE up
        /\ idle' = IF send THEN FALSE
                   ELSE idle \/ (state = "open" /\ full = << >>)

\* Mutant: the next call is taken to have its handshake behind it.
DropCallNotHandshake ==
    /\ down' = << >>
    /\ ended' = "no"
    /\ posted' = << >>
    /\ shaken' = shaken

\* Mutant: responses of the old call still come in.
DropCallNotResponses ==
    /\ down' = down
    /\ ended' = "no"
    /\ posted' = posted
    /\ shaken' = FALSE

\* Close: the call goes, with everything that was under way in it.
DropCall ==
    /\ down' = << >>
    /\ ended' = "no"
    /\ posted' = << >>
    /\ shaken' = FALSE

\* RestartNetwork, or Start in a new process: an empty pipeline, no backoff,
\* filled from the queue.
RestartNetwork(batches) ==
    /\ DropCall
    /\ up' = << >>
    /\ idle' = FALSE
    /\ pipeline' = Refilled(batches, << >>)
    /\ stream' = IF batches = << >> THEN "initial" ELSE "starting"

\* NotifyUser: the callback with the id of the batch, if this process has one.
NotifyUser(batch, answer) ==
    LET found == {c \in callbacks[user] : c.id = batch.id}
    IN  /\ told' = [w \in Writes |->
                      IF \E c \in found : c.write = w THEN answer ELSE told[w]]
        /\ callbacks' = [callbacks EXCEPT ![user] = @ \ found]

\* RemoveMutationBatch, of a batch that is there.
Without(batches, batch) ==
    LET i == CHOOSE i \in DOMAIN batches : batches[i].id = batch.id
    IN  SubSeq(batches, 1, i - 1) \o SubSeq(batches, i + 1, Len(batches))

\* What the worker queue comes to next: a response (OnStreamRead), or a failed
\* operation.
Reading == posted \in {<<"read">>, <<"read", "failed">>}
Failing == posted \in {<<"failed">>, <<"failed", "read">>}

-----------------------------------------------------------------------------
Init ==
    /\ user \in Users
    /\ queue = [u \in Users |-> << >>]
    /\ nextId = 1
    /\ callbacks = [u \in Users |-> {}]
    /\ pipeline = << >>
    /\ stream = "initial" /\ shaken = FALSE /\ idle = FALSE
    /\ up = << >> /\ down = << >> /\ ended = "no" /\ posted = << >>
    /\ made = 0
    /\ bad = {}
    /\ applied = [u \in Users |-> {}]
    /\ value = [u \in Users |-> 0]
    /\ told = [w \in Writes |-> "none"]
    /\ switches = 0 /\ breaks = 0

-----------------------------------------------------------------------------
(* Operations of the app and of the system                                 *)

\* SyncEngine::WriteMutations
WriteMutations ==
    /\ made < MaxWrites
    /\ made' = made + 1
    /\ bad' \in {bad, bad \cup {made + 1}}
    /\ LET batch == [id |-> nextId, write |-> made + 1]
           added == Append(queue[user], batch)
       IN  /\ queue' = [queue EXCEPT ![user] = added]
           /\ callbacks' = [callbacks EXCEPT ![user] = @ \cup {batch}]
           /\ FillWritePipeline(added, pipeline, stream)
    /\ nextId' = nextId + 1
    /\ UNCHANGED <<user, shaken, down, ended, posted, server, told, switches, breaks>>

\* SyncEngine::HandleCredentialChange: the same user again also restarts the
\* streams (a refreshed token), and opens no queue anew.
HandleCredentialChange ==
    /\ switches < MaxSwitches
    /\ switches' = switches + 1
    /\ user' \in Users
    /\ nextId' = IF user' = user THEN nextId ELSE LoadNextBatchId(queue)
    /\ RestartNetwork(queue[user'])
    /\ UNCHANGED <<disk, callbacks, server, told, breaks>>

\* The connectivity callback of RemoteStore::Start.
ConnectivityChanges ==
    /\ breaks < MaxBreaks
    /\ breaks' = breaks + 1
    /\ RestartNetwork(queue[user])
    /\ UNCHANGED <<user, nextId, callbacks, disk, server, told, switches>>

\* The process dies and the app is started again with the same account.  When
\* it dies between NotifyUser and AcknowledgeBatch, the app has heard of an
\* acknowledgement the disk has not.
AppRestarts ==
    /\ breaks < MaxBreaks
    /\ breaks' = breaks + 1
    /\ \/ told' = told
       \/ /\ Reading /\ shaken /\ pipeline # << >>
          /\ \E c \in callbacks[user] :
                /\ c.id = Head(pipeline).id
                /\ told' = [told EXCEPT ![c.write] = "ok"]
    /\ nextId' = LoadNextBatchId(queue)
    /\ callbacks' = [u \in Users |-> {}]
    /\ RestartNetwork(queue[user])
    /\ UNCHANGED <<user, disk, server, switches>>

-----------------------------------------------------------------------------
(* The write stream                                                        *)

\* ResumeStartWithCredentials with a token: the call is made, the stream is
\* open at once, and OnWriteStreamOpen sends the handshake.
OpenWithCredentials ==
    /\ stream = "starting"
    /\ stream' = "open"
    /\ up' = <<Shake>>
    /\ UNCHANGED <<user, nextId, callbacks, pipeline, shaken, idle, disk, down,
                   ended, posted, server, told, switches, breaks>>

\* ... and with an error instead of a token: closed, and started again.
NoCredentials ==
    /\ stream = "starting"
    /\ breaks < MaxBreaks
    /\ breaks' = breaks + 1
    /\ DropCall
    /\ up' = << >>
    /\ idle' = FALSE
    /\ stream' = IF pipeline = << >> THEN "error" ELSE Started("error")
    /\ UNCHANGED <<user, nextId, callbacks, pipeline, disk, server, told, switches>>

\* BackoffAndTryRestarting, when the delay is over.
BackoffElapses ==
    /\ stream = "backoff"
    /\ stream' = "starting"
    /\ UNCHANGED <<user, nextId, callbacks, pipeline, shaken, idle, disk, call,
                   server, told, switches, breaks>>

\* The idle timer of MarkIdle: Stop.
IdleTimerFires ==
    /\ idle
    /\ DropCall
    /\ up' = << >>
    /\ idle' = FALSE
    /\ stream' = "initial"
    /\ UNCHANGED <<user, nextId, callbacks, pipeline, disk, server, told,
                   switches, breaks>>

\* The first response answers the handshake: OnWriteStreamHandshakeComplete
\* sends the pipeline.
HandshakeCompletes ==
    /\ Reading /\ ~shaken
    /\ posted' = Tail(posted)
    /\ down' = Tail(down)
    /\ shaken' = TRUE
    /\ up' = up \o pipeline
    /\ idle' = (idle /\ pipeline = << >>)
    /\ UNCHANGED <<user, nextId, callbacks, pipeline, stream, disk, ended,
                   server, told, switches, breaks>>

\* Mutant: the slot that is freed is not filled.
MutationResultAlone ==
    /\ Reading /\ shaken
    /\ pipeline # << >>
    /\ posted' = Tail(posted)
    /\ down' = Tail(down)
    /\ NotifyUser(Head(pipeline), "ok")
    /\ queue' = [queue EXCEPT ![user] = Without(queue[user], Head(pipeline))]
    /\ pipeline' = Tail(pipeline)
    /\ idle' = (idle \/ pipeline' = << >>)
    /\ UNCHANGED <<user, nextId, shaken, made, bad, ended, server,
                   stream, up, switches, breaks>>

\* OnWriteStreamMutationResult: the response is taken to answer the first
\* batch of the pipeline.
MutationResult ==
    /\ Reading /\ shaken
    /\ pipeline # << >>
    /\ posted' = Tail(posted)
    /\ down' = Tail(down)
    /\ NotifyUser(Head(pipeline), "ok")
    /\ LET rest == Without(queue[user], Head(pipeline))
       IN  /\ queue' = [queue EXCEPT ![user] = rest]
           /\ FillWritePipeline(rest, Tail(pipeline), stream)
    /\ UNCHANGED <<user, nextId, shaken, made, bad, ended, server,
                   switches, breaks>>

\* A failed operation finishes the call: the completions still to come are
\* cancelled, an unread response among them, and OnStreamFinish closes the
\* stream with the status of the call.  A refusal, after the handshake, is
\* taken to answer the first batch of the pipeline (HandleWriteError), and the
\* stream starts again without a backoff.
WriteRefused ==
    /\ Failing
    /\ ended = "denied" /\ shaken /\ pipeline # << >>
    /\ DropCall
    /\ LET rest == Without(queue[user], Head(pipeline))
           full == Refilled(rest, Tail(pipeline))
       IN  /\ queue' = [queue EXCEPT ![user] = rest]
           /\ pipeline' = full
           /\ stream' = IF full = << >> THEN "initial" ELSE "starting"
    /\ NotifyUser(Head(pipeline), "error")
    /\ up' = << >>
    /\ idle' = FALSE
    /\ UNCHANGED <<user, nextId, made, bad, server, switches, breaks>>

\* Any other end of the call: the pipeline is kept and sent again.
StreamBreaks ==
    /\ Failing
    /\ ~(ended = "denied" /\ shaken /\ pipeline # << >>)
    /\ DropCall
    /\ up' = << >>
    /\ idle' = FALSE
    /\ stream' = IF pipeline = << >> THEN "error" ELSE Started("error")
    /\ UNCHANGED <<user, nextId, callbacks, pipeline, disk, server, told,
                   switches, breaks>>

-----------------------------------------------------------------------------
(* The call below, and the server                                          *)

\* A response arrives for the Read that GrpcStream keeps outstanding: the next
\* Read is issued only when this one is handled.
ReadCompletes ==
    /\ down # << >>
    /\ posted \in {<< >>, <<"failed">>}
    /\ posted' = Append(posted, "read")
    /\ UNCHANGED <<client, disk, up, down, ended, server, told, switches, breaks>>

\* Once the call has ended, a Read with nothing left to read fails, and so does
\* a Write that comes after the end or waits in the BufferedWriter: a request
\* the server has not taken.
OperationFails ==
    /\ ended # "no"
    /\ \/ posted = << >> /\ down = << >>
       \/ posted = <<"read">> /\ up # << >>
    /\ posted' = Append(posted, "failed")
    /\ UNCHANGED <<client, disk, up, down, ended, server, told, switches, breaks>>

\* The server takes the next request: the handshake, a write it applies, or
\* one it refuses by ending the call.
ServerShakesHands ==
    /\ ended = "no" /\ up # << >> /\ Head(up) = Shake
    /\ up' = Tail(up)
    /\ down' = Append(down, Shake)
    /\ UNCHANGED <<client, disk, ended, posted, server, told, switches, breaks>>

ServerApplies ==
    /\ ended = "no" /\ up # << >> /\ Head(up) # Shake
    /\ LET write == Head(up).write
       IN  /\ write \notin bad
           /\ applied' = [applied EXCEPT ![user] = @ \cup {write}]
           /\ value' = [value EXCEPT ![user] = write]
    /\ down' = Append(down, Head(up))
    /\ up' = Tail(up)
    /\ UNCHANGED <<client, disk, ended, posted, told, switches, breaks>>

ServerRefuses ==
    /\ ended = "no" /\ up # << >> /\ Head(up) # Shake
    /\ Head(up).write \in bad
    /\ up' = Tail(up)
    /\ ended' = "denied"
    /\ UNCHANGED <<client, disk, down, posted, server, told, switches, breaks>>

\* The connection is lost, with what was in transit from the server.
ConnectionLost ==
    /\ stream = "open" /\ ended = "no"
    /\ breaks < MaxBreaks
    /\ breaks' = breaks + 1
    /\ ended' = "unavailable"
    /\ \E n \in Len(posted)..Len(down) : down' = SubSeq(down, 1, n)
    /\ UNCHANGED <<client, disk, up, posted, server, told, switches>>

-----------------------------------------------------------------------------
AppStep == WriteMutations \/ HandleCredentialChange \/ AppRestarts

Trouble == ConnectivityChanges \/ NoCredentials \/ ConnectionLost

StreamStep ==
    \/ OpenWithCredentials \/ BackoffElapses \/ HandshakeCompletes
    \/ MutationResult \/ WriteRefused \/ StreamBreaks
    \/ ReadCompletes \/ OperationFails

ServerStep == ServerShakesHands \/ ServerApplies \/ ServerRefuses

Next == AppStep \/ Trouble \/ StreamStep \/ ServerStep \/ IdleTimerFires

Spec == Init /\ [][Next]_vars

\* The worker queue runs, timers fire, tokens come and the server answers.
FairSpec == Spec /\ WF_vars(StreamStep \/ ServerStep)

-----------------------------------------------------------------------------
(* Properties                                                              *)

\* The pipeline is the head of the open queue, as much of it as fits: no write
\* is skipped, and none is left waiting for a step nobody will take.
PipelineIsHeadOfQueue ==
    pipeline = Refilled(queue[user], << >>)

\* A response names no batch: it is matched with the batch at its place in the
\* pipeline, whatever calls were broken off, restarted or refilled before it
\* came ("Got result for empty write pipeline" cannot fire either).
ResponsesMatch ==
    shaken => /\ Len(down) <= Len(pipeline)
              /\ \A i \in DOMAIN down : down[i] = pipeline[i]

\* An id names one batch on disk, whatever accounts and restarts came between,
\* and a callback belongs to a batch still in the queue of its account: looked
\* up by its id, a callback never hears the answer to another write.
CallbacksQueued ==
    /\ \A u, v \in Users :
          \A i \in DOMAIN queue[u], j \in DOMAIN queue[v] :
              queue[u][i].id = queue[v][j].id => u = v /\ i = j
    /\ \A u \in Users : callbacks[u] \subseteq Elements(queue[u])

\* "Write stream was stopped gracefully while still needed." (the assertion in
\* OnWriteStreamClose) cannot fire on the idle timer: a timer that is armed
\* finds the pipeline empty.
IdleOnlyWhenDrained ==
    idle => stream = "open" /\ pipeline = << >>

\* Writes are sent again when their acknowledgement is lost, and can put an
\* old value back; the later writes of the account that repair it are then
\* still in its queue.
ServerCatchesUp ==
    \A u \in Users : \A w \in applied[u] :
        w > value[u] => \E b \in Elements(queue[u]) : b.write = w

\* "the request itself was the problem" (HandleWriteError): a callback that
\* hears an error belongs to a write the server refuses.
RejectedIsTheProblem ==
    \A w \in Writes : told[w] = "error" => w \in bad

WritesOf(batches) == [i \in DOMAIN batches |-> batches[i].write]

Queue == INSTANCE WriteQueue WITH
    waiting <- [u \in Users |-> WritesOf(queue[u])],
    applied <- UNION {applied[u] : u \in Users}

\* The whole path, with its pipeline, resends and restarts, is the queue the
\* app relies on: answers in order, once, "ok" only for what was applied.
IsAWriteQueue == Queue!Spec

\* Once the account and the connection stay, every write is settled.
EventuallyDrained == <>[](queue[user] = << >>)
=============================================================================
