----------------------------- MODULE WriteQueue -----------------------------
(***************************************************************************)
(* What the Firestore SDK promises of a write, with batches, pipelines,    *)
(* streams and retries left out: the writes of an account wait in the      *)
(* order in which they were made, they leave the queue from its head, and  *)
(* an answer is given once.  The callback hears "ok" of a write the        *)
(* database holds.  It hears "error" of a write that was refused, or of    *)
(* one whose acknowledgement was lost.                                     *)
(***************************************************************************)
EXTENDS Naturals, Sequences

CONSTANTS Users, MaxWrites

Writes  == 1..MaxWrites
Answers == {"none", "ok", "error"}

VARIABLES
    waiting,   \* waiting[u]: the writes of account u, oldest first
    made,      \* number of writes made
    bad,       \* the writes the database refuses
    applied,   \* the writes the database has applied, once or more
    told       \* what the callback of each write has heard

vars == <<waiting, made, bad, applied, told>>

Init ==
    /\ waiting = [u \in Users |-> << >>]
    /\ made = 0
    /\ bad = {}
    /\ applied = {}
    /\ told = [w \in Writes |-> "none"]

Make(u) ==
    /\ made < MaxWrites
    /\ made' = made + 1
    /\ waiting' = [waiting EXCEPT ![u] = Append(@, made + 1)]
    /\ bad' \in {bad, bad \cup {made + 1}}
    /\ UNCHANGED <<applied, told>>

\* A write can reach the database before an earlier one of the same account
\* has been acknowledged, and again when its own acknowledgement is lost.
Apply(u) ==
    /\ \E i \in DOMAIN waiting[u] :
          /\ waiting[u][i] \notin bad
          /\ \A j \in 1..(i - 1) : waiting[u][j] \in applied
          /\ applied' = applied \cup {waiting[u][i]}
    /\ UNCHANGED <<waiting, made, bad, told>>

\* The head leaves the queue.  Its callback may be gone with an earlier run
\* of the app, and has then nothing to hear.
Leave(u, answer) ==
    /\ waiting[u] # << >>
    /\ waiting' = [waiting EXCEPT ![u] = Tail(@)]
    /\ \/ told' = told
       \/ /\ told[Head(waiting[u])] = "none"
          /\ told' = [told EXCEPT ![Head(waiting[u])] = answer]
    /\ UNCHANGED <<made, bad, applied>>

Acknowledge(u) ==
    /\ waiting[u] # << >>
    /\ Head(waiting[u]) \in applied
    /\ Leave(u, "ok")

Reject(u) ==
    /\ waiting[u] # << >>
    /\ Head(waiting[u]) \in bad \cup applied
    /\ Leave(u, "error")

\* The app hears of the acknowledgement and dies before the queue is updated.
HearAndDie(u) ==
    /\ waiting[u] # << >>
    /\ Head(waiting[u]) \in applied
    /\ told[Head(waiting[u])] = "none"
    /\ told' = [told EXCEPT ![Head(waiting[u])] = "ok"]
    /\ UNCHANGED <<waiting, made, bad, applied>>

Next == \E u \in Users :
    Make(u) \/ Apply(u) \/ Acknowledge(u) \/ Reject(u) \/ HearAndDie(u)

Spec == Init /\ [][Next]_vars
=============================================================================
