------------------------------ MODULE RetryQueue ------------------------------
(***************************************************************************)
(* The webhook retry queue: RetryQueue (gateway/retry.py) and the loop     *)
(* that drives it (_retry_loop of main.py), with crashes of the process    *)
(* and failing writes to retries.db.                                       *)
(*                                                                         *)
(* One pass reads a batch of due rows and then, row by row, posts and      *)
(* writes down the result, from what it read at the start of the pass.     *)
(* The pass is suspended only while a POST is under way and while the      *)
(* client of an answered one closes: an action is what happens between.    *)
(***************************************************************************)
EXTENDS Naturals, FiniteSets

CONSTANTS
    MaxRecords,     \* bound: how many deliveries are ever enqueued
    MaxAttempts,    \* max_attempts of every record: 5
    BatchSize,      \* the LIMIT of the pass: 10
    MaxDelay,       \* the longest backoff, in clock ticks: an hour
    Pause,          \* the sleep between two passes, in clock ticks: a minute
    MaxFaults       \* bound: crashes, failing writes and failing closes

ASSUME RetryAssumption ==
    /\ MaxRecords \in Nat
    /\ MaxAttempts \in Nat \ {0}
    /\ BatchSize \in Nat \ {0}
    /\ MaxDelay \in Nat \ {0}
    /\ Pause \in Nat
    /\ MaxFaults \in Nat

VARIABLES
    row,        \* row[r]: the row with id r of table webhook_retries
    batch,      \* the ids a pass has still to handle; the lowest is in hand
    seen,       \* seen[r]: the attempt the pass read for r
    nap,        \* ticks until the loop wakes up
    faults,     \* crashes, failing writes and failing closes so far
    posts,      \* observer: how often r was posted
    lost,       \* observer: how many posts of r were never recorded
    answered    \* observer: the records a receiver has answered below 500

vars == <<row, batch, seen, nap, faults, posts, lost, answered>>

-------------------------------------------------------------------------------
(* State *)

\* AUTOINCREMENT: ids are given out in order.
Records == 1..MaxRecords

Statuses == {"absent", "pending", "delivered", "failed"}

Settled == {"delivered", "failed"}

\* `wait' is what is left of next_retry_at - now.
Row == [status : Statuses, attempt : 0..MaxAttempts, wait : 0..MaxDelay]

\* The record in hand: rows come in the order of their ids.
InHand(r) == r \in batch /\ \A s \in batch : r <= s

Posting(r) == InHand(r) /\ row[r].status = "pending"

\* It is marked, and the `async with' is closing the client it was posted by.
Closing(r) == InHand(r) /\ row[r].status = "delivered"

Init ==
    /\ row = [r \in Records |-> [status |-> "absent", attempt |-> 0, wait |-> 0]]
    /\ batch = {}
    /\ seen = [r \in Records |-> 0]
    /\ nap = 0
    /\ faults = 0
    /\ posts = [r \in Records |-> 0]
    /\ lost = [r \in Records |-> 0]
    /\ answered = {}

-------------------------------------------------------------------------------
(* Enqueueing *)

Enqueue(r) ==
    /\ row[r].status = "absent"
    /\ \A s \in 1..(r - 1) : row[s].status # "absent"
    /\ row' = [row EXCEPT ![r] = [status |-> "pending", attempt |-> 0, wait |-> 0]]
    /\ UNCHANGED <<batch, seen, nap, faults, posts, lost, answered>>

-------------------------------------------------------------------------------
(* One pass *)

\* Mutant: the pass forgets to ask for the status.
Due_AnyStatus == {r \in Records : row[r].status # "absent" /\ row[r].wait = 0}

\* Mutant: a guard in the query, off by one, shuts the last attempt out.
Due_ShortOfLast ==
    {r \in Records : /\ row[r].status = "pending"
                     /\ row[r].wait = 0
                     /\ row[r].attempt + 1 < MaxAttempts}

Due == {r \in Records : row[r].status = "pending" /\ row[r].wait = 0}

Picked == {r \in Due : Cardinality({s \in Due : s < r}) < BatchSize}

\* The pass goes on with the ids in b: the lowest of them is posted, or else
\* the pass is over and the loop sleeps.
GoOn(b) ==
    /\ batch' = b
    /\ posts' = [r \in Records |->
                   IF r \in b /\ \A s \in b : r <= s THEN posts[r] + 1 ELSE posts[r]]
    /\ nap' = IF b = {} THEN Pause ELSE nap

\* The loop wakes up and reads the rows that are due.
Scan ==
    /\ batch = {}
    /\ nap = 0
    /\ GoOn(Picked)
    /\ seen' = [r \in Records |-> row[r].attempt]
    /\ UNCHANGED <<row, faults, lost, answered>>

\* Mutant: the delay is never capped.
Backoff_Uncapped(n) == 2^n

\* The doubling delay, or the longest one where the doubling goes past it.
Backoff(n) == IF 2^n \in 1..MaxDelay THEN 2^n ELSE MaxDelay

\* Mutant: the record fails one attempt early.
AttemptFailed_Early(r, status) ==
    LET attempt == seen[r] + 1
    IN  row' = [row EXCEPT ![r] =
                  IF attempt + 1 >= MaxAttempts
                  THEN [@ EXCEPT !.status = "failed"]
                  ELSE [status |-> status, attempt |-> attempt,
                        wait |-> Backoff(attempt)]]

\* The except clause: one more attempt, counted from the attempt that was read
\* at the start of the pass.  `status' is what this connection has made of the
\* row, committed or not: a row out of attempts keeps its old count.
AttemptFailed(r, status) ==
    LET attempt == seen[r] + 1
    IN  row' = [row EXCEPT ![r] =
                  IF attempt >= MaxAttempts
                  THEN [@ EXCEPT !.status = "failed"]
                  ELSE [status |-> status, attempt |-> attempt,
                        wait |-> Backoff(attempt)]]

\* An answer below 500, a client error among them, settles the record.
Delivered(r) ==
    /\ Posting(r)
    /\ row' = [row EXCEPT ![r].status = "delivered"]
    /\ answered' = answered \union {r}
    /\ UNCHANGED <<batch, seen, nap, faults, posts, lost>>

ClientCloses(r) ==
    /\ Closing(r)
    /\ GoOn(batch \ {r})
    /\ UNCHANGED <<row, seen, faults, lost, answered>>

\* Mutant: the status code is not looked at.
Refused_Unchecked(r) ==
    /\ Posting(r)
    /\ row' = [row EXCEPT ![r].status = "delivered"]
    /\ GoOn(batch \ {r})
    /\ UNCHANGED <<seen, faults, lost, answered>>

\* A server error, no connection, or the ten seconds are over.
Refused(r) ==
    /\ Posting(r)
    /\ AttemptFailed(r, "pending")
    /\ GoOn(batch \ {r})
    /\ UNCHANGED <<seen, faults, lost, answered>>

Fault == faults < MaxFaults /\ faults' = faults + 1

\* The receiver answers but the UPDATE, or the commit after it, raises: the
\* same except clause takes it for a failed delivery.  After a commit that
\* failed, the clause's own commit writes the first UPDATE down as well.
MarkFails(r) ==
    /\ Posting(r)
    /\ Fault
    /\ \E status \in {"pending", "delivered"} : AttemptFailed(r, status)
    /\ answered' = answered \union {r}
    /\ GoOn(batch \ {r})
    /\ UNCHANGED <<seen, lost>>

\* The client is closed inside the try: what it raises is taken for a failed
\* delivery, too, and the mark is already committed.
CloseFails(r) ==
    /\ Closing(r)
    /\ Fault
    /\ AttemptFailed(r, "delivered")
    /\ GoOn(batch \ {r})
    /\ UNCHANGED <<seen, lost, answered>>

\* The pass ends here, with nothing written about the record in hand.
Abandon(pause) ==
    /\ batch' = {}
    /\ nap' = pause
    /\ lost' = [r \in Records |-> IF Posting(r) THEN lost[r] + 1 ELSE lost[r]]
    /\ UNCHANGED <<row, seen, posts>>

\* A write in the except clause raises: process ends, _retry_loop swallows the
\* exception, and what was not committed is rolled back.
Abort(r, gotAnswer) ==
    /\ InHand(r)
    /\ Fault
    /\ answered' = IF gotAnswer THEN answered \union {r} ELSE answered
    /\ Abandon(Pause)

\* The process stops, with or without an answer on its way, and starts again:
\* the new loop begins with a pass.
Crash ==
    /\ Fault
    /\ Abandon(0)
    /\ UNCHANGED answered

Tick ==
    /\ nap > 0 \/ \E r \in Records : row[r].wait > 0
    /\ row' = [r \in Records |->
                 IF row[r].wait > 0 THEN [row[r] EXCEPT !.wait = @ - 1] ELSE row[r]]
    /\ nap' = IF nap > 0 THEN nap - 1 ELSE nap
    /\ UNCHANGED <<batch, seen, faults, posts, lost, answered>>

Answer(r) == Delivered(r) \/ ClientCloses(r) \/ Refused(r)

Next ==
    \/ Scan
    \/ \E r \in Records :
         \/ Enqueue(r)
         \/ Answer(r)
         \/ MarkFails(r)
         \/ CloseFails(r)
         \/ \E gotAnswer \in BOOLEAN : Abort(r, gotAnswer)
    \/ Crash
    \/ Tick

\* Time passes, the event loop resumes a task that can run, and httpx bounds
\* every POST.
Fairness ==
    /\ WF_vars(Tick)
    /\ WF_vars(Scan)
    /\ \A r \in Records : WF_vars(Answer(r))

Spec == Init /\ [][Next]_vars /\ Fairness

-------------------------------------------------------------------------------
(* Properties *)

TypeOK ==
    /\ row \in [Records -> Row]
    /\ batch \subseteq Records
    /\ seen \in [Records -> 0..MaxAttempts]
    /\ nap \in 0..Pause
    /\ faults \in 0..MaxFaults
    /\ posts \in [Records -> Nat]
    /\ lost \in [Records -> Nat]
    /\ answered \subseteq Records

InFlight(r) == IF Posting(r) THEN 1 ELSE 0

Accounted(r) ==
    LET status     == row[r].status
        unrecorded == lost[r] + InFlight(r)
    IN  /\ status = "absent"    => posts[r] = 0 /\ lost[r] = 0
        /\ status = "pending"   => posts[r] = row[r].attempt + unrecorded
        /\ status = "failed"    => posts[r] = MaxAttempts + unrecorded
        /\ status = "delivered" => posts[r] \in 1..(MaxAttempts + lost[r])

\* Every POST is accounted for: it is recorded in `attempt', is on its way, or
\* is one a crash or an aborted pass has lost.  So a receiver never sees a
\* record more than MaxAttempts times unless posts were lost, and a record
\* fails only after MaxAttempts recorded attempts.
PostsAccounted == \A r \in Records : Accounted(r)

\* A record marked delivered was answered: no crash, late write or abandoned
\* pass marks a record whose receiver has said nothing.
DeliveredWasAnswered ==
    \A r \in Records : row[r].status = "delivered" => r \in answered

\* A settled record is never posted again and stays as it is, though a pass
\* works from rows it read before other rows of the batch were handled.  Only
\* while its client closes can a delivered record still be given up.
SettledIsFinal ==
    [][\A r \in Records : row[r].status \in Settled =>
         /\ posts'[r] = posts[r]
         /\ \/ row'[r].status = row[r].status
            \/ Closing(r) /\ row'[r].status = "failed"]_vars

\* Every record is delivered or given up in the end: no crash strands it, and
\* no other record's retries keep it out of the batches for ever.
EveryRecordSettles ==
    \A r \in Records : row[r].status = "pending" ~> row[r].status \in Settled

===============================================================================
