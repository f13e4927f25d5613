--------------------------- MODULE RetryQueue_proofs ---------------------------
(***************************************************************************)
(* Proofs about RetryQueue, for any number of records, attempts, faults,   *)
(* and any batch size and backoff.                                         *)
(*                                                                         *)
(* The accounting of posts is inductive only with what a pass relies on:   *)
(* the rows it read are still as it read them when their turn comes        *)
(* (BatchIsFresh).  With it, each answer moves exactly one post from       *)
(* "under way" to "recorded".  A record whose client is closing needs its  *)
(* exact count (ClosingCounted): it may still be given up.                 *)
(***************************************************************************)
EXTENDS RetryQueue, TLAPS

\* What a pass still has to handle has the attempt it read, and is pending or
\* the record it has just marked.
BatchIsFresh ==
    \A r \in batch : seen[r] = row[r].attempt /\ (row[r].status = "pending" \/ Closing(r))

\* The record whose client is closing had an attempt left, and its post is one
\* more than those recorded and lost.
ClosingCounted ==
    \A r \in Records :
        Closing(r) => seen[r] < MaxAttempts /\ posts[r] = seen[r] + 1 + lost[r]

\* Attempts stay below the limit while a record is pending.
AttemptsLeft ==
    \A r \in Records : row[r].status = "pending" => row[r].attempt < MaxAttempts

IInv ==
    /\ TypeOK
    /\ AttemptsLeft
    /\ BatchIsFresh
    /\ ClosingCounted
    /\ PostsAccounted
    /\ DeliveredWasAnswered

-------------------------------------------------------------------------------
(* Small facts *)

\* A backoff is a number of ticks within MaxDelay.
LEMMA BackoffType ==
    ASSUME NEW n \in Nat
    PROVE  Backoff(n) \in 0..MaxDelay
<1>1. MaxDelay \in 0..MaxDelay
  BY RetryAssumption
<1>2. 2^n \in 1..MaxDelay => 2^n \in 0..MaxDelay
  BY RetryAssumption
<1> QED
  BY <1>1, <1>2, Zenon DEF Backoff

\* The record in hand is the only one: no two are posted at a time.
LEMMA OneInHand ==
    ASSUME batch \subseteq Records,
           NEW r \in Records, NEW s \in Records, InHand(r), InHand(s)
    PROVE  r = s
BY RetryAssumption DEF InHand, Records

\* Only a pending record is being posted, so no settled one is in flight.
LEMMA InFlightIsPending ==
    ASSUME NEW r \in Records
    PROVE  /\ InFlight(r) \in {0, 1}
           /\ InFlight(r) = 1 => InHand(r) /\ row[r].status = "pending"
           /\ InFlight(r) = 0 => ~Posting(r)
BY DEF InFlight, Posting

-------------------------------------------------------------------------------
(* A record other than the one whose answer has come *)

\* Going on to the next record adds the POST that is now on its way, as long as
\* what is left of the batch is pending.
LEMMA GoOnPosts ==
    ASSUME TypeOK, NEW b \in SUBSET Records, GoOn(b), \A s \in b : row'[s].status = "pending"
    PROVE  /\ posts' \in [Records -> Nat]
           /\ \A r \in Records : posts'[r] = posts[r] + InFlight(r)' /\ ~Closing(r)'
           /\ nap' \in 0..Pause
           /\ batch' = b
<1>1. batch' = b
  BY DEF GoOn
<1>2. \A r \in Records : InHand(r)' <=> r \in b /\ \A s \in b : r <= s
  BY <1>1 DEF InHand
<1>3. \A r \in Records : ~Closing(r)' /\ (Posting(r)' <=> InHand(r)')
  BY <1>1, <1>2 DEF Posting, Closing
<1>4. posts' \in [Records -> Nat]
  BY DEF GoOn, TypeOK
<1>5. ASSUME NEW r \in Records PROVE posts'[r] = posts[r] + InFlight(r)'
  <2>1. InFlight(r)' = IF r \in b /\ \A s \in b : r <= s THEN 1 ELSE 0
    BY <1>2, <1>3 DEF InFlight
  <2> QED
    BY <2>1 DEF GoOn, TypeOK
<1>6. nap' \in 0..Pause
  BY RetryAssumption DEF GoOn, TypeOK
<1> QED
  BY <1>1, <1>3, <1>4, <1>5, <1>6

\* What is left of the batch behind the record in hand is pending.
LEMMA RestIsPending ==
    ASSUME IInv, NEW p \in Records, InHand(p), NEW s \in batch \ {p}
    PROVE  s \in Records /\ row[s].status = "pending" /\ seen[s] = row[s].attempt
<1>1. s \in Records /\ batch \subseteq Records
  BY DEF IInv, TypeOK
<1>2. ~Closing(s)
  BY <1>1, OneInHand DEF Closing
<1> QED
  BY <1>1, <1>2 DEF IInv, BatchIsFresh

\* The pass goes on behind p, whose row is all that has changed: every other
\* record's books stay in order, and what is left of the batch stays fresh.
LEMMA GoesOn ==
    ASSUME IInv, NEW p \in Records, InHand(p), GoOn(batch \ {p}),
           lost' = lost, seen' = seen, \A s \in Records \ {p} : row'[s] = row[s]
    PROVE  /\ posts' \in [Records -> Nat] /\ nap' \in 0..Pause /\ batch' = batch \ {p}
           /\ posts'[p] = posts[p] /\ InFlight(p)' = 0
           /\ BatchIsFresh' /\ ClosingCounted'
           /\ \A s \in Records \ {p} : Accounted(s)'
<1>1. batch \ {p} \in SUBSET Records
  BY DEF IInv, TypeOK
<1>2. \A s \in batch \ {p} : row'[s].status = "pending" /\ row'[s] = row[s]
  BY RestIsPending
<1>3. /\ posts' \in [Records -> Nat] /\ nap' \in 0..Pause /\ batch' = batch \ {p}
      /\ \A r \in Records : posts'[r] = posts[r] + InFlight(r)' /\ ~Closing(r)'
  BY <1>1, <1>2, GoOnPosts DEF IInv
<1>4. posts'[p] = posts[p] /\ InFlight(p)' = 0
  <2>1. ~InHand(p)'
    BY <1>3 DEF InHand
  <2>2. InFlight(p)' = 0
    BY <2>1 DEF InFlight, Posting
  <2> QED
    BY <1>3, <2>2 DEF IInv, TypeOK
<1>5. BatchIsFresh'
  BY <1>2, <1>3, RestIsPending DEF BatchIsFresh
<1>6. ClosingCounted'
  BY <1>3 DEF ClosingCounted
<1>7. ASSUME NEW s \in Records \ {p} PROVE Accounted(s)'
  <2>1. InFlight(s) = 0
    BY InFlightIsPending, OneInHand DEF IInv, TypeOK
  <2>2. InFlight(s)' \in {0, 1} /\ (InFlight(s)' = 1 => row[s].status = "pending")
    BY <1>3 DEF InFlight, Posting
  <2>3. Accounted(s) /\ row[s] \in Row /\ posts[s] \in Nat /\ lost[s] \in Nat
    BY DEF IInv, TypeOK, PostsAccounted
  <2>4. row'[s] = row[s] /\ lost'[s] = lost[s] /\ posts'[s] = posts[s] + InFlight(s)'
    BY <1>3
  <2> QED
    BY <2>1, <2>2, <2>3, <2>4, RetryAssumption DEF Accounted, Row, Statuses
<1> QED
  BY <1>3, <1>4, <1>5, <1>6, <1>7

\* What is known of the record in hand.
LEMMA HandIsCounted ==
    ASSUME IInv, NEW p \in Records, InHand(p)
    PROVE  /\ row[p] \in Row /\ row[p].attempt \in Nat /\ lost[p] \in Nat /\ posts[p] \in Nat
           /\ seen[p] = row[p].attempt /\ seen[p] < MaxAttempts
           /\ posts[p] = seen[p] + 1 + lost[p]
<1>1. /\ row[p] \in Row /\ row[p].attempt \in Nat /\ lost[p] \in Nat /\ posts[p] \in Nat
      /\ seen[p] = row[p].attempt /\ (row[p].status = "pending" \/ Closing(p))
  BY RetryAssumption DEF IInv, TypeOK, Row, InHand, BatchIsFresh
<1>2. CASE row[p].status = "pending"
  <2>1. InFlight(p) = 1 /\ Accounted(p)
    BY <1>2 DEF InFlight, Posting, IInv, PostsAccounted
  <2> QED
    BY <1>1, <1>2, <2>1 DEF Accounted, IInv, AttemptsLeft
<1>3. CASE Closing(p)
  BY <1>1, <1>3 DEF IInv, ClosingCounted
<1> QED
  BY <1>1, <1>2, <1>3

\* What the except clause makes of the record in hand.
LEMMA AttemptRecorded ==
    ASSUME IInv, NEW p \in Records, InHand(p), GoOn(batch \ {p}), lost' = lost, seen' = seen,
           NEW status \in {"pending", "delivered"}, AttemptFailed(p, status)
    PROVE  /\ row' \in [Records -> Row]
           /\ \A s \in Records \ {p} : row'[s] = row[s]
           /\ row'[p].status \in {status, "failed"}
           /\ row'[p].status = "pending" => row'[p].attempt < MaxAttempts
           /\ Accounted(p)'
<1> DEFINE attempt == seen[p] + 1
<1>1. /\ row[p] \in Row /\ row[p].attempt \in Nat /\ lost[p] \in Nat /\ posts[p] \in Nat
      /\ seen[p] = row[p].attempt /\ seen[p] < MaxAttempts
      /\ posts[p] = attempt + lost[p]
  BY HandIsCounted
<1>2. Backoff(attempt) \in 0..MaxDelay
  <2>1. attempt \in Nat
    BY <1>1
  <2> QED
    BY <2>1, BackoffType
<1>3. attempt \in 0..MaxAttempts
  BY <1>1, RetryAssumption
<1>4. row' = [row EXCEPT ![p] = IF attempt >= MaxAttempts
                                THEN [row[p] EXCEPT !.status = "failed"]
                                ELSE [status |-> status, attempt |-> attempt,
                                      wait |-> Backoff(attempt)]]
  BY DEF AttemptFailed
<1>5. row \in [Records -> Row]
  BY DEF IInv, TypeOK
<1>6. \A s \in Records \ {p} : row'[s] = row[s]
  BY <1>4, <1>5
<1>7. posts'[p] = posts[p] /\ InFlight(p)' = 0
  BY <1>6, GoesOn
<1>8. CASE attempt >= MaxAttempts
  <2>1. row'[p] = [row[p] EXCEPT !.status = "failed"]
    BY <1>4, <1>5, <1>8
  <2>2. row'[p].status = "failed" /\ row'[p] \in Row
    BY <1>1, <2>1 DEF Row, Statuses
  <2>3. row' \in [Records -> Row]
    BY <1>4, <1>5, <2>1, <2>2
  <2>4. Accounted(p)'
    BY <1>1, <1>7, <1>8, <2>2, RetryAssumption DEF Accounted
  <2> QED
    BY <1>6, <2>2, <2>3, <2>4
<1>9. CASE ~(attempt >= MaxAttempts)
  <2>1. row'[p] = [status |-> status, attempt |-> attempt, wait |-> Backoff(attempt)]
    BY <1>4, <1>5, <1>9
  <2>2. row'[p].status = status /\ row'[p].attempt = attempt /\ row'[p] \in Row
    BY <1>2, <1>3, <2>1 DEF Row, Statuses
  <2>3. row' \in [Records -> Row]
    BY <1>4, <1>5, <2>1, <2>2
  <2>4. Accounted(p)'
    BY <1>1, <1>7, <1>9, <2>2, RetryAssumption DEF Accounted
  <2>5. attempt < MaxAttempts
    BY <1>3, <1>9, RetryAssumption
  <2> QED
    BY <1>6, <2>2, <2>3, <2>4, <2>5
<1> HIDE DEF attempt
<1> QED
  BY <1>8, <1>9

-------------------------------------------------------------------------------
(* The invariant *)

\* No POST is under way in the initial states, and nothing is recorded.
LEMMA InitEstablishes == Init => IInv
<1> SUFFICES ASSUME Init PROVE IInv
  OBVIOUS
<1>1. TypeOK
  BY RetryAssumption DEF Init, TypeOK, Row, Statuses
<1>2. AttemptsLeft /\ BatchIsFresh /\ ClosingCounted /\ DeliveredWasAnswered
  BY DEF Init, AttemptsLeft, BatchIsFresh, ClosingCounted, Closing, DeliveredWasAnswered
<1>3. PostsAccounted
  BY DEF Init, PostsAccounted, Accounted
<1> QED
  BY <1>1, <1>2, <1>3 DEF IInv

\* A new row joins the queue untouched; no pass has read it yet.
LEMMA EnqueuePreserves ==
    ASSUME IInv, NEW p \in Records, Enqueue(p)
    PROVE  IInv'
<1>1. /\ row' \in [Records -> Row]
      /\ row'[p] = [status |-> "pending", attempt |-> 0, wait |-> 0]
      /\ \A r \in Records \ {p} : row'[r] = row[r]
  BY RetryAssumption DEF Enqueue, IInv, TypeOK, Row, Statuses
<1>2. TypeOK'
  BY <1>1 DEF Enqueue, IInv, TypeOK
<1>3. p \notin batch
  BY DEF Enqueue, IInv, BatchIsFresh, Closing
<1>4. \A r \in Records : Closing(r)' <=> Closing(r)
  BY <1>1, <1>3 DEF Enqueue, Closing, InHand
<1>5. BatchIsFresh' /\ ClosingCounted'
  BY <1>1, <1>3, <1>4 DEF Enqueue, IInv, TypeOK, BatchIsFresh, ClosingCounted
<1>6. AttemptsLeft' /\ DeliveredWasAnswered'
  BY <1>1, RetryAssumption DEF Enqueue, IInv, TypeOK, AttemptsLeft, DeliveredWasAnswered
<1>7. PostsAccounted'
  <2>1. InFlight(p) = 0 /\ posts[p] = 0 /\ lost[p] = 0
    BY <1>3 DEF InFlight, Posting, InHand, Enqueue, IInv, PostsAccounted, Accounted
  <2>2. \A r \in Records : InFlight(r)' = InFlight(r)
    BY <1>1, <1>3 DEF InFlight, Posting, InHand, Enqueue
  <2> QED
    BY <1>1, <2>1, <2>2 DEF Enqueue, IInv, PostsAccounted, Accounted
<1> QED
  BY <1>2, <1>5, <1>6, <1>7 DEF IInv

\* A pass begins: what it reads is what is stored, and its first POST goes out.
LEMMA ScanPreserves ==
    ASSUME IInv, Scan
    PROVE  IInv'
<1>1. Picked \in SUBSET Records /\ \A r \in Picked : row[r].status = "pending"
  BY DEF Picked, Due
<1>2. /\ batch' = Picked
      /\ posts' \in [Records -> Nat]
      /\ nap' \in 0..Pause
      /\ \A r \in Records : posts'[r] = posts[r] + InFlight(r)' /\ ~Closing(r)'
  <2>1. TypeOK /\ GoOn(Picked) /\ row' = row
    BY DEF Scan, IInv
  <2> HIDE DEF Picked
  <2> QED
    BY <1>1, <2>1, GoOnPosts
<1>3. seen' \in [Records -> 0..MaxAttempts] /\ \A r \in Records : seen'[r] = row[r].attempt
  BY DEF Scan, IInv, TypeOK, Row
<1>4. TypeOK'
  BY <1>1, <1>2, <1>3 DEF Scan, IInv, TypeOK
<1>5. AttemptsLeft' /\ DeliveredWasAnswered'
  BY DEF Scan, IInv, TypeOK, AttemptsLeft, DeliveredWasAnswered
<1>6. BatchIsFresh' /\ ClosingCounted'
  BY <1>1, <1>2, <1>3 DEF Scan, BatchIsFresh, ClosingCounted
<1>7. ASSUME NEW r \in Records PROVE Accounted(r)'
  <2>1. InFlight(r) = 0
    BY DEF InFlight, Posting, InHand, Scan
  <2>2. InFlight(r)' \in {0, 1} /\ (row[r].status # "pending" => InFlight(r)' = 0)
    BY DEF InFlight, Posting, Scan
  <2>3. Accounted(r) /\ row[r] \in Row /\ posts[r] \in Nat /\ lost[r] \in Nat
    BY DEF IInv, TypeOK, PostsAccounted
  <2>4. row'[r] = row[r] /\ lost'[r] = lost[r] /\ posts'[r] = posts[r] + InFlight(r)'
    BY <1>2 DEF Scan
  <2> QED
    BY <2>1, <2>2, <2>3, <2>4, RetryAssumption DEF Accounted, Row, Statuses
<1> QED
  BY <1>4, <1>5, <1>6, <1>7 DEF IInv, PostsAccounted

\* An answer settles the record in hand, which stays in hand.
LEMMA DeliveredPreserves ==
    ASSUME IInv, NEW p \in Records, Delivered(p)
    PROVE  IInv'
<1>1. InHand(p) /\ row[p].status = "pending"
  BY DEF Delivered, Posting
<1>2. /\ row' \in [Records -> Row]
      /\ row'[p] = [row[p] EXCEPT !.status = "delivered"]
      /\ row'[p].status = "delivered" /\ row'[p].attempt = row[p].attempt
      /\ \A s \in Records \ {p} : row'[s] = row[s]
  BY DEF Delivered, IInv, TypeOK, Row, Statuses
<1>3. TypeOK'
  BY <1>2 DEF Delivered, IInv, TypeOK
<1>4. \A r \in Records : InHand(r)' <=> InHand(r)
  BY DEF Delivered, InHand
<1>5. \A s \in Records \ {p} : ~InHand(s)
  BY <1>1, OneInHand DEF IInv, TypeOK
<1>6. BatchIsFresh'
  <2>1. Closing(p)'
    BY <1>1, <1>2, <1>4 DEF Closing
  <2>2. seen'[p] = row'[p].attempt
    BY <1>1, <1>2, HandIsCounted DEF Delivered
  <2>3. \A s \in batch \ {p} : row'[s].status = "pending" /\ seen'[s] = row'[s].attempt
    BY <1>1, <1>2, RestIsPending DEF Delivered
  <2> QED
    BY <2>1, <2>2, <2>3 DEF Delivered, BatchIsFresh
<1>7. ClosingCounted'
  <2>1. \A s \in Records \ {p} : ~Closing(s)'
    BY <1>4, <1>5 DEF Closing
  <2>2. seen'[p] < MaxAttempts /\ posts'[p] = seen'[p] + 1 + lost'[p]
    BY <1>1, HandIsCounted DEF Delivered
  <2> QED
    BY <2>1, <2>2 DEF ClosingCounted
<1>8. AttemptsLeft' /\ DeliveredWasAnswered'
  BY <1>2 DEF Delivered, IInv, AttemptsLeft, DeliveredWasAnswered
<1>9. Accounted(p)'
  BY <1>1, <1>2, HandIsCounted, RetryAssumption DEF Delivered, Accounted
<1>10. ASSUME NEW s \in Records \ {p} PROVE Accounted(s)'
  <2>1. InFlight(s) = 0 /\ InFlight(s)' = 0
    BY <1>4, <1>5 DEF InFlight, Posting
  <2>2. Accounted(s) /\ row'[s] = row[s]
    BY <1>2 DEF IInv, PostsAccounted
  <2> QED
    BY <2>1, <2>2 DEF Delivered, Accounted
<1> QED
  BY <1>3, <1>6, <1>7, <1>8, <1>9, <1>10 DEF IInv, PostsAccounted

\* The client is closed, and the next record goes out.
LEMMA ClientClosesPreserves ==
    ASSUME IInv, NEW p \in Records, ClientCloses(p)
    PROVE  IInv'
<1>1. InHand(p) /\ row[p].status = "delivered"
  BY DEF ClientCloses, Closing
<1>2. /\ posts' \in [Records -> Nat] /\ nap' \in 0..Pause /\ batch' = batch \ {p}
      /\ posts'[p] = posts[p] /\ InFlight(p)' = 0
      /\ BatchIsFresh' /\ ClosingCounted'
      /\ \A s \in Records \ {p} : Accounted(s)'
  BY <1>1, GoesOn DEF ClientCloses
<1>3. TypeOK'
  BY <1>2 DEF ClientCloses, IInv, TypeOK
<1>4. AttemptsLeft' /\ DeliveredWasAnswered'
  BY DEF ClientCloses, IInv, AttemptsLeft, DeliveredWasAnswered
<1>5. Accounted(p)'
  BY <1>1, <1>2, HandIsCounted, RetryAssumption DEF ClientCloses, Accounted
<1> QED
  BY <1>2, <1>3, <1>4, <1>5 DEF IInv, PostsAccounted

\* The except clause, for a refusal, for a result it failed to write down, or
\* for a client that failed to close.
LEMMA AttemptPreserves ==
    ASSUME IInv, NEW p \in Records, InHand(p), GoOn(batch \ {p}),
           lost' = lost, seen' = seen,
           NEW status \in {"pending", "delivered"}, AttemptFailed(p, status),
           faults' \in 0..MaxFaults,
           answered \subseteq answered', answered' \subseteq Records,
           status = "delivered" => p \in answered'
    PROVE  IInv'
<1>1. /\ row' \in [Records -> Row]
      /\ \A s \in Records \ {p} : row'[s] = row[s]
      /\ row'[p].status \in {status, "failed"}
      /\ row'[p].status = "pending" => row'[p].attempt < MaxAttempts
      /\ Accounted(p)'
  BY AttemptRecorded
<1>2. /\ posts' \in [Records -> Nat] /\ nap' \in 0..Pause /\ batch' = batch \ {p}
      /\ BatchIsFresh' /\ ClosingCounted'
      /\ \A s \in Records \ {p} : Accounted(s)'
  BY <1>1, GoesOn
<1>3. TypeOK'
  BY <1>1, <1>2 DEF IInv, TypeOK
<1>4. AttemptsLeft' /\ DeliveredWasAnswered'
  BY <1>1 DEF IInv, AttemptsLeft, DeliveredWasAnswered
<1> QED
  BY <1>1, <1>2, <1>3, <1>4 DEF IInv, PostsAccounted

\* A pass that is cut short loses the POST that was under way, and only that.
LEMMA AbandonPreserves ==
    ASSUME IInv, NEW pause \in 0..Pause, Abandon(pause),
           faults' \in 0..MaxFaults,
           answered \subseteq answered', answered' \subseteq Records
    PROVE  IInv'
<1>1. TypeOK'
  BY DEF Abandon, IInv, TypeOK
<1>2. AttemptsLeft' /\ BatchIsFresh' /\ ClosingCounted' /\ DeliveredWasAnswered'
  BY DEF Abandon, IInv, AttemptsLeft, BatchIsFresh, ClosingCounted, Closing, InHand,
         DeliveredWasAnswered
<1>3. ASSUME NEW r \in Records PROVE Accounted(r)'
  <2>1. InFlight(r)' = 0
    BY DEF InFlight, Posting, InHand, Abandon
  <2>2. lost'[r] = lost[r] + InFlight(r) /\ lost[r] \in Nat
    BY DEF InFlight, Abandon, IInv, TypeOK
  <2>3. InFlight(r) \in {0, 1} /\ (InFlight(r) = 1 => row[r].status = "pending")
    BY DEF InFlight, Posting
  <2>4. Accounted(r) /\ row'[r] = row[r] /\ posts'[r] = posts[r] /\ posts[r] \in Nat
    BY DEF Abandon, IInv, TypeOK, PostsAccounted
  <2> QED
    BY <2>1, <2>2, <2>3, <2>4, RetryAssumption DEF Accounted
<1> QED
  BY <1>1, <1>2, <1>3 DEF IInv, PostsAccounted

\* The clock touches nothing but the waiting times.
LEMMA TickPreserves ==
    ASSUME IInv, Tick
    PROVE  IInv'
<1>1. /\ row' \in [Records -> Row]
      /\ \A r \in Records : /\ row'[r].status = row[r].status
                            /\ row'[r].attempt = row[r].attempt
  BY RetryAssumption DEF Tick, IInv, TypeOK, Row
<1>2. nap' \in 0..Pause
  BY RetryAssumption DEF Tick, IInv, TypeOK
<1>3. TypeOK'
  BY <1>1, <1>2 DEF Tick, IInv, TypeOK
<1>4. AttemptsLeft' /\ DeliveredWasAnswered'
  BY <1>1 DEF Tick, IInv, TypeOK, AttemptsLeft, DeliveredWasAnswered
<1>5. \A r \in Records : InFlight(r)' = InFlight(r) /\ (Closing(r)' <=> Closing(r))
  BY <1>1 DEF InFlight, Posting, Closing, InHand, Tick
<1>6. BatchIsFresh' /\ ClosingCounted'
  BY <1>1, <1>5 DEF Tick, IInv, TypeOK, BatchIsFresh, ClosingCounted
<1>7. PostsAccounted'
  BY <1>1, <1>5 DEF Tick, IInv, PostsAccounted, Accounted
<1> QED
  BY <1>3, <1>4, <1>6, <1>7 DEF IInv

\* Every step keeps the invariant.
LEMMA StepPreserves == IInv /\ [Next]_vars => IInv'
<1> SUFFICES ASSUME IInv, [Next]_vars PROVE IInv'
  OBVIOUS
<1>1. CASE UNCHANGED vars
  <2>1. \A r \in Records : Accounted(r) => Accounted(r)'
    BY <1>1 DEF vars, Accounted, InFlight, Posting, InHand
  <2> QED
    BY <1>1, <2>1 DEF vars, IInv, TypeOK, AttemptsLeft, BatchIsFresh, ClosingCounted,
                      Closing, InHand, PostsAccounted, DeliveredWasAnswered
<1>2. CASE Scan
  BY <1>2, ScanPreserves
<1>3. ASSUME NEW p \in Records, Enqueue(p) PROVE IInv'
  BY <1>3, EnqueuePreserves
<1>4. ASSUME NEW p \in Records, Delivered(p) PROVE IInv'
  BY <1>4, DeliveredPreserves
<1>5. ASSUME NEW p \in Records, Refused(p) PROVE IInv'
  <2>1. faults' \in 0..MaxFaults /\ answered' \subseteq Records
    BY <1>5 DEF Refused, IInv, TypeOK
  <2> QED
    BY <1>5, <2>1, AttemptPreserves DEF Refused, Posting
<1>6. faults \in 0..MaxFaults /\ (Fault => faults' \in 0..MaxFaults)
  BY RetryAssumption DEF Fault, IInv, TypeOK
<1>7. ASSUME NEW p \in Records, MarkFails(p) PROVE IInv'
  <2>1. PICK status \in {"pending", "delivered"} : AttemptFailed(p, status)
    BY <1>7 DEF MarkFails
  <2>2. answered \subseteq answered' /\ answered' \subseteq Records /\ p \in answered'
    BY <1>7 DEF MarkFails, IInv, TypeOK
  <2> QED
    BY <1>6, <1>7, <2>1, <2>2, AttemptPreserves DEF MarkFails, Posting
<1>8. ASSUME NEW p \in Records, NEW gotAnswer \in BOOLEAN, Abort(p, gotAnswer)
      PROVE  IInv'
  <2>1. answered \subseteq answered' /\ answered' \subseteq Records
    BY <1>8 DEF Abort, IInv, TypeOK
  <2>2. Pause \in 0..Pause
    BY RetryAssumption
  <2> QED
    BY <1>6, <1>8, <2>1, <2>2, AbandonPreserves DEF Abort
<1>9. CASE Crash
  <2>1. answered \subseteq answered' /\ answered' \subseteq Records
    BY <1>9 DEF Crash, IInv, TypeOK
  <2>2. 0 \in 0..Pause
    BY RetryAssumption
  <2> QED
    BY <1>6, <1>9, <2>1, <2>2, AbandonPreserves DEF Crash
<1>10. CASE Tick
  BY <1>10, TickPreserves
<1>11. ASSUME NEW p \in Records, ClientCloses(p) PROVE IInv'
  BY <1>11, ClientClosesPreserves
<1>12. ASSUME NEW p \in Records, CloseFails(p) PROVE IInv'
  <2>1. p \in answered /\ answered' = answered /\ answered \subseteq Records
    BY <1>12 DEF CloseFails, Closing, IInv, TypeOK, DeliveredWasAnswered
  <2> QED
    BY <1>6, <1>12, <2>1, AttemptPreserves DEF CloseFails, Closing
<1> QED
  BY <1>1, <1>2, <1>3, <1>4, <1>5, <1>7, <1>8, <1>9, <1>10, <1>11, <1>12 DEF Next, Answer

\* The inductive invariant holds in every reachable state.
LEMMA Invariant == Spec => []IInv
BY InitEstablishes, StepPreserves, PTL DEF Spec

-------------------------------------------------------------------------------
(* Theorems *)

\* Every row, batch and counter stays in its type.
THEOREM TypeCorrect == Spec => []TypeOK
<1>1. IInv => TypeOK
  BY DEF IInv
<1> QED
  BY <1>1, Invariant, PTL

\* A receiver sees a record at most MaxAttempts times, plus once for every
\* POST that a crash or an aborted pass lost.
THEOREM EveryPostAccounted == Spec => []PostsAccounted
<1>1. IInv => PostsAccounted
  BY DEF IInv
<1> QED
  BY <1>1, Invariant, PTL

\* Whatever is marked delivered has been answered by its receiver.
THEOREM DeliveredIsAnswered == Spec => []DeliveredWasAnswered
<1>1. IInv => DeliveredWasAnswered
  BY DEF IInv
<1> QED
  BY <1>1, Invariant, PTL

\* No step posts a settled record, and only the failing close of its client
\* changes one.
LEMMA StepKeepsSettled ==
    ASSUME IInv, Next, NEW r \in Records, row[r].status \in Settled
    PROVE  /\ posts'[r] = posts[r]
           /\ \/ row'[r].status = row[r].status
              \/ Closing(r) /\ row'[r].status = "failed"
<1> DEFINE Kept == row'[r].status = row[r].status /\ posts'[r] = posts[r]
<1>1. ~Posting(r) /\ (r \in batch => InHand(r))
  BY DEF IInv, BatchIsFresh, Posting, Closing, Settled
<1>2. ASSUME NEW p \in Records, InHand(p), GoOn(batch \ {p}) PROVE posts'[r] = posts[r]
  <2>1. r \notin batch \ {p}
    BY <1>1, <1>2, OneInHand DEF IInv, TypeOK
  <2> QED
    BY <1>2, <2>1 DEF GoOn
<1>3. ASSUME NEW p \in Records, NEW status, AttemptFailed(p, status)
      PROVE  \A s \in Records \ {p} : row'[s] = row[s]
  BY <1>3 DEF AttemptFailed, IInv, TypeOK
<1>4. CASE Scan
  <2>1. r \notin Picked
    BY DEF Picked, Due, Settled
  <2> QED
    BY <1>4, <2>1 DEF Scan, GoOn
<1>5. ASSUME NEW p \in Records, Enqueue(p) PROVE Kept
  BY <1>5 DEF Enqueue, IInv, TypeOK, Settled
<1>6. ASSUME NEW p \in Records, Delivered(p) PROVE Kept
  BY <1>1, <1>6 DEF Delivered, IInv, TypeOK
<1>7. ASSUME NEW p \in Records, ClientCloses(p) PROVE Kept
  BY <1>2, <1>7 DEF ClientCloses, Closing
<1>8. ASSUME NEW p \in Records, Refused(p) \/ MarkFails(p) PROVE Kept
  <2>1. Posting(p) /\ InHand(p) /\ GoOn(batch \ {p}) /\ \E status : AttemptFailed(p, status)
    BY <1>8 DEF Refused, MarkFails, Posting
  <2>2. r # p
    BY <1>1, <2>1
  <2> QED
    BY <1>2, <1>3, <2>1, <2>2
<1>9. ASSUME NEW p \in Records, CloseFails(p)
      PROVE  Kept \/ (posts'[r] = posts[r] /\ Closing(r) /\ row'[r].status = "failed")
  <2>1. Closing(p) /\ InHand(p) /\ GoOn(batch \ {p}) /\ AttemptFailed(p, "delivered")
    BY <1>9 DEF CloseFails, Closing
  <2>2. posts'[r] = posts[r]
    BY <1>2, <2>1
  <2>3. CASE r # p
    <3>1. row'[r] = row[r]
      BY <1>3, <2>1, <2>3
    <3> QED
      BY <2>2, <3>1
  <2>4. CASE r = p
    <3>1. row[r].status = "delivered" /\ lost' = lost /\ seen' = seen
      BY <1>9, <2>4 DEF CloseFails, Closing
    <3>2. row'[p].status \in {"delivered", "failed"}
      BY <2>1, <3>1, AttemptRecorded
    <3> QED
      BY <2>1, <2>2, <2>4, <3>1, <3>2
  <2> QED
    BY <2>3, <2>4
<1>10. ASSUME Crash \/ \E p \in Records, gotAnswer \in BOOLEAN : Abort(p, gotAnswer)
       PROVE  Kept
  BY <1>10 DEF Crash, Abort, Abandon
<1>11. ASSUME Tick PROVE Kept
  BY <1>11 DEF Tick, IInv, TypeOK
<1> QED
  BY <1>4, <1>5, <1>6, <1>7, <1>8, <1>9, <1>10, <1>11 DEF Next, Answer

\* A record that has been settled is never posted again, and stays as it is
\* from the moment its client is closed.
THEOREM SettledForGood == Spec => SettledIsFinal
<1>1. IInv /\ [Next]_vars
        => [\A r \in Records : row[r].status \in Settled =>
              /\ posts'[r] = posts[r]
              /\ \/ row'[r].status = row[r].status
                 \/ Closing(r) /\ row'[r].status = "failed"]_vars
  BY StepKeepsSettled
<1> QED
  BY <1>1, Invariant, PTL DEF Spec, SettledIsFinal

===============================================================================
