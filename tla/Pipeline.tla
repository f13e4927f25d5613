-------------------------------- MODULE Pipeline --------------------------------
(***************************************************************************)
(* A request that changes something, on its way through the middlewares:   *)
(* AuthMiddleware and RateLimitMiddleware of main.py, then                 *)
(* IdempotencyMiddleware (shared/idempotency.py), then the handler.        *)
(*                                                                         *)
(* add_middleware puts each new layer around the ones before, so what      *)
(* create_app adds last meets a request first: authentication, the rate    *)
(* limit, the idempotency key, the handler.  The layers between keep no    *)
(* state.                                                                  *)
(***************************************************************************)
EXTENDS Naturals, Sequences, FiniteSets, Selection

CONSTANTS
    Addresses,      \* client addresses
    Calls,          \* slots for concurrent requests; a slot is used again
    Keys,           \* values of the Idempotency-Key header
    NoKey,          \* a request without the header
    MaxHits,        \* rate_limit_requests
    HitWindow,      \* rate_limit_window_s
    KnownAddresses, \* 10000, the size that starts a sweep of the hit lists
    KeyTTL,         \* the time to live of a stored response
    Chunks          \* body events of an answer

ASSUME PipelineAssumption ==
    /\ NoKey \notin Keys
    /\ MaxHits \in Nat \ {0}
    /\ HitWindow \in Nat \ {0}
    /\ KnownAddresses \in Nat
    /\ KeyTTL \in Nat \ {0}
    /\ Chunks \in Nat \ {0}

VARIABLES
    counters,   \* counters[a]: the ages of the hits of address a, oldest first;
                \* an address without an entry has the empty list
    stored,     \* stored[k]: the entry of IdempotencyStore for key k
    call,       \* call[r]: how far the request in slot r has come
    admitted,   \* observer: admitted[a]: the ages of all admitted requests
    answered    \* observer: answered[k]: the time since a body event for k

pipeVars == <<counters, stored, call, admitted, answered>>

-------------------------------------------------------------------------------
(* State *)

\* Older hits than these make no difference to any test of the code.
Forgotten == 2 * HitWindow

Long == KeyTTL + 1

\* `held' counts the captured body events; `by' and `cut' observe whose they
\* are and whether that request broke off afterwards.
Entry == [age : 0..Long, held : 1..Chunks, by : Calls, cut : BOOLEAN]

Nothing == [held |-> 0]

\* A slot that is idle, admitted by the limiter, or in the handler.
NoCall == [at |-> "idle", key |-> NoKey, captured |-> 0]

PipeInit ==
    /\ counters = [a \in Addresses |-> <<>>]
    /\ stored = [k \in Keys |-> Nothing]
    /\ call = [r \in Calls |-> NoCall]
    /\ admitted = [a \in Addresses |-> <<>>]
    /\ answered = [k \in Keys |-> Long]

-------------------------------------------------------------------------------
(* RateLimitMiddleware.dispatch *)

\* The hits that are still in the window.
Recent(hits) == Select(hits, 0..(HitWindow - 1))

\* Mutant: the sweep looks at the first hit and at one window.
Live_FirstHit(hits) == hits # <<>> /\ Head(hits) < HitWindow

\* An entry the sweep keeps: its last hit is not two windows old.
Live(hits) == hits # <<>> /\ hits[Len(hits)] < 2 * HitWindow

\* When more than KnownAddresses have a list, the stale lists are dropped.
Swept(lists) ==
    IF Cardinality({a \in Addresses : lists[a] # <<>>}) > KnownAddresses
    THEN [a \in Addresses |-> IF Live(lists[a]) THEN lists[a] ELSE <<>>]
    ELSE lists

\* A refused request leaves its address's list as it was.
Limited(a) == Len(Recent(counters[a])) >= MaxHits

\* The request is counted, in one step: nothing is awaited in between.
Admit(r, a, key) ==
    /\ call[r] = NoCall
    /\ ~Limited(a)
    /\ counters' = Swept([counters EXCEPT ![a] = Append(Recent(@), 0)])
    /\ call' = [call EXCEPT ![r] = [at |-> "admitted", key |-> key, captured |-> 0]]
    /\ admitted' = [admitted EXCEPT ![a] = Append(Recent(@), 0)]
    /\ UNCHANGED <<stored, answered>>

-------------------------------------------------------------------------------
(* IdempotencyMiddleware *)

\* Mutant: an entry is a hit only when its body is not empty.  (The first
\* body event of an answer is empty, as a streaming response may send it.)
Stored_Truthy(k) == stored[k].held > 1 /\ stored[k].age <= KeyTTL

\* IdempotencyStore.get: an entry that has lived longer than its TTL is gone.
Stored(k) == stored[k] # Nothing /\ stored[k].age <= KeyTTL

\* A hit is answered from the store, as a 200 whatever the status was.
Replay(r) ==
    /\ call[r].at = "admitted"
    /\ call[r].key \in Keys
    /\ Stored(call[r].key)
    /\ call' = [call EXCEPT ![r] = NoCall]
    /\ UNCHANGED <<counters, stored, admitted, answered>>

\* A miss, or no key: the handler runs.  get has deleted an expired entry.
Run(r) ==
    /\ call[r].at = "admitted"
    /\ call[r].key \in Keys => ~Stored(call[r].key)
    /\ stored' = IF call[r].key \in Keys
                 THEN [stored EXCEPT ![call[r].key] = Nothing] ELSE stored
    /\ call' = [call EXCEPT ![r].at = "handler"]
    /\ UNCHANGED <<counters, admitted, answered>>

\* Mutant: what is stored for the key is not replaced.
Keep_First(r, held) ==
    IF stored[call[r].key] = Nothing
    THEN [stored EXCEPT ![call[r].key] = [age |-> 0, held |-> held, by |-> r, cut |-> FALSE]]
    ELSE stored

\* set replaces the entry by what this request has captured so far.
Keep(r, held) ==
    [stored EXCEPT ![call[r].key] = [age |-> 0, held |-> held, by |-> r, cut |-> FALSE]]

\* _capture_send, once per body event: store, then forward.
Body(r) ==
    LET held == call[r].captured + 1
    IN  /\ call[r].at = "handler"
        /\ call' = [call EXCEPT ![r] =
                IF held = Chunks THEN NoCall ELSE [@ EXCEPT !.captured = held]]
        /\ IF call[r].key \in Keys
           THEN /\ stored' = Keep(r, held)
                /\ answered' = [answered EXCEPT ![call[r].key] = 0]
           ELSE UNCHANGED <<stored, answered>>
        /\ UNCHANGED <<counters, admitted>>

\* The client leaves, or the stream raises: what was captured stays stored.
Break(r) ==
    /\ call[r].at # "idle"
    /\ call' = [call EXCEPT ![r] = NoCall]
    /\ stored' = [k \in Keys |->
                    IF stored[k] # Nothing /\ stored[k].by = r /\ call[r].captured > 0
                    THEN [stored[k] EXCEPT !.cut = @ \/ call[r].key = k] ELSE stored[k]]
    /\ UNCHANGED <<counters, admitted, answered>>

-------------------------------------------------------------------------------
(* Time *)

Aged(ages) == [i \in DOMAIN ages |-> IF ages[i] < Forgotten THEN ages[i] + 1 ELSE Forgotten]

PipeTick ==
    /\ counters' = [a \in Addresses |-> Aged(counters[a])]
    /\ admitted' = [a \in Addresses |-> Aged(admitted[a])]
    /\ stored' = [k \in Keys |->
                    IF stored[k] = Nothing \/ stored[k].age = Long THEN stored[k]
                    ELSE [stored[k] EXCEPT !.age = @ + 1]]
    /\ answered' = [k \in Keys |-> IF answered[k] = Long THEN Long ELSE answered[k] + 1]
    /\ UNCHANGED call

PipeNext ==
    \/ \E r \in Calls :
        \/ \E a \in Addresses, key \in Keys \union {NoKey} : Admit(r, a, key)
        \/ Replay(r)
        \/ Run(r)
        \/ Body(r)
        \/ Break(r)
    \/ PipeTick

PipeSpec == PipeInit /\ [][PipeNext]_pipeVars

-------------------------------------------------------------------------------
(* Properties *)

PipeTypeOK ==
    /\ counters \in [Addresses -> Seq(0..Forgotten)]
    /\ stored \in [Keys -> Entry \union {Nothing}]
    /\ call \in [Calls -> [at : {"idle", "admitted", "handler"},
                           key : Keys \union {NoKey}, captured : 0..Chunks]]
    /\ admitted \in [Addresses -> Seq(0..Forgotten)]
    /\ answered \in [Keys -> 0..Long]

\* Whatever the sweep forgets, no address has more than MaxHits requests
\* admitted within one window.
AtMostMaxHits == \A a \in Addresses : Len(Recent(admitted[a])) <= MaxHits

\* Once anything was answered under a key the handler is not entered again
\* with that key before KeyTTL is over, whoever wrote the entry last.
NoRunAfterAnswer ==
    [][\A r \in Calls, k \in Keys :
        call[r].at = "admitted" /\ call[r].key = k /\ call'[r].at = "handler"
            => answered[k] > KeyTTL]_pipeVars

\* Requests that run at the same time under one key overwrite each other's
\* entry; when all have come to their end, and the last writer did not break
\* off, the whole body of one of them is what the key replays.
StoredBodyIsWhole ==
    \A k \in Keys :
        /\ stored[k] # Nothing
        /\ ~stored[k].cut
        /\ \A r \in Calls : call[r].key = k => call[r].captured = 0
        => stored[k].held = Chunks

===============================================================================
