------------------------------- MODULE ModelCatalog -------------------------------
(***************************************************************************)
(* The lists of models: list_models and refresh_models of                  *)
(* provider/router.py over ModelCache (shared/model_cache.py), behind the  *)
(* CacheMiddleware (shared/response_cache.py).                             *)
(*                                                                         *)
(* A request without ?provider= goes through all providers and waits for   *)
(* each list it fetches; other requests and refreshes come in between.     *)
(* What is in a list is left out: how old it is remains.                   *)
(***************************************************************************)
EXTENDS Naturals, FiniteSets

Sets == INSTANCE FiniteSetsExt

CONSTANTS
    Sources,        \* the registered providers
    Gets,           \* slots for concurrent requests; a slot is used again
    ModelTTL,       \* model_cache_ttl
    ResponseTTL     \* the time to live of a cached response

ASSUME CatalogAssumption ==
    /\ ModelTTL \in Nat \ {0}
    /\ ResponseTTL \in Nat

VARIABLES
    models,     \* models[p]: the entry of ModelCache for provider p
    responses,  \* responses[q]: the entry of ResponseCache for query q
    refreshes,  \* refreshes[q]: the age of the one for a POST that refreshed q
    get         \* get[g]: the request in slot g

catalogVars == <<models, responses, refreshes, get>>

-------------------------------------------------------------------------------
(* State.  A query names the providers asked for: one, or all.                *)

Queries == {{p} : p \in Sources} \union {Sources}

Oldest == ModelTTL + ResponseTTL + 1

\* `age' is the time since the list was stored.  `stale' observes that the
\* provider was asked for it before the last refresh.
List == [age : 0..ModelTTL, stale : BOOLEAN]

\* `oldest' observes how long before its request came in the oldest of its
\* lists was stored, plus the time since the answer was sent.
Response == [age : 0..(ResponseTTL + 1), oldest : 0..Oldest]

NoEntry == [gone |-> TRUE]

\* `done' are the providers whose lists are collected, `asks' the one the
\* request waits for.  The others observe: `took' its duration, `oldest' as
\* above, `askedBefore' that the provider was asked before a refresh,
\* `refreshed' the providers refreshed since the request came in, and
\* `outdated' those whose list it got was asked for before a refresh that was
\* over when it came in.
NoGet == [query |-> {}, done |-> {}, asks |-> {}, took |-> 0, oldest |-> 0,
          askedBefore |-> FALSE, refreshed |-> {}, outdated |-> {}]

CatalogInit ==
    /\ models = [p \in Sources |-> NoEntry]
    /\ responses = [q \in Queries |-> NoEntry]
    /\ refreshes = [q \in Queries |-> ResponseTTL + 1]
    /\ get = [g \in Gets |-> NoGet]

-------------------------------------------------------------------------------
(* The two caches *)

\* ModelCache.get: an entry that has reached its time to live is gone.
Fresh(p) == models[p] # NoEntry /\ models[p].age < ModelTTL

\* ModelCache.clear, of one provider or of all.
Cleared(q) == [p \in Sources |-> IF p \in q THEN NoEntry ELSE models[p]]

\* ResponseCache.get: an entry that is past its time to live is deleted.
Remembered(q) == responses[q] # NoEntry /\ responses[q].age <= ResponseTTL

\* Mutant: a hit renews the entry.
AfterHit_Renewed(q) == [responses EXCEPT ![q].age = 0]

AfterHit(q) == responses

-------------------------------------------------------------------------------
(* GET /api/providers/models *)

\* The client's If-None-Match is the hash of the cached body: 304, and the
\* application does not see the request.  No 200 carries the hash: the client
\* takes it from the body.
NotModified(q) ==
    /\ Remembered(q)
    /\ responses' = AfterHit(q)
    /\ UNCHANGED <<models, refreshes, get>>

\* No header, another hash, or nothing cached: the request goes on.
StartGet(g, q) ==
    /\ get[g] = NoGet
    /\ get' = [get EXCEPT ![g].query = q]
    /\ responses' = [responses EXCEPT ![q] = IF Remembered(q) THEN @ ELSE NoEntry]
    /\ UNCHANGED <<models, refreshes>>

\* The providers still to come to, in any order: the registry's is fixed.
ToDo(g) == get[g].query \ get[g].done

CameInAt(g, age) == IF age < get[g].took THEN 0 ELSE age - get[g].took

\* The list joins the result.
Collect(g, p, list) ==
    get' = [get EXCEPT
        ![g].done = @ \union {p},
        ![g].asks = {},
        ![g].askedBefore = FALSE,
        ![g].oldest = Sets!Max({@, CameInAt(g, list.age)}),
        ![g].outdated = IF list.stale /\ p \notin get[g].refreshed THEN @ \union {p} ELSE @]

FromCache(g, p) ==
    /\ get[g].asks = {} /\ p \in ToDo(g)
    /\ Fresh(p)
    /\ Collect(g, p, models[p])
    /\ UNCHANGED <<models, responses, refreshes>>

\* get has dropped what was too old; the provider is asked.
AskProvider(g, p) ==
    /\ get[g].asks = {} /\ p \in ToDo(g)
    /\ ~Fresh(p)
    /\ models' = [models EXCEPT ![p] = NoEntry]
    /\ get' = [get EXCEPT ![g].asks = {p}]
    /\ UNCHANGED <<responses, refreshes>>

\* The list, or the empty one that stands for a failure, is stored whatever
\* has become of the entry meanwhile.
ListArrives(g, p) ==
    LET list == [age |-> 0, stale |-> get[g].askedBefore]
    IN  /\ p \in get[g].asks
        /\ models' = [models EXCEPT ![p] = list]
        /\ Collect(g, p, list)
        /\ UNCHANGED <<responses, refreshes>>

\* The answer has been sent: the middleware stores its body.
SendList(g) ==
    /\ get[g] # NoGet
    /\ get[g].asks = {} /\ ToDo(g) = {}
    /\ responses' = [responses EXCEPT ![get[g].query] = [age |-> 0, oldest |-> get[g].oldest]]
    /\ get' = [get EXCEPT ![g] = NoGet]
    /\ UNCHANGED <<models, refreshes>>

-------------------------------------------------------------------------------
(* POST /api/providers/models/refresh; and time *)

\* The cached lists are cleared; the answers to GETs that the middleware keeps
\* are not touched, nor the requests under way.  The path has the middleware's
\* prefix: it keeps the answer to the POST as well.
Refresh(q) ==
    /\ models' = Cleared(q)
    /\ get' = [g \in Gets |->
            IF get[g] = NoGet THEN NoGet
            ELSE [get[g] EXCEPT
                    !.refreshed = @ \union (q \intersect get[g].query),
                    !.askedBefore = @ \/ get[g].asks \intersect q # {}]]
    /\ refreshes' = [refreshes EXCEPT ![q] = 0]
    /\ UNCHANGED responses

\* A POST with the hash of a kept answer is answered 304, and clears nothing.
RefreshNotModified(q) ==
    /\ refreshes[q] <= ResponseTTL
    /\ UNCHANGED catalogVars

Until(limit, time) == IF time < limit THEN time + 1 ELSE limit

CatalogTime ==
    /\ models' = [p \in Sources |->
            IF models[p] = NoEntry THEN NoEntry
            ELSE [models[p] EXCEPT !.age = Until(ModelTTL, @)]]
    /\ responses' = [q \in Queries |->
            IF responses[q] = NoEntry THEN NoEntry
            ELSE [responses[q] EXCEPT !.age = Until(ResponseTTL + 1, @),
                                      !.oldest = Until(Oldest, @)]]
    /\ refreshes' = [q \in Queries |-> Until(ResponseTTL + 1, refreshes[q])]
    /\ get' = [g \in Gets |->
            IF get[g] = NoGet THEN NoGet ELSE [get[g] EXCEPT !.took = Until(ModelTTL, @)]]

CatalogNext ==
    \/ \E q \in Queries : NotModified(q) \/ Refresh(q) \/ RefreshNotModified(q)
    \/ \E g \in Gets :
        \/ \E q \in Queries : StartGet(g, q)
        \/ \E p \in Sources : FromCache(g, p) \/ AskProvider(g, p) \/ ListArrives(g, p)
        \/ SendList(g)
    \/ CatalogTime

CatalogSpec == CatalogInit /\ [][CatalogNext]_catalogVars

-------------------------------------------------------------------------------
(* Properties *)

CatalogTypeOK ==
    /\ models \in [Sources -> List \union {NoEntry}]
    /\ responses \in [Queries -> Response \union {NoEntry}]
    /\ refreshes \in [Queries -> 0..(ResponseTTL + 1)]
    /\ get \in [Gets -> [query : Queries \union {{}}, done : SUBSET Sources,
                         asks : {{}} \union {{p} : p \in Sources}, took : 0..ModelTTL,
                         oldest : 0..ModelTTL, askedBefore : BOOLEAN,
                         refreshed : SUBSET Sources,
                         outdated : SUBSET Sources]]

\* A 304 confirms no list that had been stored for ModelTTL when the request
\* that last sent it came in, nor one sent more than ResponseTTL ago: asking
\* again and again keeps neither cache's entries alive.
ConfirmationsExpire ==
    \A q \in Queries : Remembered(q) => responses[q].oldest < ModelTTL + ResponseTTL

\* A request that comes in after a refresh that was let through gets lists asked
\* for after it: the refresh "clears cached entries ... so the next GET
\* /api/providers/models call re-fetches from the source".
RefreshTakes == \A g \in Gets : get[g].outdated = {}

===============================================================================
