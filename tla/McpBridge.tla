-------------------------------- MODULE McpBridge --------------------------------
(***************************************************************************)
(* The connections to MCP servers (mcp/bridge.py), the requests that use   *)
(* them (mcp/router.py) and their end at shutdown (main.py).               *)
(*                                                                         *)
(* Every await is an HTTP call or the closing of a client; a request holds *)
(* on to its connection object across it, whatever becomes of the map.     *)
(***************************************************************************)
EXTENDS Naturals, FiniteSets

CONSTANTS
    Servers,    \* names
    Conns,      \* connection objects; add_server makes a new one each time
    NoConn,     \* a name that is not registered
    Users       \* slots for concurrent requests; a slot is used again

ASSUME BridgeAssumption ==
    /\ NoConn \notin Conns
    /\ IsFiniteSet(Servers)

VARIABLES
    registered, \* registered[n]: the connection in MCPBridge._servers, or NoConn
    conn,       \* conn[k]: the connection object
    user,       \* user[u]: a request under way
    closing,    \* close_all, and the connections it has still to close
    replaced    \* observer: connections add_server put another in the place of

mcpVars == <<registered, conn, user, closing, replaced>>

-------------------------------------------------------------------------------
(* State *)

\* `client': the httpx client.  aclose marks it as closed and is awaited
\* ("gone"); when it raises, the reference stays ("failed").  `tools': whether
\* a tool list is kept.  `leaving': remove_server has made a task to close it.
Connection == [used : BOOLEAN, client : {"none", "open", "gone", "failed"},
               healthy : {"unknown", "yes", "no"}, tools : BOOLEAN, leaving : BOOLEAN]

Unused == [used |-> FALSE, client |-> "none", healthy |-> "unknown",
           tools |-> FALSE, leaving |-> FALSE]

\* `size' and `seen': the iteration of list_all_tools or check_all_servers.
Free == [doing |-> "nothing", conn |-> NoConn, size |-> 0, seen |-> {}]

Registered == {k \in Conns : \E n \in Servers : registered[n] = k}

Size == Cardinality({n \in Servers : registered[n] # NoConn})

McpInit ==
    /\ registered = [n \in Servers |-> NoConn]
    /\ conn = [k \in Conns |-> Unused]
    /\ user = [u \in Users |-> Free]
    /\ closing = [at |-> "no", left |-> {}]
    /\ replaced = {}

\* _get_client: the client is made when it is first needed.
WithClient(k) == [conn EXCEPT ![k].client = IF @ = "none" THEN "open" ELSE @]

-------------------------------------------------------------------------------
(* The map of servers *)

\* add_server: a connection under the same name is dropped, not closed.
AddServer(n, k) ==
    /\ closing.at = "no"
    /\ ~conn[k].used
    /\ registered' = [registered EXCEPT ![n] = k]
    /\ conn' = [conn EXCEPT ![k].used = TRUE]
    /\ replaced' = IF registered[n] = NoConn THEN replaced ELSE replaced \union {registered[n]}
    /\ UNCHANGED <<user, closing>>

\* Mutant: the connection is taken out of the map and no task closes it.
Leaving_Never(k) == conn

\* remove_server makes a task that closes the connection.
Leaving(k) == [conn EXCEPT ![k].leaving = TRUE]

RemoveServer(n) ==
    /\ closing.at = "no"
    /\ registered[n] # NoConn
    /\ conn' = Leaving(registered[n])
    /\ registered' = [registered EXCEPT ![n] = NoConn]
    /\ UNCHANGED <<user, closing, replaced>>

\* MCPServerConnection.close, in two halves: aclose is awaited, then the
\* reference is dropped.  Without a client there is nothing to do.
CloseBegins(k) ==
    /\ conn[k].leaving \/ (closing.at = "servers" /\ k \in closing.left)
    /\ conn[k].client = "open"
    /\ conn' = [conn EXCEPT ![k].client = "gone"]
    /\ UNCHANGED <<registered, user, closing, replaced>>

CloseEnds(k) ==
    /\ conn[k].client = "gone"
    /\ conn' = [conn EXCEPT ![k].client = "none", ![k].leaving = FALSE]
    /\ closing' = [closing EXCEPT !.left = @ \ {k}]
    /\ UNCHANGED <<registered, user, replaced>>

\* aclose raises: _close_connection and close_all log it, and nobody calls it
\* a second time.
CloseFails(k) ==
    /\ conn[k].client = "gone"
    /\ conn' = [conn EXCEPT ![k].client = "failed", ![k].leaving = FALSE]
    /\ closing' = [closing EXCEPT !.left = @ \ {k}]
    /\ UNCHANGED <<registered, user, replaced>>

NothingToClose(k) ==
    /\ conn[k].client = "none"
    /\ \/ /\ conn[k].leaving
          /\ conn' = [conn EXCEPT ![k].leaving = FALSE]
          /\ UNCHANGED closing
       \/ /\ closing.at = "servers" /\ k \in closing.left
          /\ closing' = [closing EXCEPT !.left = @ \ {k}]
          /\ UNCHANGED conn
    /\ UNCHANGED <<registered, user, replaced>>

-------------------------------------------------------------------------------
(* Requests *)

Waits(u, doing, k) ==
    /\ user' = [user EXCEPT ![u] = [@ EXCEPT !.doing = doing, !.conn = k]]
    /\ conn' = WithClient(k)
    /\ UNCHANGED <<registered, closing, replaced>>

\* POST /api/mcp/call and GET .../{name}/health: one connection.
CallTool(u, n) ==
    /\ closing.at = "no" /\ user[u] = Free
    /\ registered[n] # NoConn
    /\ Waits(u, "call", registered[n])

CheckServer(u, n) ==
    /\ closing.at = "no" /\ user[u] = Free
    /\ registered[n] # NoConn
    /\ Waits(u, "check", registered[n])

\* The two requests that go through the whole map.
Aggregate(u, doing) ==
    /\ closing.at = "no" /\ user[u] = Free
    /\ doing \in {"listing", "checking"}
    /\ user' = [user EXCEPT ![u] = [Free EXCEPT !.doing = doing, !.size = Size]]
    /\ UNCHANGED <<registered, conn, closing, replaced>>

\* list_tools answers from the list it keeps; list_all_tools passes over a
\* connection that is not healthy.
NoCallNeeded(u, k) ==
    user[u].doing = "listing" /\ (conn[k].healthy = "no" \/ conn[k].tools)

\* The iterator's next connection; it raises when the map's size changed.
NextServer(u) ==
    /\ user[u].doing \in {"listing", "checking"}
    /\ IF Size = user[u].size /\ Registered \ user[u].seen # {}
       THEN \E k \in Registered \ user[u].seen :
              IF NoCallNeeded(u, k)
              THEN /\ user' = [user EXCEPT ![u].seen = @ \union {k}]
                   /\ UNCHANGED conn
              ELSE /\ user' = [user EXCEPT
                        ![u] = [doing |-> IF @.doing = "listing" THEN "list" ELSE "health",
                                conn |-> k, size |-> @.size, seen |-> @.seen \union {k}]]
                   /\ conn' = WithClient(k)
       ELSE /\ user' = [user EXCEPT ![u] = Free]
            /\ UNCHANGED conn
    /\ UNCHANGED <<registered, closing, replaced>>

\* What a failure writes down: a probe also forgets the tools.
AfterFailure(k, doing) ==
    CASE doing \in {"check", "health"} -> [conn EXCEPT ![k].healthy = "no", ![k].tools = FALSE]
      [] doing = "list" -> [conn EXCEPT ![k].healthy = "no"]
      [] OTHER -> conn

AfterSuccess(k, doing) ==
    CASE doing \in {"check", "health"} -> [conn EXCEPT ![k].healthy = "yes"]
      [] doing = "list" -> [conn EXCEPT ![k].healthy = "yes", ![k].tools = TRUE]
      [] OTHER -> conn

\* A list or a probe that is one of many goes on with the next server.
GoesOn(u) ==
    user' = [user EXCEPT ![u] =
        CASE @.doing = "list"   -> [@ EXCEPT !.doing = "listing", !.conn = NoConn]
          [] @.doing = "health" -> [@ EXCEPT !.doing = "checking", !.conn = NoConn]
          [] OTHER              -> Free]

InCall(u) == user[u].doing \in {"call", "check", "list", "health"}

\* The server answers.
CallSucceeds(u) ==
    /\ InCall(u)
    /\ conn[user[u].conn].client = "open"
    /\ conn' = AfterSuccess(user[u].conn, user[u].doing)
    /\ GoesOn(u)
    /\ UNCHANGED <<registered, closing, replaced>>

\* It does not, or the client was closed underneath: each of the calls turns
\* that into an answer of its own.
CallFails(u) ==
    /\ InCall(u)
    /\ conn' = AfterFailure(user[u].conn, user[u].doing)
    /\ GoesOn(u)
    /\ UNCHANGED <<registered, closing, replaced>>

\* list_tools catches what httpx calls an error.  A closed client and a body
\* that is not JSON raise something else: the whole list of tools fails and
\* nothing is noted about the server.
ListRaises(u) ==
    /\ user[u].doing = "list"
    /\ user' = [user EXCEPT ![u] = Free]
    /\ UNCHANGED <<registered, conn, closing, replaced>>

-------------------------------------------------------------------------------
(* Shutdown *)

\* The server lets requests end, or cancels them, before the lifespan's
\* cleanup begins; close_all waits for the closings under way first.
Shutdown ==
    /\ closing.at = "no"
    /\ \A u \in Users : user[u] = Free
    /\ closing' = [at |-> "pending", left |-> {}]
    /\ UNCHANGED <<registered, conn, user, replaced>>

CloseServers ==
    /\ closing.at = "pending"
    /\ \A k \in Conns : ~conn[k].leaving
    /\ closing' = [at |-> "servers", left |-> Registered]
    /\ UNCHANGED <<registered, conn, user, replaced>>

AllClosed ==
    /\ closing.at = "servers"
    /\ closing.left = {}
    /\ registered' = [n \in Servers |-> NoConn]
    /\ closing' = [closing EXCEPT !.at = "done"]
    /\ UNCHANGED <<conn, user, replaced>>

CloseStep ==
    \/ \E k \in Conns : CloseBegins(k) \/ CloseEnds(k) \/ CloseFails(k) \/ NothingToClose(k)
    \/ CloseServers
    \/ AllClosed

McpNext ==
    \/ \E n \in Servers : RemoveServer(n) \/ \E k \in Conns : AddServer(n, k)
    \/ \E u \in Users :
        \/ \E n \in Servers : CallTool(u, n) \/ CheckServer(u, n)
        \/ \E doing \in {"listing", "checking"} : Aggregate(u, doing)
        \/ NextServer(u)
        \/ CallSucceeds(u)
        \/ CallFails(u)
        \/ ListRaises(u)
    \/ Shutdown
    \/ CloseStep

McpSpec == McpInit /\ [][McpNext]_mcpVars

-------------------------------------------------------------------------------
(* Properties *)

McpTypeOK ==
    /\ registered \in [Servers -> Conns \union {NoConn}]
    /\ conn \in [Conns -> Connection]
    /\ user \in [Users -> [doing : {"nothing", "call", "check", "list", "listing",
                                    "health", "checking"},
                           conn : Conns \union {NoConn}, size : 0..Cardinality(Servers),
                           seen : SUBSET Conns]]
    /\ closing \in [at : {"no", "pending", "servers", "done"}, left : SUBSET Conns]
    /\ replaced \subseteq Conns

\* A client that nobody has tried to close, or whose closing is under way,
\* belongs to a registered server or to one that a task is about to close,
\* whatever requests were under way when it was removed: only a server that
\* another took the place of keeps its client for ever.  This promises the
\* attempt and no more: a client whose aclose raised is out of everyone's reach.
ClientsAreClosed ==
    \A k \in Conns :
        conn[k].client \in {"open", "gone"} =>
            \/ k \in Registered \/ conn[k].leaving \/ k \in replaced

===============================================================================
