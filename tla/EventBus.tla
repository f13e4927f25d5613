-------------------------------- MODULE EventBus --------------------------------
(***************************************************************************)
(* The event bus (shared/event.py) and the WebSocket endpoint that feeds   *)
(* from it (main.py): events are published by handlers, and go to every    *)
(* connected socket, either at once (InMemoryEventBackend) or through a    *)
(* Redis channel and a listener task (RedisEventBackend).                  *)
(***************************************************************************)
EXTENDS Naturals, Sequences, FiniteSets, Selection

CONSTANTS
    Events,     \* events; each is published at most once
    Sockets,    \* connection ids; uuid4, so an id is never used twice
    Slow        \* the sockets whose clients may stop reading: a send to one of
                \* them may wait for ever

ASSUME BusAssumption == Slow \subseteq Sockets /\ IsFiniteSet(Sockets)

VARIABLES
    backend,    \* HERMES_EVENT_BACKEND, read when the process starts
    socket,     \* socket[c]: whether it is subscribed, and whether it is up
    sends,      \* sends[e]: the publisher of e, waiting in gather
    channel,    \* the messages on the Redis channel, oldest first
    listener,   \* the Redis listener task
    got,        \* observer: got[c]: the events that reached socket c, in order
    owed        \* observer: owed[e]: the sockets e was for

busVars == <<backend, socket, sends, channel, listener, got, owed>>

-------------------------------------------------------------------------------
(* State *)

\* A client may vanish before the server notices: up becomes FALSE, the
\* subscription stays until the receive loop or a failed send ends it.
SocketState == [subscribed : BOOLEAN, up : BOOLEAN]

\* `to' are the sends still under way, `dead' the ones that raised.
NotPublished == [at |-> "unpublished", to |-> {}, dead |-> {}]
Published == [at |-> "published", to |-> {}, dead |-> {}]

\* `to' are the sockets the message in hand has not been sent to, in turn.
Resting == [at |-> "waiting", event |-> <<>>, to |-> <<>>, dead |-> {}]

Subscribed == {c \in Sockets : socket[c].subscribed}

Unsubscribe(ids) ==
    [c \in Sockets |-> IF c \in ids THEN [socket[c] EXCEPT !.subscribed = FALSE] ELSE socket[c]]

BusInit ==
    /\ backend \in {"memory", "redis"}
    /\ socket = [c \in Sockets |-> [subscribed |-> FALSE, up |-> FALSE]]
    /\ sends = [e \in Events |-> NotPublished]
    /\ channel = <<>>
    /\ listener = Resting
    /\ got = [c \in Sockets |-> <<>>]
    /\ owed = [e \in Events |-> {}]

\* A send reaches a socket that is up.
Reached(c, e) == [got EXCEPT ![c] = IF socket[c].up THEN Append(@, e) ELSE @]

\* On one that is not it may raise, or go unnoticed: {} or {c} is the socket it
\* raised on.
Raised(c) == IF socket[c].up THEN {{}} ELSE {{}, {c}}

-------------------------------------------------------------------------------
(* The WebSocket endpoint *)

\* accept, then subscribe_ws.
Connect(c) ==
    /\ ~socket[c].subscribed /\ got[c] = <<>> /\ \A e \in Events : c \notin owed[e]
    /\ socket' = [socket EXCEPT ![c] = [subscribed |-> TRUE, up |-> TRUE]]
    /\ UNCHANGED <<backend, sends, channel, listener, got, owed>>

Vanish(c) ==
    /\ socket[c].up
    /\ socket' = [socket EXCEPT ![c].up = FALSE]
    /\ UNCHANGED <<backend, sends, channel, listener, got, owed>>

\* The receive loop sees the disconnect: finally unsubscribe_ws.
Disconnect(c) ==
    /\ socket[c].subscribed
    /\ ~socket[c].up
    /\ socket' = Unsubscribe({c})
    /\ UNCHANGED <<backend, sends, channel, listener, got, owed>>

-------------------------------------------------------------------------------
(* InMemoryEventBackend *)

\* Callbacks are called first (none of them raises past publish); then one
\* send per socket subscribed at this moment is started.
PublishInMemory(e) ==
    /\ backend = "memory"
    /\ sends[e] = NotPublished
    /\ sends' = [sends EXCEPT ![e] = [at |-> "sending", to |-> Subscribed, dead |-> {}]]
    /\ owed' = [owed EXCEPT ![e] = Subscribed]
    /\ UNCHANGED <<backend, socket, channel, listener, got>>

\* Mutant: the first send that raises ends the fan-out.
AfterSend_Stops(e, c, raised) ==
    [sends EXCEPT ![e].to = IF raised = {} THEN @ \ {c} ELSE {}, ![e].dead = @ \union raised]

\* _send_one swallows what its send raises.
AfterSend(e, c, raised) ==
    [sends EXCEPT ![e].to = @ \ {c}, ![e].dead = @ \union raised]

SendOne(e, c) ==
    /\ c \in sends[e].to
    /\ \E raised \in Raised(c) : sends' = AfterSend(e, c, raised)
    /\ got' = Reached(c, e)
    /\ UNCHANGED <<backend, socket, channel, listener, owed>>

\* gather has all results: the dead are popped, though they may have gone
\* by themselves meanwhile.
Gathered(e) ==
    /\ sends[e].at = "sending"
    /\ sends[e].to = {}
    /\ socket' = Unsubscribe(sends[e].dead)
    /\ sends' = [sends EXCEPT ![e] = Published]
    /\ UNCHANGED <<backend, channel, listener, got, owed>>

-------------------------------------------------------------------------------
(* RedisEventBackend *)

\* Mutant: the publisher also sends to the sockets of its own process.
LocalSends_Too == Subscribed

\* The event goes to the channel; the sockets get it from the listener.
LocalSends == {}

\* client.publish arrives; a lost connection makes publish raise instead.
PublishToRedis(e) ==
    /\ backend = "redis"
    /\ sends[e] = NotPublished
    /\ \/ /\ channel' = IF listener.at = "stopped" THEN channel ELSE Append(channel, e)
          /\ sends' = [sends EXCEPT ![e] = [at |-> "sending", to |-> LocalSends, dead |-> {}]]
       \/ /\ sends' = [sends EXCEPT ![e] = Published]
          /\ UNCHANGED channel
    /\ UNCHANGED <<backend, socket, listener, got, owed>>

\* The next message: its sockets are copied when it is taken up.
Listen ==
    /\ backend = "redis"
    /\ listener.at = "waiting"
    /\ channel # <<>>
    /\ channel' = Tail(channel)
    /\ \E turns \in Orders(Subscribed) :
         listener' = [at |-> "fanning", event |-> <<Head(channel)>>, to |-> turns, dead |-> {}]
    /\ owed' = [owed EXCEPT ![Head(channel)] = Subscribed]
    /\ UNCHANGED <<backend, socket, sends, got>>

\* One after the other; a failed send is noted and the next one follows.
ListenerSends(c) ==
    /\ listener.to # <<>>
    /\ c = Head(listener.to)
    /\ \E raised \in Raised(c) :
         listener' = [listener EXCEPT !.to = Tail(@), !.dead = @ \union raised]
    /\ got' = Reached(c, listener.event[1])
    /\ UNCHANGED <<backend, socket, sends, channel, owed>>

ListenerDone ==
    /\ listener.at = "fanning"
    /\ listener.to = <<>>
    /\ socket' = Unsubscribe(listener.dead)
    /\ listener' = Resting
    /\ UNCHANGED <<backend, sends, channel, got, owed>>

\* listen raises when the connection is lost: the task ends and is never
\* started again, and nothing tells the publishers.  close cancels it too.
ListenerStops ==
    /\ backend = "redis"
    /\ listener.at # "stopped"
    /\ listener' = [Resting EXCEPT !.at = "stopped"]
    /\ channel' = <<>>
    /\ UNCHANGED <<backend, socket, sends, got, owed>>

BusNext ==
    \/ \E c \in Sockets : Connect(c) \/ Vanish(c) \/ Disconnect(c) \/ ListenerSends(c)
    \/ \E e \in Events :
        \/ PublishInMemory(e)
        \/ PublishToRedis(e)
        \/ \E c \in Sockets : SendOne(e, c)
        \/ Gathered(e)
    \/ Listen
    \/ ListenerDone
    \/ ListenerStops

\* What asyncio brings about: tasks that can run, and sends to clients that
\* read.
BusProgress ==
    \/ Listen
    \/ ListenerDone
    \/ \E e \in Events : Gathered(e)
    \/ \E c \in Sockets \ Slow : ListenerSends(c) \/ \E e \in Events : SendOne(e, c)

BusSpec == BusInit /\ [][BusNext]_busVars /\ WF_busVars(BusProgress)

-------------------------------------------------------------------------------
(* Properties *)

BusTypeOK ==
    /\ backend \in {"memory", "redis"}
    /\ socket \in [Sockets -> SocketState]
    /\ sends \in [Events -> [at : {"unpublished", "sending", "published"},
                             to : SUBSET Sockets, dead : SUBSET Sockets]]
    /\ channel \in Seq(Events)
    /\ listener.at \in {"waiting", "fanning", "stopped"}
    /\ got \in [Sockets -> Seq(Events)]
    /\ owed \in [Events -> SUBSET Sockets]

\* However publishers, listener and clients interleave, a socket gets an event
\* once, and only one it was subscribed for when its sockets were collected.
AtMostOnce ==
    \A c \in Sockets :
        /\ \A i, j \in DOMAIN got[c] : i # j => got[c][i] # got[c][j]
        /\ \A i \in DOMAIN got[c] : c \in owed[got[c][i]]

\* A socket an event is for gets it, unless its client vanishes or the Redis
\* listener stops.  In memory no dead or slow client keeps it from the others;
\* the listener of Redis sends in turn, so there a slow one does.
EveryoneIsServed ==
    \A e \in Events, c \in Sockets \ Slow :
        (c \in owed[e] /\ socket[c].up)
            ~> (\/ \E i \in DOMAIN got[c] : got[c][i] = e
                \/ ~socket[c].up
                \/ backend = "redis" /\ (listener.at = "stopped" \/ Slow \cap owed[e] # {}))

===============================================================================
