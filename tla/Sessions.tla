-------------------------------- MODULE Sessions --------------------------------
(***************************************************************************)
(* Stored conversations and the requests that use them: ConversationStore  *)
(* (conversation/store.py), the REST handlers of conversation/router.py,   *)
(* the stateful chat endpoints (shared/session_router.py and chat of       *)
(* agent/router.py) and the TTL cleaner (shared/data_cleaner.py).          *)
(*                                                                         *)
(* A handler is suspended only while it waits for a model; everything it   *)
(* does before, and everything it does after, is one action.  Requests for *)
(* the same conversation interleave at that point and nothing locks it.    *)
(***************************************************************************)
EXTENDS Naturals, Sequences, FiniteSets, Selection

CONSTANTS
    Convs,          \* conversation (session) ids
    Requests,       \* slots for concurrent requests; a slot is used again
    Texts,          \* message texts, of at most the 64 KiB that are stored
    First80,        \* First80[t]: what `seen' compares of t, t[:80]
    Bodies,         \* the messages a request may carry
    Posts,          \* the messages a client may add by itself
    Replies,        \* what a model may answer, NoText among them
    NoText,         \* an empty reply
    Edits,          \* what a client may store as metadata
    NoEdit,         \* metadata nobody has set yet
    Window,         \* the limit of get_messages in the chat endpoints: 200
    TTL,            \* data_ttl_days
    MaxMessages,    \* bound: no new message for a conversation this long
    NoConv          \* the conversation of an idle slot

\* Roles that are not the user's are stored and compared alike: "assistant"
\* stands for all of them.
Message == [role : {"user", "assistant"}, text : Texts]

ASSUME SessionAssumption ==
    /\ First80 \in [Texts -> Texts]
    /\ \A t \in Texts : First80[First80[t]] = First80[t]
    /\ Bodies \subseteq Seq(Message) \ {<<>>}
    /\ Posts \subseteq Message
    /\ Replies \subseteq Texts \union {NoText}
    /\ NoText \notin Texts
    /\ NoEdit \in Edits
    /\ Window \in Nat
    /\ TTL \in Nat \ {0}
    /\ MaxMessages \in Nat
    /\ NoConv \notin Convs

VARIABLES
    rows,       \* the ids that have a row in table conversations
    conv,       \* conv[c]: message_count, days since updated_at, metadata
    messages,   \* messages[c]: table messages, by created_at
    request,    \* request[r]: what slot r is doing
    cleaned     \* observer: ids whose row the cleaner has removed, and whose
                \* messages nobody has deleted since

vars == <<rows, conv, messages, request, cleaned>>

-------------------------------------------------------------------------------
(* State *)

Meta == [edit : Edits, closed : BOOLEAN]

Row == [count : Nat, idle : 0..(TTL + 1), meta : Meta]

NewRow == [count |-> 0, idle |-> 0, meta |-> [edit |-> NoEdit, closed |-> FALSE]]

\* session, stream: POST /api/sessions/{id}/chat[/stream]; agent: POST
\* /api/agent/chat with a conversation_id; close: POST .../{id}/close.
Endpoints == {"session", "stream", "agent", "close"}

\* `history' is what the model was sent, `meta' what close read.  `from',
\* `intact' and `days' observe: where the request's own messages begin,
\* whether nobody has deleted the conversation since, and how many midnights
\* the request has seen.
Waiting == [endpoint : Endpoints, conv : Convs, body : Bodies \union {<<>>},
            history : Seq(Message), from : Nat, intact : BOOLEAN,
            days : 0..1, meta : Meta]

Idle == [endpoint |-> "none", conv |-> NoConv]

Busy(r) == request[r].endpoint # "none"

Init ==
    /\ rows = {}
    /\ conv = [c \in Convs |-> NewRow]
    /\ messages = [c \in Convs |-> <<>>]
    /\ request = [r \in Requests |-> Idle]
    /\ cleaned = {}

-------------------------------------------------------------------------------
(* The store *)

\* The messages of a body that are stored: those of the user.
Questions(body) == Select(body, {m \in Message : m.role = "user"})

\* Mutant: an empty reply is stored like any other.
Answered_Empty(reply) == <<[role |-> "assistant", text |-> reply]>>

Answered(reply) ==
    IF reply = NoText THEN <<>> ELSE <<[role |-> "assistant", text |-> reply]>>

\* Mutant: storing a message leaves updated_at alone.
AddMessages_NoTouch(c, new, row) ==
    /\ messages' = [messages EXCEPT ![c] = @ \o new]
    /\ conv' = [conv EXCEPT ![c] = [row EXCEPT !.count = @ + Len(new)]]

\* add_message, once per element of `new': each also counts the message and
\* sets updated_at.
AddMessages(c, new, row) ==
    /\ messages' = [messages EXCEPT ![c] = @ \o new]
    /\ conv' = [conv EXCEPT ![c] =
                  [row EXCEPT !.count = @ + Len(new),
                              !.idle = IF new = <<>> THEN @ ELSE 0]]

\* The bound: a request, or a client's message, begins only in a conversation
\* that is still short; what is under way may store the rest.
Room(c) == Len(messages[c]) < MaxMessages

\* get_messages(limit=Window): the oldest, in order of created_at.
Loaded(c) ==
    IF Len(messages[c]) <= Window THEN messages[c] ELSE SubSeq(messages[c], 1, Window)

Heads(list) == {First80[list[i].text] : i \in DOMAIN list}

\* Mutant: the dedupe looks at messages beyond the window that was loaded.
History_SeenBeyond(c, body) ==
    Loaded(c) \o Select(body, {m \in Message : First80[m.text] \notin Heads(messages[c])})

\* The messages of the body follow what was loaded, except that one whose first
\* 80 characters are those of a loaded message, of either role, is left out.
History(c, body) ==
    Loaded(c) \o Select(body, {m \in Message : First80[m.text] \notin Heads(Loaded(c))})

Wait(r, endpoint, c, body, history) ==
    request' = [request EXCEPT ![r] =
        [endpoint |-> endpoint, conv |-> c, body |-> body, history |-> history,
         from |-> Len(messages[c]), intact |-> TRUE, days |-> 0,
         meta |-> conv[c].meta]]

Finish(r) == request' = [request EXCEPT ![r] = Idle]

-------------------------------------------------------------------------------
(* The chat endpoints *)

\* Mutant: the question is not stored before the model is asked.
SessionChat_AsksFirst(r, endpoint, c, body) ==
    /\ ~Busy(r)
    /\ endpoint \in {"session", "stream"}
    /\ Room(c)
    /\ rows' = rows \union {c}
    /\ AddMessages(c, <<>>, IF c \in rows THEN conv[c] ELSE NewRow)
    /\ Wait(r, endpoint, c, body, History(c, body))
    /\ UNCHANGED cleaned

\* session_chat and session_chat_stream up to the model call: load or create
\* the conversation, read the history, store the user's messages.  A body
\* without one stores nothing, and leaves updated_at as it was.
SessionChat(r, endpoint, c, body) ==
    /\ ~Busy(r)
    /\ endpoint \in {"session", "stream"}
    /\ Room(c)
    /\ rows' = rows \union {c}
    /\ AddMessages(c, Questions(body), IF c \in rows THEN conv[c] ELSE NewRow)
    /\ Wait(r, endpoint, c, body, History(c, body))
    /\ UNCHANGED cleaned

\* chat of agent/router.py up to the model call: nothing is stored yet, but an
\* unknown conversation is created (and its history is not looked for).
AgentChat(r, c, body) ==
    /\ ~Busy(r)
    /\ Room(c)
    /\ rows' = rows \union {c}
    /\ conv' = IF c \in rows THEN conv ELSE [conv EXCEPT ![c] = NewRow]
    /\ Wait(r, "agent", c, body,
            IF c \in rows THEN History(c, body) ELSE body)
    /\ UNCHANGED <<messages, cleaned>>

\* What is stored when the model has answered: a session's question is already
\* in the store, a stream's answer never gets there.
Unstored(r, reply) ==
    CASE request[r].endpoint = "session" -> Answered(reply)
      [] request[r].endpoint = "agent"   -> Questions(request[r].body) \o Answered(reply)
      [] request[r].endpoint = "stream"  -> <<>>

\* The model answers: what the endpoint has left to store, it stores.  If the
\* row is gone the foreign key refuses the insert and the request fails.
ChatReturns(r, reply) ==
    /\ Busy(r)
    /\ request[r].endpoint # "close"
    /\ LET c == request[r].conv
       IN  IF c \in rows THEN AddMessages(c, Unstored(r, reply), conv[c])
                         ELSE UNCHANGED <<conv, messages>>
    /\ Finish(r)
    /\ UNCHANGED <<rows, cleaned>>

\* The turn raises, or the process stops in the middle of it.
ChatFails(r) ==
    /\ Busy(r)
    /\ request[r].endpoint # "close"
    /\ Finish(r)
    /\ UNCHANGED <<rows, conv, messages, cleaned>>

-------------------------------------------------------------------------------
(* conversation/router.py *)

\* close_conversation reads the conversation and waits for its summary ...
Close(r, c) ==
    /\ ~Busy(r)
    /\ c \in rows
    /\ Wait(r, "close", c, <<>>, Loaded(c))
    /\ UNCHANGED <<rows, conv, messages, cleaned>>

\* ... and writes the metadata it read, with the summary and the closed mark.
CloseReturns(r) ==
    /\ Busy(r)
    /\ request[r].endpoint = "close"
    /\ LET c == request[r].conv
       IN  conv' = IF c \in rows
                   THEN [conv EXCEPT ![c].meta = [request[r].meta EXCEPT !.closed = TRUE],
                                     ![c].idle = 0]
                   ELSE conv
    /\ Finish(r)
    /\ UNCHANGED <<rows, messages, cleaned>>

\* update_conversation: the metadata, unless the client only changes the title,
\* is replaced as a whole.
UpdateConversation(c, meta) ==
    /\ c \in rows
    /\ conv' = [conv EXCEPT ![c].meta = meta, ![c].idle = 0]
    /\ UNCHANGED <<rows, messages, request, cleaned>>

\* add_message of a client; without a row the foreign key refuses it.
AddMessage(c, message) ==
    /\ c \in rows
    /\ Room(c)
    /\ AddMessages(c, <<message>>, conv[c])
    /\ UNCHANGED <<rows, request, cleaned>>

\* Mutant: the deletion leaves the messages to a cascade.
DeleteConversation_RowOnly(c) ==
    /\ c \in rows
    /\ rows' = rows \ {c}
    /\ conv' = [conv EXCEPT ![c] = NewRow]
    /\ UNCHANGED <<messages, request, cleaned>>

\* delete_conversation: messages and row, whoever is still waiting.
DeleteConversation(c) ==
    /\ c \in rows
    /\ rows' = rows \ {c}
    /\ conv' = [conv EXCEPT ![c] = NewRow]
    /\ messages' = [messages EXCEPT ![c] = <<>>]
    /\ request' = [r \in Requests |->
                     IF Busy(r) /\ request[r].conv = c
                     THEN [request[r] EXCEPT !.intact = FALSE] ELSE request[r]]
    /\ cleaned' = cleaned \ {c}

-------------------------------------------------------------------------------
(* Time *)

\* A request does not outlive a whole day: it sees one midnight at most.
Day ==
    /\ \A r \in Requests : Busy(r) => request[r].days = 0
    /\ conv' = [c \in Convs |->
                  IF c \in rows /\ conv[c].idle <= TTL
                  THEN [conv[c] EXCEPT !.idle = @ + 1] ELSE conv[c]]
    /\ request' = [r \in Requests |->
                     IF Busy(r) THEN [request[r] EXCEPT !.days = 1] ELSE request[r]]
    /\ UNCHANGED <<rows, messages, cleaned>>

\* DataCleaner._clean: rows not updated for more than TTL days.  Its connection
\* never turns the foreign keys on, so ON DELETE CASCADE does not happen.
Clean ==
    LET old == {c \in rows : conv[c].idle > TTL}
    IN  /\ old # {}
        /\ rows' = rows \ old
        /\ conv' = [c \in Convs |-> IF c \in old THEN NewRow ELSE conv[c]]
        /\ cleaned' = cleaned \union old
        /\ UNCHANGED <<messages, request>>

Returns(r) == (\E reply \in Replies : ChatReturns(r, reply)) \/ CloseReturns(r)

Next ==
    \/ \E r \in Requests, c \in Convs :
         \/ \E body \in Bodies :
              \/ \E endpoint \in {"session", "stream"} : SessionChat(r, endpoint, c, body)
              \/ AgentChat(r, c, body)
         \/ Close(r, c)
    \/ \E r \in Requests : Returns(r) \/ ChatFails(r)
    \/ \E c \in Convs :
         \/ \E meta \in {conv[c].meta} \union [edit : Edits, closed : {FALSE}] :
              UpdateConversation(c, meta)
         \/ \E message \in Posts : AddMessage(c, message)
         \/ DeleteConversation(c)
    \/ Day
    \/ Clean

Spec == Init /\ [][Next]_vars

-------------------------------------------------------------------------------
(* Properties *)

TypeOK ==
    /\ rows \subseteq Convs
    /\ conv \in [Convs -> Row]
    /\ messages \in [Convs -> Seq(Message)]
    /\ request \in [Requests -> Waiting \union {Idle}]
    /\ cleaned \subseteq Convs

\* message_count is the number of stored messages, and an id without a row has
\* none, however the handlers interleave; only the cleaner breaks the tie.
CountsAgree ==
    \A c \in Convs \ cleaned : conv[c].count = Len(messages[c])

\* A chat of a session endpoint that has a question, which it stores before it
\* asks.  A body without a message of the user has none to keep.
Asking(r) ==
    /\ request[r].endpoint \in {"session", "stream"}
    /\ Questions(request[r].body) # <<>>

\* The question a session endpoint is waiting to have answered is in the store,
\* where it was put, unless somebody deleted the conversation: no concurrent
\* request, failure or cleaning takes it away or puts a message before it.
QuestionKept ==
    \A r \in Requests :
        Asking(r) /\ request[r].intact =>
            \A i \in DOMAIN Questions(request[r].body) :
                LET place == request[r].from + i
                    here  == messages[request[r].conv]
                IN  /\ place \in DOMAIN here
                    /\ here[place] = Questions(request[r].body)[i]

\* While a session endpoint waits with a question, its conversation keeps its
\* row unless a client deletes it: storing the question has reset the cleaner's
\* clock, so the answer's insert never meets a missing row.
SessionKeepsItsRow ==
    \A r \in Requests :
        Asking(r) /\ request[r].intact => request[r].conv \in rows

\* A message of the body is sent to the model as it is, unless one that was
\* loaded, and is sent too, has the same first 80 characters: nothing is left
\* out for the sake of a message beyond the window, of another conversation or
\* of the body itself.
ModelSeesTheQuestion ==
    \A r \in Requests : Busy(r) =>
        \A i \in DOMAIN request[r].body :
            LET m    == request[r].body[i]
                sent == request[r].history
            IN  \/ m \in Elements(sent)
                \/ \E j \in DOMAIN sent :
                     /\ j <= request[r].from /\ j <= Window
                     /\ First80[sent[j].text] = First80[m.text]

===============================================================================
