---------------------------- MODULE Sessions_proofs ----------------------------
(***************************************************************************)
(* Proofs about Sessions, for any conversations, requests, texts, window   *)
(* and TTL.                                                                *)
(*                                                                         *)
(* Counts and messages change together, so CountsAgree needs only that an  *)
(* id without a row is as new.  That a waiting request keeps its row is    *)
(* not inductive: the cleaner goes by `idle'.  The invariant says that the *)
(* conversation of a request that has stored its question is never older   *)
(* than the request, and a request sees at most one midnight.              *)
(*                                                                         *)
(* What the model is sent does not depend on any of this: it is fixed when *)
(* the request begins to wait, and a second invariant speaks of it.        *)
(***************************************************************************)
EXTENDS Sessions, Selection_proofs, SequenceTheorems, TLAPS

\* A request's record, whatever history it was sent.
RequestOK(w) ==
    \/ w = Idle
    \/ w \in [endpoint : Endpoints, conv : Convs, body : Bodies \union {<<>>},
              history : {w.history}, from : Nat, intact : BOOLEAN,
              days : 0..1, meta : Meta]

StoredOK ==
    /\ rows \subseteq Convs
    /\ conv \in [Convs -> Row]
    /\ messages \in [Convs -> Seq(Message)]
    /\ cleaned \subseteq Convs
    /\ DOMAIN request = Requests
    /\ request = [r \in Requests |-> request[r]]
    /\ \A r \in Requests : RequestOK(request[r])

\* An id without a row is as if it had never had one.
NewIsNew == \A c \in Convs \ rows : conv[c] = NewRow

\* The question of r is stored where r put it.
Kept(r) ==
    \A i \in DOMAIN Questions(request[r].body) :
        LET place == request[r].from + i
            here  == messages[request[r].conv]
        IN  /\ place \in DOMAIN here
            /\ here[place] = Questions(request[r].body)[i]

\* The conversation of a request that waits for its answer is in use: it has a
\* row, not older than the request.
InUse(r) ==
    /\ request[r].conv \in rows
    /\ conv[request[r].conv].idle <= request[r].days

Safe(r) == Asking(r) /\ request[r].intact => Kept(r) /\ InUse(r)

IInv ==
    /\ StoredOK
    /\ NewIsNew
    /\ CountsAgree
    /\ \A r \in Requests : Safe(r)

-------------------------------------------------------------------------------
(* Sequences of messages *)

LEMMA BodyType ==
    ASSUME NEW body \in Bodies \union {<<>>}
    PROVE  /\ body \in Seq(Message)
           /\ Questions(body) \in Seq(Message)
<1>1. body \in Seq(Message)
  <2>1. <<>> \in Seq(Message)
    BY EmptySeq
  <2> QED
    BY <2>1, SessionAssumption
<1>2. Questions(body) \in Seq(Message)
  BY <1>1, SelectType DEF Questions
<1> QED
  BY <1>1, <1>2

LEMMA AnsweredType ==
    ASSUME NEW reply \in Replies
    PROVE  Answered(reply) \in Seq(Message)
<1>1. CASE reply = NoText
  BY <1>1 DEF Answered
<1>2. CASE reply # NoText
  <2>1. [role |-> "assistant", text |-> reply] \in Message
    BY <1>2, SessionAssumption DEF Message
  <2> QED
    BY <1>2, <2>1 DEF Answered
<1> QED
  BY <1>1, <1>2

\* Storing messages: what it does to the tables.
LEMMA AddMessagesEffect ==
    ASSUME StoredOK, NEW c \in Convs, NEW new \in Seq(Message), NEW row \in Row,
           AddMessages(c, new, row)
    PROVE  /\ messages' \in [Convs -> Seq(Message)]
           /\ conv' \in [Convs -> Row]
           /\ Len(messages'[c]) = Len(messages[c]) + Len(new)
           /\ \A i \in DOMAIN messages[c] : i \in DOMAIN messages'[c] /\ messages'[c][i] = messages[c][i]
           /\ \A i \in DOMAIN new : /\ Len(messages[c]) + i \in DOMAIN messages'[c]
                                    /\ messages'[c][Len(messages[c]) + i] = new[i]
           /\ conv'[c].count = row.count + Len(new)
           /\ conv'[c].idle \in {0, row.idle}
           /\ new # <<>> => conv'[c].idle = 0
           /\ \A d \in Convs \ {c} : messages'[d] = messages[d] /\ conv'[d] = conv[d]
<1>1. messages[c] \in Seq(Message) /\ messages'[c] = messages[c] \o new
  BY DEF StoredOK, AddMessages
<1>2. /\ messages'[c] \in Seq(Message)
      /\ Len(messages'[c]) = Len(messages[c]) + Len(new)
      /\ \A i \in 1..(Len(messages[c]) + Len(new)) :
           messages'[c][i] = IF i <= Len(messages[c]) THEN messages[c][i]
                             ELSE new[i - Len(messages[c])]
  BY <1>1, ConcatProperties
<1>3. /\ Len(messages[c]) \in Nat /\ DOMAIN messages[c] = 1..Len(messages[c])
      /\ Len(new) \in Nat /\ DOMAIN new = 1..Len(new)
      /\ DOMAIN messages'[c] = 1..(Len(messages[c]) + Len(new))
  BY <1>1, <1>2, LenProperties
<1>4. messages' \in [Convs -> Seq(Message)]
  BY <1>2 DEF StoredOK, AddMessages
<1>5. \A i \in DOMAIN messages[c] : i \in DOMAIN messages'[c] /\ messages'[c][i] = messages[c][i]
  BY <1>2, <1>3
<1>6. \A i \in DOMAIN new : /\ Len(messages[c]) + i \in DOMAIN messages'[c]
                            /\ messages'[c][Len(messages[c]) + i] = new[i]
  <2> SUFFICES ASSUME NEW i \in 1..Len(new)
               PROVE  /\ Len(messages[c]) + i \in 1..(Len(messages[c]) + Len(new))
                      /\ messages'[c][Len(messages[c]) + i] = new[i]
    BY <1>3
  <2>1. /\ Len(messages[c]) + i \in 1..(Len(messages[c]) + Len(new))
        /\ ~(Len(messages[c]) + i <= Len(messages[c]))
        /\ (Len(messages[c]) + i) - Len(messages[c]) = i
    BY <1>3
  <2> QED
    BY <1>2, <2>1
<1>7. conv'[c] = [row EXCEPT !.count = @ + Len(new),
                             !.idle = IF new = <<>> THEN @ ELSE 0]
  BY DEF StoredOK, AddMessages
<1>8. /\ conv'[c] \in Row
      /\ conv'[c].count = row.count + Len(new)
      /\ conv'[c].idle \in {0, row.idle}
      /\ new # <<>> => conv'[c].idle = 0
  <2> DEFINE idle == IF new = <<>> THEN row.idle ELSE 0
  <2>1. row.count \in Nat /\ row.idle \in 0..(TTL + 1) /\ row.meta \in Meta
    BY DEF Row
  <2>2. idle \in 0..(TTL + 1) /\ idle \in {0, row.idle} /\ (new # <<>> => idle = 0)
    BY <2>1, SessionAssumption
  <2>3. row.count + Len(new) \in Nat
    BY <1>3, <2>1
  <2>4. conv'[c] = [count |-> row.count + Len(new), idle |-> idle, meta |-> row.meta]
    BY <1>7 DEF Row
  <2> HIDE DEF idle
  <2> QED
    BY <2>1, <2>2, <2>3, <2>4 DEF Row
<1>9. conv' \in [Convs -> Row]
  BY <1>8 DEF StoredOK, AddMessages
<1>10. \A d \in Convs \ {c} : messages'[d] = messages[d] /\ conv'[d] = conv[d]
  BY DEF StoredOK, AddMessages
<1> QED
  BY <1>2, <1>4, <1>5, <1>6, <1>8, <1>9, <1>10

-------------------------------------------------------------------------------
(* What steps do to requests and to tables *)

RequestsOK ==
    /\ DOMAIN request = Requests
    /\ request = [r \in Requests |-> request[r]]
    /\ \A r \in Requests : RequestOK(request[r])

LEMMA NewRowType == NewRow \in Row
BY SessionAssumption DEF NewRow, Row, Meta

LEMMA WaitEffect ==
    ASSUME StoredOK, NEW r \in Requests, NEW endpoint \in Endpoints, NEW c \in Convs,
           NEW body \in Bodies \union {<<>>}, NEW history,
           Wait(r, endpoint, c, body, history)
    PROVE  /\ RequestsOK'
           /\ request'[r].endpoint = endpoint
           /\ request'[r].conv = c
           /\ request'[r].body = body
           /\ request'[r].from = Len(messages[c])
           /\ request'[r].days = 0
           /\ \A s \in Requests \ {r} : request'[s] = request[s]
<1> DEFINE w == [endpoint |-> endpoint, conv |-> c, body |-> body, history |-> history,
                 from |-> Len(messages[c]), intact |-> TRUE, days |-> 0,
                 meta |-> conv[c].meta]
<1>1. /\ DOMAIN request' = Requests
      /\ request' = [s \in Requests |-> request'[s]]
      /\ request'[r] = w
      /\ \A s \in Requests \ {r} : request'[s] = request[s]
  BY DEF StoredOK, Wait
<1>2. Len(messages[c]) \in Nat /\ conv[c].meta \in Meta
  <2>1. messages[c] \in Seq(Message) /\ conv[c] \in Row
    BY DEF StoredOK
  <2> QED
    BY <2>1, LenProperties DEF Row
<1>3. RequestOK(w)
  BY <1>2 DEF RequestOK
<1>4. \A s \in Requests : RequestOK(request'[s])
  BY <1>1, <1>3 DEF StoredOK
<1> QED
  BY <1>1, <1>4 DEF RequestsOK

LEMMA FinishEffect ==
    ASSUME StoredOK, NEW r \in Requests, Finish(r)
    PROVE  /\ RequestsOK'
           /\ request'[r] = Idle
           /\ \A s \in Requests \ {r} : request'[s] = request[s]
<1>1. /\ DOMAIN request' = Requests
      /\ request' = [s \in Requests |-> request'[s]]
      /\ request'[r] = Idle
      /\ \A s \in Requests \ {r} : request'[s] = request[s]
  BY DEF StoredOK, Finish
<1>2. \A s \in Requests : RequestOK(request'[s])
  BY <1>1 DEF StoredOK, RequestOK
<1> QED
  BY <1>1, <1>2 DEF RequestsOK

\* A step that takes no row away, lets none grow old, and only adds messages.
Gentle ==
    \A c \in rows :
        /\ c \in rows'
        /\ conv'[c].idle \in {0, conv[c].idle}
        /\ \A i \in DOMAIN messages[c] :
             i \in DOMAIN messages'[c] /\ messages'[c][i] = messages[c][i]

LEMMA GentleKeepsSafe ==
    ASSUME IInv, Gentle, NEW s \in Requests, request'[s] = request[s]
    PROVE  Safe(s)'
<1> SUFFICES ASSUME Asking(s), request[s].intact
             PROVE  Kept(s)' /\ InUse(s)'
  BY DEF Safe, Asking
<1> DEFINE c == request[s].conv
<1>1. Kept(s) /\ c \in rows /\ conv[c].idle <= request[s].days /\ conv[c].idle \in Nat
  <2>1. Kept(s) /\ InUse(s)
    BY DEF IInv, Safe
  <2>2. c \in Convs /\ conv[c] \in Row
    BY <2>1 DEF IInv, StoredOK, InUse
  <2> QED
    BY <2>1, <2>2, SessionAssumption DEF InUse, Row
<1>2. request[s].days \in Nat
  BY DEF IInv, StoredOK, RequestOK, Asking, Idle
<1>3. InUse(s)'
  BY <1>1, <1>2 DEF Gentle, InUse
<1>4. Kept(s)'
  BY <1>1 DEF Gentle, Kept
<1> QED
  BY <1>3, <1>4

LEMMA IdleIsSafe ==
    ASSUME NEW r \in Requests, request'[r] = Idle
    PROVE  Safe(r)'
BY DEF Safe, Asking, Idle

\* Storing messages in a conversation, creating it if need be, is gentle and
\* keeps the count.
LEMMA AddMessagesIsGentle ==
    ASSUME IInv, NEW c \in Convs, NEW new \in Seq(Message),
           AddMessages(c, new, conv[c]), rows' = rows \union {c}, cleaned' = cleaned
    PROVE  /\ Gentle
           /\ conv' \in [Convs -> Row] /\ messages' \in [Convs -> Seq(Message)]
           /\ NewIsNew'
           /\ CountsAgree'
<1>1. conv[c] \in Row /\ messages[c] \in Seq(Message)
  BY DEF IInv, StoredOK
<1>2. /\ messages' \in [Convs -> Seq(Message)]
      /\ conv' \in [Convs -> Row]
      /\ Len(messages'[c]) = Len(messages[c]) + Len(new)
      /\ \A i \in DOMAIN messages[c] : i \in DOMAIN messages'[c] /\ messages'[c][i] = messages[c][i]
      /\ conv'[c].count = conv[c].count + Len(new)
      /\ conv'[c].idle \in {0, conv[c].idle}
      /\ \A d \in Convs \ {c} : messages'[d] = messages[d] /\ conv'[d] = conv[d]
  BY <1>1, AddMessagesEffect DEF IInv
<1>3. Gentle
  BY <1>2 DEF Gentle, IInv, StoredOK
<1>4. NewIsNew'
  BY <1>2 DEF IInv, NewIsNew
<1>5. CountsAgree'
  BY <1>2 DEF IInv, CountsAgree
<1> QED
  BY <1>2, <1>3, <1>4, <1>5

-------------------------------------------------------------------------------
(* Each action keeps the invariant *)

\* A gentle step of one request keeps the others safe, and the invariant if it
\* keeps the tables and the request itself in order.
LEMMA GentlePreserves ==
    ASSUME IInv, Gentle, NEW r \in Requests,
           RequestsOK',
           \A s \in Requests \ {r} : request'[s] = request[s],
           Safe(r)',
           rows' \subseteq Convs, cleaned' \subseteq Convs,
           conv' \in [Convs -> Row], messages' \in [Convs -> Seq(Message)],
           NewIsNew', CountsAgree'
    PROVE  IInv'
<1>1. StoredOK'
  BY DEF StoredOK, RequestsOK
<1>2. \A s \in Requests : Safe(s)'
  <2> SUFFICES ASSUME NEW s \in Requests \ {r} PROVE Safe(s)'
    OBVIOUS
  <2>1. request'[s] = request[s]
    OBVIOUS
  <2> QED
    BY <2>1, GentleKeepsSafe
<1> QED
  BY <1>1, <1>2 DEF IInv

\* The question, if the body has one, is stored with the row it makes or finds,
\* and touches it.
LEMMA SessionChatPreserves ==
    ASSUME IInv, NEW r \in Requests, NEW c \in Convs, NEW endpoint \in {"session", "stream"},
           NEW body \in Bodies, SessionChat(r, endpoint, c, body)
    PROVE  IInv'
<1> DEFINE new == Questions(body)
<1>1. new \in Seq(Message)
  BY BodyType
<1>2. conv[c] \in Row /\ conv[c] = IF c \in rows THEN conv[c] ELSE NewRow
  BY DEF IInv, StoredOK, NewIsNew
<1>3. AddMessages(c, new, conv[c]) /\ rows' = rows \union {c} /\ cleaned' = cleaned
  BY <1>2 DEF SessionChat
<1>4. /\ Gentle
      /\ conv' \in [Convs -> Row] /\ messages' \in [Convs -> Seq(Message)]
      /\ NewIsNew'
      /\ CountsAgree'
  BY <1>1, <1>3, AddMessagesIsGentle
<1>5. /\ RequestsOK'
      /\ request'[r].conv = c
      /\ request'[r].body = body
      /\ request'[r].from = Len(messages[c])
      /\ request'[r].days = 0
      /\ \A s \in Requests \ {r} : request'[s] = request[s]
  <2>1. endpoint \in Endpoints /\ Wait(r, endpoint, c, body, History(c, body))
    BY DEF SessionChat, Endpoints
  <2> QED
    BY <2>1, WaitEffect DEF IInv
<1>6. Safe(r)'
  <2>1. CASE new = <<>>
    BY <1>5, <2>1 DEF Safe, Asking
  <2>2. CASE new # <<>>
    <3>1. /\ conv'[c].idle = 0
          /\ \A i \in DOMAIN new : /\ Len(messages[c]) + i \in DOMAIN messages'[c]
                                   /\ messages'[c][Len(messages[c]) + i] = new[i]
      BY <1>1, <1>2, <1>3, <2>2, AddMessagesEffect DEF IInv
    <3>2. Kept(r)'
      BY <1>5, <3>1 DEF Kept
    <3>3. InUse(r)'
      BY <1>3, <1>5, <3>1 DEF InUse
    <3> QED
      BY <3>2, <3>3 DEF Safe
  <2> QED
    BY <2>1, <2>2
<1>7. rows' \subseteq Convs /\ cleaned' \subseteq Convs
  BY <1>3 DEF IInv, StoredOK
<1> HIDE DEF new
<1> QED
  BY <1>4, <1>5, <1>6, <1>7, GentlePreserves

\* An agent chat stores nothing before it has its answer.
LEMMA AgentChatPreserves ==
    ASSUME IInv, NEW r \in Requests, NEW c \in Convs, NEW body \in Bodies,
           AgentChat(r, c, body)
    PROVE  IInv'
<1>1. /\ conv' = conv /\ messages' = messages /\ cleaned' = cleaned
      /\ rows' = rows \union {c}
  BY DEF AgentChat, IInv, StoredOK, NewIsNew
<1>2. Gentle /\ NewIsNew' /\ CountsAgree'
  BY <1>1 DEF Gentle, IInv, NewIsNew, CountsAgree
<1>3. /\ RequestsOK'
      /\ request'[r].endpoint = "agent"
      /\ \A s \in Requests \ {r} : request'[s] = request[s]
  <2>1. PICK history : Wait(r, "agent", c, body, history)
    BY DEF AgentChat
  <2>2. "agent" \in Endpoints
    BY DEF Endpoints
  <2> QED
    BY <2>1, <2>2, WaitEffect DEF IInv
<1>4. Safe(r)'
  BY <1>3 DEF Safe, Asking
<1>5. /\ rows' \subseteq Convs /\ cleaned' \subseteq Convs
      /\ conv' \in [Convs -> Row] /\ messages' \in [Convs -> Seq(Message)]
  BY <1>1 DEF IInv, StoredOK
<1> QED
  BY <1>2, <1>3, <1>4, <1>5, GentlePreserves

\* What the endpoints store after the answer is a sequence of messages.
LEMMA UnstoredType ==
    ASSUME StoredOK, NEW r \in Requests, NEW reply \in Replies,
           Busy(r), request[r].endpoint # "close"
    PROVE  request[r].conv \in Convs /\ Unstored(r, reply) \in Seq(Message)
<1>1. /\ request[r].endpoint \in {"session", "stream", "agent"}
      /\ request[r].conv \in Convs
      /\ request[r].body \in Bodies \union {<<>>}
  BY DEF StoredOK, RequestOK, Busy, Idle, Endpoints
<1>2. Answered(reply) \in Seq(Message) /\ Questions(request[r].body) \in Seq(Message)
  BY <1>1, AnsweredType, BodyType
<1>3. <<>> \in Seq(Message) /\ Questions(request[r].body) \o Answered(reply) \in Seq(Message)
  BY <1>2, EmptySeq, ConcatProperties
<1>4. Unstored(r, reply) \in Seq(Message)
  BY <1>1, <1>2, <1>3 DEF Unstored
<1> QED
  BY <1>1, <1>4

\* A step that ends a request and changes no table.
LEMMA FinishPreserves ==
    ASSUME IInv, NEW r \in Requests, Finish(r),
           rows' = rows, conv' = conv, messages' = messages, cleaned' = cleaned
    PROVE  IInv'
<1>1. Gentle /\ NewIsNew' /\ CountsAgree'
  BY DEF Gentle, IInv, NewIsNew, CountsAgree
<1>2. /\ RequestsOK'
      /\ request'[r] = Idle
      /\ \A s \in Requests \ {r} : request'[s] = request[s]
  BY FinishEffect DEF IInv
<1>3. /\ rows' \subseteq Convs /\ cleaned' \subseteq Convs
      /\ conv' \in [Convs -> Row] /\ messages' \in [Convs -> Seq(Message)]
  BY DEF IInv, StoredOK
<1> QED
  BY <1>1, <1>2, <1>3, IdleIsSafe, GentlePreserves

LEMMA ChatReturnsPreserves ==
    ASSUME IInv, NEW r \in Requests, NEW reply \in Replies, ChatReturns(r, reply)
    PROVE  IInv'
<1> DEFINE c == request[r].conv
           new == Unstored(r, reply)
<1>1. c \in Convs /\ new \in Seq(Message)
  BY UnstoredType DEF ChatReturns, IInv
<1>2. Finish(r) /\ rows' = rows /\ cleaned' = cleaned
  BY DEF ChatReturns
<1>3. CASE c \notin rows
  <2>1. conv' = conv /\ messages' = messages
    BY <1>3 DEF ChatReturns
  <2> QED
    BY <1>2, <2>1, FinishPreserves
<1>4. CASE c \in rows
  <2>1. AddMessages(c, new, conv[c]) /\ rows' = rows \union {c}
    BY <1>2, <1>4 DEF ChatReturns
  <2>2. /\ Gentle
        /\ conv' \in [Convs -> Row] /\ messages' \in [Convs -> Seq(Message)]
        /\ NewIsNew'
        /\ CountsAgree'
    BY <1>1, <1>2, <2>1, AddMessagesIsGentle
  <2>3. /\ RequestsOK'
        /\ request'[r] = Idle
        /\ \A s \in Requests \ {r} : request'[s] = request[s]
    BY <1>2, FinishEffect DEF IInv
  <2>4. rows' \subseteq Convs /\ cleaned' \subseteq Convs
    BY <1>2 DEF IInv, StoredOK
  <2> QED
    BY <2>2, <2>3, <2>4, IdleIsSafe, GentlePreserves
<1> QED
  BY <1>3, <1>4

LEMMA ClosePreserves ==
    ASSUME IInv, NEW r \in Requests, NEW c \in Convs, Close(r, c)
    PROVE  IInv'
<1>1. Gentle /\ NewIsNew' /\ CountsAgree'
  BY DEF Close, Gentle, IInv, NewIsNew, CountsAgree
<1>2. /\ RequestsOK'
      /\ request'[r].endpoint = "close"
      /\ \A s \in Requests \ {r} : request'[s] = request[s]
  <2>1. "close" \in Endpoints /\ Wait(r, "close", c, <<>>, Loaded(c))
    BY DEF Close, Endpoints
  <2> QED
    BY <2>1, WaitEffect DEF IInv
<1>3. Safe(r)'
  BY <1>2 DEF Safe, Asking
<1>4. /\ rows' \subseteq Convs /\ cleaned' \subseteq Convs
      /\ conv' \in [Convs -> Row] /\ messages' \in [Convs -> Seq(Message)]
  BY DEF Close, IInv, StoredOK
<1> QED
  BY <1>1, <1>2, <1>3, <1>4, GentlePreserves

\* Writing metadata touches the row and leaves its count alone.
LEMMA MetaEffect ==
    ASSUME IInv, NEW c \in rows, NEW meta \in Meta,
           conv' = [conv EXCEPT ![c].meta = meta, ![c].idle = 0],
           rows' = rows, messages' = messages, cleaned' = cleaned
    PROVE  Gentle /\ conv' \in [Convs -> Row] /\ NewIsNew' /\ CountsAgree'
<1>1. c \in Convs /\ conv[c] \in Row
  BY DEF IInv, StoredOK
<1>2. conv'[c] = [count |-> conv[c].count, idle |-> 0, meta |-> meta]
  BY <1>1 DEF IInv, StoredOK, Row
<1>3. conv'[c] \in Row /\ conv'[c].count = conv[c].count /\ conv'[c].idle = 0
  BY <1>1, <1>2, SessionAssumption DEF Row
<1>4. \A d \in Convs \ {c} : conv'[d] = conv[d]
  BY DEF IInv, StoredOK
<1>5. conv' \in [Convs -> Row]
  BY <1>3 DEF IInv, StoredOK
<1>6. Gentle
  BY <1>3, <1>4 DEF Gentle, IInv, StoredOK
<1>7. NewIsNew' /\ CountsAgree'
  BY <1>3, <1>4 DEF IInv, NewIsNew, CountsAgree
<1> QED
  BY <1>5, <1>6, <1>7

LEMMA CloseReturnsPreserves ==
    ASSUME IInv, NEW r \in Requests, CloseReturns(r)
    PROVE  IInv'
<1> DEFINE c == request[r].conv
           meta == [request[r].meta EXCEPT !.closed = TRUE]
<1>1. Finish(r) /\ rows' = rows /\ messages' = messages /\ cleaned' = cleaned
  BY DEF CloseReturns
<1>2. CASE c \notin rows
  <2>1. conv' = conv
    BY <1>2 DEF CloseReturns
  <2> QED
    BY <1>1, <2>1, FinishPreserves
<1>3. CASE c \in rows
  <2>1. request[r].meta \in Meta
    BY DEF CloseReturns, IInv, StoredOK, RequestOK, Idle
  <2>2. meta \in Meta
    BY <2>1 DEF Meta
  <2>3. conv' = [conv EXCEPT ![c].meta = meta, ![c].idle = 0]
    BY <1>3 DEF CloseReturns
  <2>4. Gentle /\ conv' \in [Convs -> Row] /\ NewIsNew' /\ CountsAgree'
    BY <1>1, <1>3, <2>2, <2>3, MetaEffect
  <2>5. /\ RequestsOK'
        /\ request'[r] = Idle
        /\ \A s \in Requests \ {r} : request'[s] = request[s]
    BY <1>1, FinishEffect DEF IInv
  <2>6. /\ rows' \subseteq Convs /\ cleaned' \subseteq Convs
        /\ messages' \in [Convs -> Seq(Message)]
    BY <1>1 DEF IInv, StoredOK
  <2> QED
    BY <2>4, <2>5, <2>6, IdleIsSafe, GentlePreserves
<1> QED
  BY <1>2, <1>3

\* A gentle step of a client, which is no request.
LEMMA ClientStepPreserves ==
    ASSUME IInv, Gentle, request' = request,
           rows' \subseteq Convs, cleaned' \subseteq Convs,
           conv' \in [Convs -> Row], messages' \in [Convs -> Seq(Message)],
           NewIsNew', CountsAgree'
    PROVE  IInv'
<1>1. StoredOK'
  BY DEF IInv, StoredOK
<1>2. \A s \in Requests : Safe(s)'
  BY GentleKeepsSafe
<1> QED
  BY <1>1, <1>2 DEF IInv

LEMMA UpdateConversationPreserves ==
    ASSUME IInv, NEW c \in Convs, NEW meta \in Meta, UpdateConversation(c, meta)
    PROVE  IInv'
<1>1. Gentle /\ conv' \in [Convs -> Row] /\ NewIsNew' /\ CountsAgree'
  BY MetaEffect DEF UpdateConversation
<1>2. /\ request' = request /\ messages' \in [Convs -> Seq(Message)]
      /\ rows' \subseteq Convs /\ cleaned' \subseteq Convs
  BY DEF UpdateConversation, IInv, StoredOK
<1> QED
  BY <1>1, <1>2, ClientStepPreserves

LEMMA AddMessagePreserves ==
    ASSUME IInv, NEW c \in Convs, NEW message \in Message, AddMessage(c, message)
    PROVE  IInv'
<1> DEFINE new == <<message>>
<1>1. new \in Seq(Message)
  OBVIOUS
<1>2. /\ AddMessages(c, new, conv[c]) /\ rows' = rows \union {c}
      /\ cleaned' = cleaned /\ request' = request
  BY DEF AddMessage
<1> HIDE DEF new
<1>3. /\ Gentle
      /\ conv' \in [Convs -> Row] /\ messages' \in [Convs -> Seq(Message)]
      /\ NewIsNew'
      /\ CountsAgree'
  BY <1>1, <1>2, AddMessagesIsGentle
<1>4. rows' \subseteq Convs /\ cleaned' \subseteq Convs
  BY <1>2 DEF IInv, StoredOK
<1> QED
  BY <1>2, <1>3, <1>4, ClientStepPreserves

\* A deletion takes the messages with the row, and whoever waits on the
\* conversation knows.
LEMMA DeleteConversationPreserves ==
    ASSUME IInv, NEW c \in Convs, DeleteConversation(c)
    PROVE  IInv'
<1>1. /\ rows' = rows \ {c} /\ cleaned' = cleaned \ {c}
      /\ conv'[c] = NewRow /\ messages'[c] = <<>>
      /\ \A d \in Convs \ {c} : conv'[d] = conv[d] /\ messages'[d] = messages[d]
  BY DEF DeleteConversation, IInv, StoredOK
<1>2. /\ DOMAIN request' = Requests
      /\ request' = [s \in Requests |-> request'[s]]
      /\ \A s \in Requests :
           request'[s] = IF Busy(s) /\ request[s].conv = c
                         THEN [request[s] EXCEPT !.intact = FALSE] ELSE request[s]
  BY DEF DeleteConversation
<1>3. ASSUME NEW s \in Requests
      PROVE  RequestOK(request'[s])
  <2>1. RequestOK(request[s])
    BY DEF IInv, StoredOK
  <2>2. CASE Busy(s) /\ request[s].conv = c
    <3>1. request'[s] = [request[s] EXCEPT !.intact = FALSE]
      BY <1>2, <2>2
    <3>2. request[s] # Idle
      BY <2>2 DEF Busy, Idle
    <3> QED
      BY <2>1, <3>1, <3>2 DEF RequestOK
  <2>3. CASE ~(Busy(s) /\ request[s].conv = c)
    BY <1>2, <2>1, <2>3
  <2> QED
    BY <2>2, <2>3
<1>4. conv' \in [Convs -> Row] /\ messages' \in [Convs -> Seq(Message)]
  BY NewRowType DEF DeleteConversation, IInv, StoredOK
<1>5. StoredOK'
  BY <1>1, <1>2, <1>3, <1>4 DEF IInv, StoredOK
<1>6. NewIsNew'
  BY <1>1 DEF IInv, NewIsNew
<1>7. CountsAgree'
  <2>1. conv'[c].count = Len(messages'[c])
    BY <1>1 DEF NewRow
  <2> QED
    BY <1>1, <2>1 DEF IInv, CountsAgree
<1>8. \A s \in Requests : Safe(s)'
  <2> SUFFICES ASSUME NEW s \in Requests, Asking(s)', request'[s].intact
               PROVE  Kept(s)' /\ InUse(s)'
    BY DEF Safe
  <2>1. request'[s] = request[s] /\ request[s].conv # c
    BY <1>2 DEF IInv, StoredOK, RequestOK, Asking, Busy, Idle
  <2>2. Kept(s) /\ InUse(s)
    BY <2>1 DEF IInv, Safe, Asking
  <2>3. request[s].conv \in Convs \ {c}
    BY <2>1, <2>2 DEF IInv, StoredOK, InUse
  <2>4. /\ messages'[request[s].conv] = messages[request[s].conv]
        /\ conv'[request[s].conv] = conv[request[s].conv]
    BY <1>1, <2>3
  <2> QED
    BY <1>1, <2>1, <2>2, <2>4 DEF Kept, InUse
<1> QED
  BY <1>5, <1>6, <1>7, <1>8 DEF IInv

\* A midnight ages a conversation by one day and every waiting request with it.
LEMMA DayPreserves ==
    ASSUME IInv, Day
    PROVE  IInv'
<1>1. rows' = rows /\ messages' = messages /\ cleaned' = cleaned
  BY DEF Day
<1>2. \A c \in Convs :
        /\ conv[c] \in Row
        /\ conv'[c] = IF c \in rows /\ conv[c].idle <= TTL
                      THEN [conv[c] EXCEPT !.idle = @ + 1] ELSE conv[c]
  BY DEF Day, IInv, StoredOK
<1>3. \A c \in Convs : /\ conv'[c] \in Row
                       /\ conv'[c].count = conv[c].count
                       /\ conv'[c].idle <= conv[c].idle + 1
  <2> SUFFICES ASSUME NEW c \in Convs
               PROVE  /\ conv'[c] \in Row
                      /\ conv'[c].count = conv[c].count
                      /\ conv'[c].idle <= conv[c].idle + 1
    OBVIOUS
  <2>1. conv[c].count \in Nat /\ conv[c].idle \in 0..(TTL + 1) /\ conv[c].meta \in Meta
    BY <1>2 DEF Row
  <2>2. CASE c \in rows /\ conv[c].idle <= TTL
    <3>1. conv'[c] = [count |-> conv[c].count, idle |-> conv[c].idle + 1, meta |-> conv[c].meta]
      BY <1>2, <2>2 DEF Row
    <3>2. conv[c].idle + 1 \in 0..(TTL + 1)
      BY <2>1, <2>2, SessionAssumption
    <3> QED
      BY <2>1, <3>1, <3>2 DEF Row
  <2>3. CASE ~(c \in rows /\ conv[c].idle <= TTL)
    <3>1. conv'[c] = conv[c] /\ conv[c] \in Row
      BY <1>2, <2>3
    <3>2. conv[c].idle <= conv[c].idle + 1
      BY <2>1, SessionAssumption
    <3> QED
      BY <3>1, <3>2
  <2> QED
    BY <2>2, <2>3
<1>4. conv' \in [Convs -> Row]
  BY <1>3 DEF Day
<1>5. /\ DOMAIN request' = Requests
      /\ request' = [s \in Requests |-> request'[s]]
      /\ \A s \in Requests :
           request'[s] = IF Busy(s) THEN [request[s] EXCEPT !.days = 1] ELSE request[s]
  BY DEF Day
<1>6. \A s \in Requests : RequestOK(request'[s])
  <2> SUFFICES ASSUME NEW s \in Requests PROVE RequestOK(request'[s])
    OBVIOUS
  <2>1. RequestOK(request[s])
    BY DEF IInv, StoredOK
  <2>2. CASE Busy(s)
    <3>1. request'[s] = [request[s] EXCEPT !.days = 1] /\ request[s] # Idle
      BY <1>5, <2>2 DEF Busy, Idle
    <3> QED
      BY <2>1, <3>1 DEF RequestOK
  <2>3. CASE ~Busy(s)
    BY <1>5, <2>1, <2>3
  <2> QED
    BY <2>2, <2>3
<1>7. StoredOK'
  BY <1>1, <1>4, <1>5, <1>6 DEF IInv, StoredOK
<1>8. NewIsNew' /\ CountsAgree'
  BY <1>1, <1>2, <1>3 DEF IInv, NewIsNew, CountsAgree
<1>9. \A s \in Requests : Safe(s)'
  <2> SUFFICES ASSUME NEW s \in Requests, Asking(s)', request'[s].intact
               PROVE  Kept(s)' /\ InUse(s)'
    BY DEF Safe
  <2>1. /\ Busy(s) /\ Asking(s) /\ request[s].intact /\ request[s].days = 0
        /\ request'[s].conv = request[s].conv /\ request'[s].body = request[s].body
        /\ request'[s].from = request[s].from /\ request'[s].days = 1
    BY <1>5 DEF IInv, StoredOK, RequestOK, Asking, Busy, Idle, Day
  <2>2. Kept(s) /\ InUse(s)
    BY <2>1 DEF IInv, Safe
  <2>3. Kept(s)'
    BY <1>1, <2>1, <2>2 DEF Kept
  <2>4. request[s].conv \in Convs /\ conv[request[s].conv].idle \in Nat
    BY <1>2, <2>2, SessionAssumption DEF IInv, StoredOK, InUse, Row
  <2>5. conv'[request[s].conv].idle <= 1
    <3>1. conv[request[s].conv].idle <= 0
      BY <2>1, <2>2 DEF InUse
    <3>2. conv'[request[s].conv].idle \in Nat
      BY <1>3, <2>4, SessionAssumption DEF Row
    <3> QED
      BY <1>3, <2>4, <3>1, <3>2
  <2>6. InUse(s)'
    BY <1>1, <2>1, <2>2, <2>5 DEF InUse
  <2> QED
    BY <2>3, <2>6
<1> QED
  BY <1>7, <1>8, <1>9 DEF IInv

\* The cleaner takes what is older than TTL, at least one day, and what a
\* waiting session request uses is not.
LEMMA CleanPreserves ==
    ASSUME IInv, Clean
    PROVE  IInv'
<1> DEFINE old == {c \in rows : conv[c].idle > TTL}
<1>1. /\ rows' = rows \ old /\ cleaned' = cleaned \union old
      /\ messages' = messages /\ request' = request
      /\ conv' = [c \in Convs |-> IF c \in old THEN NewRow ELSE conv[c]]
  BY DEF Clean
<1>2. conv' \in [Convs -> Row]
  BY <1>1, NewRowType DEF IInv, StoredOK
<1>3. StoredOK'
  BY <1>1, <1>2 DEF IInv, StoredOK
<1>4. NewIsNew'
  BY <1>1 DEF IInv, NewIsNew
<1>5. CountsAgree'
  BY <1>1 DEF IInv, CountsAgree
<1>6. \A s \in Requests : Safe(s)'
  <2> SUFFICES ASSUME NEW s \in Requests, Asking(s), request[s].intact
               PROVE  Kept(s)' /\ InUse(s)'
    BY <1>1 DEF Safe, Asking
  <2> DEFINE c == request[s].conv
  <2>1. Kept(s) /\ InUse(s)
    BY DEF IInv, Safe
  <2>2. c \in rows /\ c \in Convs /\ conv[c].idle <= request[s].days
    BY <2>1 DEF InUse, IInv, StoredOK
  <2>3. request[s].days \in 0..1
    BY DEF IInv, StoredOK, RequestOK, Asking, Idle
  <2>4. conv[c].idle \in Nat
    BY <2>2, SessionAssumption DEF IInv, StoredOK, Row
  <2>5. ~(conv[c].idle > TTL)
    BY <2>2, <2>3, <2>4, SessionAssumption
  <2>6. c \in rows' /\ conv'[c] = conv[c]
    BY <1>1, <2>2, <2>5
  <2>7. InUse(s)'
    BY <1>1, <2>2, <2>6 DEF InUse
  <2>8. Kept(s)'
    BY <1>1, <2>1 DEF Kept
  <2> QED
    BY <2>7, <2>8
<1> QED
  BY <1>3, <1>4, <1>5, <1>6 DEF IInv

-------------------------------------------------------------------------------
(* The invariant *)

LEMMA InitEstablishes == Init => IInv
<1> SUFFICES ASSUME Init PROVE IInv
  OBVIOUS
<1>1. StoredOK
  <2>1. conv \in [Convs -> Row]
    BY NewRowType DEF Init
  <2>2. messages \in [Convs -> Seq(Message)]
    BY EmptySeq DEF Init
  <2> QED
    BY <2>1, <2>2 DEF Init, StoredOK, RequestOK
<1>2. NewIsNew /\ CountsAgree
  BY DEF Init, NewIsNew, CountsAgree, NewRow
<1>3. \A r \in Requests : Safe(r)
  BY DEF Init, Safe, Asking, Idle
<1> QED
  BY <1>1, <1>2, <1>3 DEF IInv

LEMMA StepPreserves == IInv /\ [Next]_vars => IInv'
<1> SUFFICES ASSUME IInv, [Next]_vars PROVE IInv'
  OBVIOUS
<1>1. ASSUME NEW r \in Requests, NEW c \in Convs, NEW body \in Bodies,
             NEW endpoint \in {"session", "stream"}, SessionChat(r, endpoint, c, body)
      PROVE  IInv'
  BY <1>1, SessionChatPreserves
<1>2. ASSUME NEW r \in Requests, NEW c \in Convs, NEW body \in Bodies, AgentChat(r, c, body)
      PROVE  IInv'
  BY <1>2, AgentChatPreserves
<1>3. ASSUME NEW r \in Requests, NEW c \in Convs, Close(r, c)
      PROVE  IInv'
  BY <1>3, ClosePreserves
<1>4. ASSUME NEW r \in Requests, Returns(r)
      PROVE  IInv'
  BY <1>4, ChatReturnsPreserves, CloseReturnsPreserves DEF Returns
<1>5. ASSUME NEW r \in Requests, ChatFails(r)
      PROVE  IInv'
  BY <1>5, FinishPreserves DEF ChatFails
<1>6. ASSUME NEW c \in Convs, NEW meta \in {conv[c].meta} \union [edit : Edits, closed : {FALSE}],
             UpdateConversation(c, meta)
      PROVE  IInv'
  <2>1. conv[c].meta \in Meta
    BY DEF IInv, StoredOK, Row
  <2>2. [edit : Edits, closed : {FALSE}] \subseteq Meta
    BY DEF Meta
  <2>3. meta \in Meta
    BY <2>1, <2>2
  <2> QED
    BY <1>6, <2>3, UpdateConversationPreserves
<1>7. ASSUME NEW c \in Convs, NEW message \in Posts, AddMessage(c, message)
      PROVE  IInv'
  BY <1>7, AddMessagePreserves, SessionAssumption
<1>8. ASSUME NEW c \in Convs, DeleteConversation(c)
      PROVE  IInv'
  BY <1>8, DeleteConversationPreserves
<1>9. CASE Day
  BY <1>9, DayPreserves
<1>10. CASE Clean
  BY <1>10, CleanPreserves
<1>11. CASE UNCHANGED vars
  BY <1>11 DEF vars, IInv, StoredOK, RequestOK, NewIsNew, CountsAgree,
               Safe, Asking, Kept, InUse
<1> QED
  BY <1>1, <1>2, <1>3, <1>4, <1>5, <1>6, <1>7, <1>8, <1>9, <1>10, <1>11 DEF Next

\* The tables are well typed and every waiting session request is safe,
\* whatever the handlers, the clients and the cleaner do between its two halves.
THEOREM Invariant == Spec => []IInv
BY InitEstablishes, StepPreserves, PTL DEF Spec

-------------------------------------------------------------------------------
(* The properties *)

\* message_count equals the number of stored messages of every conversation
\* whose row the cleaner has not removed (add_message and
\* delete_conversation of conversation/store.py).
THEOREM CountsAlwaysAgree == Spec => []CountsAgree
<1>1. IInv => CountsAgree
  BY DEF IInv
<1> QED
  BY <1>1, Invariant, PTL

\* The question a session endpoint waits on stays where it was stored, unless
\* a client deletes the conversation (session_chat and session_chat_stream of
\* shared/session_router.py).
THEOREM QuestionsAreKept == Spec => []QuestionKept
<1>1. IInv => QuestionKept
  BY DEF IInv, QuestionKept, Safe, Kept
<1> QED
  BY <1>1, Invariant, PTL

\* The cleaner never removes the row of a conversation a session endpoint is
\* waiting on (DataCleaner._clean against session_chat).
THEOREM SessionsKeepTheirRow == Spec => []SessionKeepsItsRow
<1>1. IInv => SessionKeepsItsRow
  BY DEF IInv, SessionKeepsItsRow, Safe, InUse
<1> QED
  BY <1>1, Invariant, PTL

-------------------------------------------------------------------------------
(* What the model is sent *)

\* A history that has every message of the body, but for those that begin like
\* one of its first n messages, the loaded ones.
Tells(history, body, n) ==
    /\ history \in Seq(Message)
    /\ \A i \in DOMAIN body :
         \/ body[i] \in Elements(history)
         \/ \E j \in DOMAIN history :
              /\ j <= n /\ j <= Window
              /\ First80[history[j].text] = First80[body[i].text]

Informed(w) == w = Idle \/ Tells(w.history, w.body, w.from)

HistoriesOK == \A r \in Requests : Informed(request[r])

LEMMA BodyTells ==
    ASSUME NEW body \in Bodies \union {<<>>}, NEW n
    PROVE  Tells(body, body, n)
BY BodyType DEF Tells, Elements

\* The window cuts the stored messages off behind its first ones.
LEMMA LoadedType ==
    ASSUME StoredOK, NEW c \in Convs
    PROVE  /\ Loaded(c) \in Seq(Message)
           /\ Len(Loaded(c)) <= Len(messages[c])
           /\ Len(Loaded(c)) <= Window
<1>1. messages[c] \in Seq(Message)
  BY DEF StoredOK
<1>2. Window \in Nat /\ Len(messages[c]) \in Nat
  BY <1>1, SessionAssumption
<1>3. ASSUME ~(Len(messages[c]) <= Window)
      PROVE  /\ SubSeq(messages[c], 1, Window) \in Seq(Message)
             /\ Len(SubSeq(messages[c], 1, Window)) = Window
  <2>1. \A i \in 1..Window : messages[c][i] \in Message
    BY <1>1, <1>2, <1>3
  <2> QED
    BY <1>2, <2>1, SubSeqProperties
<1> QED
  BY <1>1, <1>2, <1>3 DEF Loaded

\* A message of the body that the dedupe leaves out begins like one that was
\* loaded; the others follow the loaded ones.
LEMMA HistoryTells ==
    ASSUME StoredOK, NEW c \in Convs, NEW body \in Bodies
    PROVE  Tells(History(c, body), body, Len(messages[c]))
<1> DEFINE loaded == Loaded(c)
           kept == {m \in Message : First80[m.text] \notin Heads(loaded)}
           fresh == Select(body, kept)
           history == History(c, body)
<1>1. /\ loaded \in Seq(Message) /\ body \in Seq(Message)
      /\ Len(loaded) <= Len(messages[c]) /\ Len(loaded) <= Window
  BY LoadedType, BodyType
<1>2. fresh \in Seq(Message) /\ Elements(fresh) = Elements(body) \intersect kept
  BY <1>1, SelectType, SelectElements
<1>3. history = loaded \o fresh
  BY DEF History
<1>4. Len(messages[c]) \in Nat /\ Window \in Nat
  BY SessionAssumption, LenProperties DEF StoredOK
<1> HIDE DEF loaded, fresh, history
<1>5. /\ history \in Seq(Message)
      /\ Len(loaded) \in Nat /\ Len(fresh) \in Nat
      /\ DOMAIN loaded = 1..Len(loaded) /\ DOMAIN fresh = 1..Len(fresh)
      /\ DOMAIN history = 1..(Len(loaded) + Len(fresh))
      /\ \A i \in 1..(Len(loaded) + Len(fresh)) :
           history[i] = IF i <= Len(loaded) THEN loaded[i] ELSE fresh[i - Len(loaded)]
  BY <1>1, <1>2, <1>3, ConcatProperties, LenProperties
<1>6. ASSUME NEW i \in DOMAIN body, body[i] \in kept
      PROVE  body[i] \in Elements(history)
  <2>1. body[i] \in Elements(fresh)
    BY <1>2, <1>6 DEF Elements
  <2>2. PICK k \in 1..Len(fresh) : fresh[k] = body[i]
    BY <1>5, <2>1 DEF Elements
  <2>3. /\ Len(loaded) + k \in 1..(Len(loaded) + Len(fresh))
        /\ ~(Len(loaded) + k <= Len(loaded)) /\ (Len(loaded) + k) - Len(loaded) = k
    BY <1>5
  <2>4. history[Len(loaded) + k] = body[i]
    BY <1>5, <2>2, <2>3
  <2> QED
    BY <1>5, <2>3, <2>4 DEF Elements
<1>7. ASSUME NEW i \in DOMAIN body, body[i] \notin kept
      PROVE  \E j \in DOMAIN history :
                 /\ j <= Len(messages[c]) /\ j <= Window
                 /\ First80[history[j].text] = First80[body[i].text]
  <2>1. body[i] \in Message
    BY <1>1
  <2>2. PICK k \in 1..Len(loaded) : First80[loaded[k].text] = First80[body[i].text]
    BY <1>5, <1>7, <2>1 DEF Heads
  <2>3. k \in DOMAIN history /\ history[k] = loaded[k]
    BY <1>5
  <2>4. k <= Len(messages[c]) /\ k <= Window
    BY <1>1, <1>4, <1>5
  <2> QED
    BY <2>2, <2>3, <2>4
<1> HIDE DEF kept
<1> QED
  BY <1>5, <1>6, <1>7 DEF Tells, history

\* A request that begins to wait is sent such a history ...
LEMMA WaitInforms ==
    ASSUME StoredOK, HistoriesOK, NEW r \in Requests, NEW endpoint, NEW c, NEW body, NEW history,
           Tells(history, body, Len(messages[c])), Wait(r, endpoint, c, body, history)
    PROVE  HistoriesOK'
<1>1. /\ request'[r].history = history /\ request'[r].body = body
      /\ request'[r].from = Len(messages[c])
      /\ \A s \in Requests \ {r} : request'[s] = request[s]
  BY DEF Wait, StoredOK
<1>2. Informed(request'[r])
  BY <1>1 DEF Informed
<1>3. \A s \in Requests \ {r} : Informed(request'[s])
  BY <1>1 DEF HistoriesOK
<1> QED
  BY <1>2, <1>3 DEF HistoriesOK

\* ... and keeps it until it ends.
LEMMA WaitingStaysInformed ==
    ASSUME HistoriesOK,
           \A s \in Requests :
             \/ request'[s] = Idle
             \/ request'[s] = request[s]
             \/ /\ request[s] # Idle
                /\ request'[s].history = request[s].history
                /\ request'[s].body = request[s].body
                /\ request'[s].from = request[s].from
    PROVE  HistoriesOK'
BY DEF HistoriesOK, Informed

LEMMA HistoriesStep ==
    ASSUME IInv, HistoriesOK, [Next]_vars
    PROVE  HistoriesOK'
<1>1. StoredOK
  BY DEF IInv
<1>2. \A s \in Requests : Busy(s) => request[s] # Idle
  BY DEF Busy, Idle
<1>3. ASSUME NEW r \in Requests, NEW c \in Convs, NEW body \in Bodies,
             NEW endpoint \in {"session", "stream"}, SessionChat(r, endpoint, c, body)
      PROVE  HistoriesOK'
  <2>1. Wait(r, endpoint, c, body, History(c, body))
    BY <1>3 DEF SessionChat
  <2> QED
    BY <1>1, <2>1, HistoryTells, WaitInforms
<1>4. ASSUME NEW r \in Requests, NEW c \in Convs, NEW body \in Bodies, AgentChat(r, c, body)
      PROVE  HistoriesOK'
  <2> DEFINE history == IF c \in rows THEN History(c, body) ELSE body
  <2>1. Wait(r, "agent", c, body, history)
    BY <1>4 DEF AgentChat
  <2>2. Tells(history, body, Len(messages[c]))
    BY <1>1, HistoryTells, BodyTells
  <2> HIDE DEF history
  <2> QED
    BY <1>1, <2>1, <2>2, WaitInforms
<1>5. ASSUME NEW r \in Requests, NEW c \in Convs, Close(r, c)
      PROVE  HistoriesOK'
  <2>1. Wait(r, "close", c, <<>>, Loaded(c))
    BY <1>5 DEF Close
  <2>2. Tells(Loaded(c), <<>>, Len(messages[c]))
    BY <1>1, LoadedType DEF Tells
  <2> QED
    BY <1>1, <2>1, <2>2, WaitInforms
<1>6. ASSUME NEW r \in Requests, Finish(r)
      PROVE  HistoriesOK'
  <2>1. \A s \in Requests : request'[s] = Idle \/ request'[s] = request[s]
    BY <1>1, <1>6 DEF Finish, StoredOK
  <2> QED
    BY <2>1, WaitingStaysInformed
<1>7. ASSUME NEW r \in Requests, Returns(r) \/ ChatFails(r)
      PROVE  HistoriesOK'
  BY <1>6, <1>7 DEF Returns, ChatReturns, CloseReturns, ChatFails
<1>8. ASSUME request' = request
      PROVE  HistoriesOK'
  BY <1>8 DEF HistoriesOK
<1>9. ASSUME NEW c \in Convs, DeleteConversation(c)
      PROVE  HistoriesOK'
  <2>1. \A s \in Requests :
          request'[s] = IF Busy(s) /\ request[s].conv = c
                        THEN [request[s] EXCEPT !.intact = FALSE] ELSE request[s]
    BY <1>9 DEF DeleteConversation
  <2>2. ASSUME NEW s \in Requests, Busy(s)
        PROVE  /\ [request[s] EXCEPT !.intact = FALSE].history = request[s].history
               /\ [request[s] EXCEPT !.intact = FALSE].body = request[s].body
               /\ [request[s] EXCEPT !.intact = FALSE].from = request[s].from
    BY <1>1, <1>2, <2>2 DEF StoredOK, RequestOK
  <2> QED
    BY <1>2, <2>1, <2>2, WaitingStaysInformed
<1>10. CASE Day
  <2>1. \A s \in Requests :
          request'[s] = IF Busy(s) THEN [request[s] EXCEPT !.days = 1] ELSE request[s]
    BY <1>10 DEF Day
  <2>2. ASSUME NEW s \in Requests, Busy(s)
        PROVE  /\ [request[s] EXCEPT !.days = 1].history = request[s].history
               /\ [request[s] EXCEPT !.days = 1].body = request[s].body
               /\ [request[s] EXCEPT !.days = 1].from = request[s].from
    BY <1>1, <1>2, <2>2 DEF StoredOK, RequestOK
  <2> QED
    BY <1>2, <2>1, <2>2, WaitingStaysInformed
<1>11. ASSUME NEW c \in Convs,
              \/ \E meta \in {conv[c].meta} \union [edit : Edits, closed : {FALSE}] :
                   UpdateConversation(c, meta)
              \/ \E message \in Posts : AddMessage(c, message)
       PROVE  HistoriesOK'
  BY <1>8, <1>11 DEF UpdateConversation, AddMessage
<1>12. CASE Clean
  BY <1>8, <1>12 DEF Clean
<1>13. CASE UNCHANGED vars
  BY <1>8, <1>13 DEF vars
<1> QED
  BY <1>3, <1>4, <1>5, <1>7, <1>9, <1>10, <1>11, <1>12, <1>13 DEF Next

LEMMA HistoriesAlwaysOK == Spec => []HistoriesOK
<1>1. Init => HistoriesOK
  BY DEF Init, HistoriesOK, Informed
<1>2. IInv /\ HistoriesOK /\ [Next]_vars => HistoriesOK'
  BY HistoriesStep
<1> QED
  BY <1>1, <1>2, Invariant, PTL DEF Spec

\* A message of a request is missing from what the model is sent only if one
\* that was loaded (get_messages of conversation/store.py) has the same first 80
\* characters (_build_history of shared/session_router.py, chat of
\* agent/router.py): two texts that differ later are one to the dedupe.
THEOREM ModelsSeeTheQuestion == Spec => []ModelSeesTheQuestion
<1>1. HistoriesOK => ModelSeesTheQuestion
  <2> SUFFICES ASSUME HistoriesOK, NEW r \in Requests, Busy(r)
               PROVE  Tells(request[r].history, request[r].body, request[r].from)
    BY DEF ModelSeesTheQuestion, Tells
  <2> QED
    BY DEF HistoriesOK, Informed, Busy, Idle
<1> QED
  BY <1>1, HistoriesAlwaysOK, PTL

\* Every table, and every request with the history it was sent, has its type.
THEOREM SessionsWellTyped == Spec => []TypeOK
<1>1. IInv /\ HistoriesOK => TypeOK
  <2> SUFFICES ASSUME IInv, HistoriesOK
               PROVE  TypeOK
    OBVIOUS
  <2>1. ASSUME NEW r \in Requests
        PROVE  request[r] \in Waiting \union {Idle}
    <3>1. RequestOK(request[r]) /\ Informed(request[r])
      BY DEF IInv, StoredOK, HistoriesOK
    <3> DEFINE w == request[r]
    <3>2. CASE w = Idle
      BY <3>2
    <3>3. CASE w # Idle
      <4>1. w \in [endpoint : Endpoints, conv : Convs, body : Bodies \union {<<>>},
                   history : {w.history}, from : Nat, intact : BOOLEAN,
                   days : 0..1, meta : Meta]
        BY <3>1, <3>3 DEF RequestOK
      <4>2. w.history \in Seq(Message)
        BY <3>1, <3>3 DEF Informed, Tells
      <4> QED
        BY <4>1, <4>2 DEF Waiting
    <3> QED
      BY <3>2, <3>3
  <2>2. request \in [Requests -> Waiting \union {Idle}]
    BY <2>1 DEF IInv, StoredOK
  <2> QED
    BY <2>2 DEF IInv, StoredOK, TypeOK
<1> QED
  BY <1>1, Invariant, HistoriesAlwaysOK, PTL

===============================================================================
