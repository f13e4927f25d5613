---------------------------------- MODULE Context ----------------------------------
(***************************************************************************)
(* What the model is given for a turn: the context of                      *)
(* shared/context_builder.py, the compression of                           *)
(* shared/context_compressor.py, _prepare_messages of agent/engine.py and  *)
(* the split of system messages in provider/base.py.                       *)
(*                                                                         *)
(* A message is its role and its place in the request; texts and their     *)
(* lengths are left out.                                                   *)
(***************************************************************************)
EXTENDS Naturals, Sequences, FiniteSets, Selection

CONSTANTS
    KeepLast,       \* context_keep_last_messages
    MaxMessages     \* bound: the messages of a request

ASSUME ContextAssumption ==
    /\ KeepLast \in Nat
    /\ MaxMessages \in Nat

VARIABLES
    asked,      \* the messages of the request
    context,    \* the sections build_context found
    messages,   \* the list the engine holds
    given,      \* what the adapter sends: a system text and messages
    step        \* where the turn is

contextVars == <<asked, context, messages, given, step>>

-------------------------------------------------------------------------------
(* State *)

Roles == {"system", "user", "assistant"}

\* `place' is 0 for a message the service wrote itself.
Message == [role : Roles, place : 0..MaxMessages, enriched : SUBSET {"files", "past", "memories"}]

\* A message of the request.
Own(role, place) == [role |-> role, place |-> place, enriched |-> {}]

\* "[Conversation Summary]": a user message, in the place of all it stands for.
SummaryMessage == Own("user", 0)

SystemPrompt(sections) == [role |-> "system", place |-> 0, enriched |-> sections]

NothingGiven == [system |-> <<>>, rest |-> <<>>]

ContextInit ==
    /\ asked = <<>>
    /\ context = {}
    /\ messages = <<>>
    /\ given = NothingGiven
    /\ step = "idle"

-------------------------------------------------------------------------------
(* build_context *)

HasQuery(list) == \E i \in DOMAIN list : list[i].role = "user"

\* Each section is there when its search finds something and does not raise.
\* Without a user message only the files are read; skills are searched in an
\* empty cache (Skills.tla).
Sections(list) == IF HasQuery(list) THEN SUBSET {"files", "past", "memories"}
                                    ELSE SUBSET {"files"}

StartTurn(roles) ==
    /\ step = "idle"
    /\ asked' = [i \in DOMAIN roles |-> Own(roles[i], i)]
    /\ messages' = asked'
    /\ context' \in Sections(asked')
    /\ step' = "compress"
    /\ UNCHANGED given

-------------------------------------------------------------------------------
(* compress_messages *)

PrefixCount(list) == IF Len(list) > 0 /\ list[1].role = "system" THEN 1 ELSE 0

\* Mutant: the middle reaches one message too far.
MiddleEnd_OffByOne(list) == Len(list) - KeepLast + 1

\* The last message that is summarised.
MiddleEnd(list) == Len(list) - KeepLast

Compressible(list) ==
    /\ Len(list) > KeepLast + 2
    /\ MiddleEnd(list) > PrefixCount(list)

\* The leading system message, the summary, the last ones.
Compressed(list) ==
    SubSeq(list, 1, PrefixCount(list))
        \o <<SummaryMessage>>
        \o SubSeq(list, MiddleEnd(list) + 1, Len(list))

\* Too short a text, too few messages, no provider, an error or an answer of
\* fewer than ten characters: the list stays as it was.
Compress ==
    /\ step = "compress"
    /\ \/ UNCHANGED messages
       \/ Compressible(messages) /\ messages' = Compressed(messages)
    /\ step' = "prepare"
    /\ UNCHANGED <<asked, context, given>>

-------------------------------------------------------------------------------
(* _prepare_messages and the adapter *)

HasSystem(list) == \E i \in DOMAIN list : list[i].role = "system"

\* Mutant: the request is looked at, not what compression has left of it.
WithoutSystem_Asked == ~HasSystem(asked)

WithoutSystem == ~HasSystem(messages)

\* The context goes into the prompt; a client that brings a system message of
\* its own does without both.
Prepare ==
    /\ step = "prepare"
    /\ messages' = IF WithoutSystem THEN <<SystemPrompt(context)>> \o messages ELSE messages
    /\ step' = "send"
    /\ UNCHANGED <<asked, context, given>>

SystemMessages == {m \in Message : m.role = "system"}

\* Mutant: every system message is kept.
Split_KeepsAll(list) ==
    [system |-> Select(list, SystemMessages), rest |-> Select(list, Message \ SystemMessages)]

\* split_system_messages: the last system message wins, the others are lost.
\* OpenAIAdapter sends the list as it is.
Split(list) ==
    LET systems == Select(list, SystemMessages)
    IN  [system |-> IF systems = <<>> THEN <<>> ELSE <<systems[Len(systems)]>>,
         rest |-> Select(list, Message \ SystemMessages)]

Send ==
    /\ step = "send"
    /\ given' = Split(messages)
    /\ step' = "sent"
    /\ UNCHANGED <<asked, context, messages>>

Answered ==
    /\ step = "sent"
    /\ step' = "idle"
    /\ asked' = <<>>
    /\ context' = {}
    /\ messages' = <<>>
    /\ given' = NothingGiven

ContextNext ==
    \/ \E n \in 0..MaxMessages : \E roles \in [1..n -> Roles] : StartTurn(roles)
    \/ Compress
    \/ Prepare
    \/ Send
    \/ Answered

ContextSpec == ContextInit /\ [][ContextNext]_contextVars

-------------------------------------------------------------------------------
(* Properties *)

ContextTypeOK ==
    /\ asked \in Seq(Message) /\ Len(asked) <= MaxMessages
    /\ context \subseteq {"files", "past", "memories"}
    /\ messages \in Seq(Message) /\ Len(messages) <= MaxMessages + 1
    /\ given.system \in Seq(Message) /\ Len(given.system) <= 1
    /\ given.rest \in Seq(Message)
    /\ step \in {"idle", "compress", "prepare", "send", "sent"}

\* The last messages of the request, KeepLast of them if it has so many.
LastAsked ==
    LET kept == IF Len(asked) < KeepLast THEN Len(asked) ELSE KeepLast
    IN  SubSeq(asked, Len(asked) - kept + 1, Len(asked))

EndsWith(list, tail) ==
    /\ Len(tail) <= Len(list)
    /\ \A k \in 0..(Len(tail) - 1) : list[Len(list) - k] = tail[Len(tail) - k]

\* What is sent ends with the last KeepLast messages of the request, whatever
\* was compressed and prepended: all of them and in order in the list that
\* OpenAIAdapter sends.  After the split of the other adapters that holds of
\* what users and assistants said; of the system messages among them the model
\* gets the last one only.
RecentSurvive ==
    step = "sent" =>
        LET systems == Select(LastAsked, SystemMessages)
        IN  /\ EndsWith(messages, LastAsked)
            /\ EndsWith(given.rest, Select(LastAsked, Message \ SystemMessages))
            /\ systems # <<>> => given.system = <<systems[Len(systems)]>>

\* The model always has its instructions: the client's own last system message
\* when that is first or recent, else the prompt of the service with all the
\* context found, also when compression has just swallowed the client's.
InstructionsSurvive ==
    step = "sent" =>
        /\ given.system # <<>>
        /\ given.system[1].place = 0 => given.system[1].enriched = context
        /\ PrefixCount(asked) = 1 => given.system[1].place > 0

===============================================================================
