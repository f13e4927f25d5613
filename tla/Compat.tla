---------------------------------- MODULE Compat ----------------------------------
(***************************************************************************)
(* The OpenAI-compatible endpoint (api_compat/router.py) over the streams  *)
(* of the adapters (provider/*_adapter.py) and of AgentEngine              *)
(* (agent/engine.py), and the registration of providers they are routed to *)
(* (provider/service.py, provider/registry.py).                            *)
(*                                                                         *)
(* run_turn itself, with circuits and fallbacks, is AgentTurn.tla: here a  *)
(* turn that does not stream is one step from request to result.           *)
(***************************************************************************)
EXTENDS Naturals, Sequences, FiniteSets

CONSTANTS
    Clients,    \* slots for concurrent requests; a slot is used again
    Families,   \* the model families requested, see RuleOf
    MaxPieces   \* bound: the pieces of one answer

ASSUME CompatAssumption == MaxPieces \in Nat \ {0}

VARIABLES
    registry,   \* the providers registered at start-up
    client      \* client[c]: a request and what its client has got of it

compatVars == <<registry, client>>

-------------------------------------------------------------------------------
(* Providers *)

Dedicated == {"anthropic", "gemini"}

AnthropicCompat == {"anthropic_compat"}

OpenAICompat == {"openai", "deepseek", "moonshot", "zhipu", "qwen", "xiaomi", "minimax"}

ProviderNames == Dedicated \union AnthropicCompat \union OpenAICompat

\* _MODEL_PROVIDER_RULES by family: the prefix of the requested model.
RuleOf ==
    [claude |-> "anthropic", gpt |-> "openai", o1 |-> "openai", gemini |-> "gemini",
     deepseek |-> "deepseek", moonshot |-> "moonshot", kimi |-> "moonshot",
     glm |-> "zhipu", zhipu |-> "zhipu", chatglm |-> "zhipu", qwen |-> "qwen",
     mimo |-> "xiaomi", abab |-> "minimax", minimax |-> "minimax", ac |-> "anthropic_compat"]

\* _resolve_provider: the first rule that matches, or anthropic, whatever the
\* engine's own default is.
ResolveProvider(family) == IF family \in DOMAIN RuleOf THEN RuleOf[family] ELSE "anthropic"

Routed == {ResolveProvider(f) : f \in Families}

\* init_providers: a provider is registered when it has a key, and, for
\* anthropic_compat and xiaomi, a URL.  One whose SDK is missing or raises is
\* left out.
Registries == SUBSET Routed

-------------------------------------------------------------------------------
(* Requests *)

\* `sent' is the text the provider has produced, piece by piece, and `failed'
\* that it then raised; `got' are the text chunks of the response.  `role',
\* `finish' and `over' count the opening chunk, the finishing chunk and [DONE];
\* `calls' are the tool calls of the answer, up to one, `reason' its
\* finish_reason.
NoRequest == [at |-> "idle", family |-> "none", sent |-> <<>>, failed |-> FALSE,
              got |-> <<>>, role |-> 0, finish |-> 0, over |-> 0, calls |-> 0,
              reason |-> "none"]

\* The pieces of an answer are numbered; an error event is one of its own.
Pieces == 0..MaxPieces

ErrorPiece == 0

CompatInit ==
    /\ registry \in Registries
    /\ client = [c \in Clients |-> NoRequest]

Has(c, at) == client[c].at = at

-------------------------------------------------------------------------------
(* The stream *)

\* _handle_stream: the opening chunk names the role.
OpenStream(c, family) ==
    /\ Has(c, "idle")
    /\ client' = [client EXCEPT ![c] =
            [NoRequest EXCEPT !.at = "opened", !.family = family, !.role = 1]]
    /\ UNCHANGED registry

Got(c, piece) == Append(client[c].got, piece)

\* An error event of the engine becomes a text chunk like any other, and the
\* engine's generator ends.
ErrorChunk(c) ==
    client' = [client EXCEPT ![c].got = Got(c, ErrorPiece), ![c].failed = TRUE,
                             ![c].at = "finishing"]

\* run_turn_stream: no such provider; or the adapter called.  Its client is
\* made on the first call.
CallProvider(c) ==
    /\ Has(c, "opened")
    /\ IF ResolveProvider(client[c].family) \notin registry
       THEN ErrorChunk(c)
       ELSE client' = [client EXCEPT ![c].at = "streaming"]
    /\ UNCHANGED registry

\* A text event is forwarded before the next one is asked for.
Chunk(c, piece) == Got(c, piece)

\* The adapter yields a text.
Piece(c) ==
    /\ Has(c, "streaming")
    /\ Len(client[c].sent) < MaxPieces
    /\ LET piece == Len(client[c].sent) + 1
       IN  client' = [client EXCEPT ![c].sent = Append(@, piece), ![c].got = Chunk(c, piece)]
    /\ UNCHANGED registry

\* The adapter's "done" event has no text; a tool call, or a piece without
\* text, yields none either.
ProviderDone(c) ==
    /\ Has(c, "streaming")
    /\ client' = [client EXCEPT ![c].at = "finishing"]
    /\ UNCHANGED registry

\* Mutant: the engine gives up without a word.
AfterError_Silent(c) ==
    client' = [client EXCEPT ![c].failed = TRUE, ![c].at = "finishing"]

AfterError(c) == ErrorChunk(c)

\* One of _STREAMABLE_ERRORS, before the first piece or after any: a lost
\* connection, or a message the adapter finds no content in.
StreamFails(c) ==
    /\ Has(c, "streaming")
    /\ AfterError(c)
    /\ UNCHANGED registry

\* What an SDK raises itself is none of them: the response breaks off.  So it
\* does when the client leaves.
BreakOff(c) ==
    /\ client[c].at \in {"opened", "streaming", "finishing", "finished"}
    /\ client' = [client EXCEPT ![c].at = "broken"]
    /\ UNCHANGED registry

Finish(c) ==
    /\ Has(c, "finishing")
    /\ client' = [client EXCEPT ![c].at = "finished", ![c].finish = @ + 1, ![c].reason = "stop"]
    /\ UNCHANGED registry

Done(c) ==
    /\ Has(c, "finished")
    /\ client' = [client EXCEPT ![c].at = "answered", ![c].over = @ + 1]
    /\ UNCHANGED registry

-------------------------------------------------------------------------------
(* The answer that does not stream *)

\* Of an answer that was not cut short: an empty content, text or tool calls.
Result(shape, blocks, toolCalls, reason) ==
    [shape |-> shape, blocks |-> blocks, toolCalls |-> toolCalls, reason |-> reason]

\* OpenAIAdapter.chat_completion keeps text and tool calls apart.
OpenAIResults == {Result("text", 0, 0, "stop"), Result("text", 0, 1, "tool_calls")}

\* AnthropicAdapter.chat_completion has a list of blocks.
AnthropicResults == {Result("blocks", 0, 0, "end_turn"), Result("blocks", 1, 0, "tool_use")}

\* GeminiAdapter.chat_completion is given no tools and returns a text.
GeminiResults == {Result("text", 0, 0, "STOP")}

Results(n) ==
    CASE n \in OpenAICompat -> OpenAIResults
      [] n = "gemini"       -> GeminiResults
      [] OTHER              -> AnthropicResults

\* _openai_messages_from_engine finds tool calls among the blocks alone: the
\* tool_calls next to the content are not looked at.
ToolCalls(result) == IF result.shape = "blocks" THEN result.blocks ELSE 0

\* _handle_non_stream: the result of run_turn, or its ServiceError.
Complete(c, family) ==
    LET n == ResolveProvider(family)
    IN  /\ Has(c, "idle")
        /\ \/ /\ n \in registry
              /\ \E result \in Results(n) :
                   client' = [client EXCEPT ![c] =
                      [NoRequest EXCEPT !.at = "answered", !.family = family,
                            !.calls = ToolCalls(result), !.reason = result.reason]]
           \/ client' = [client EXCEPT ![c] =
                [NoRequest EXCEPT !.at = "refused", !.family = family]]
        /\ UNCHANGED registry

NextRequest(c) ==
    /\ client[c].at \in {"answered", "refused", "broken"}
    /\ client' = [client EXCEPT ![c] = NoRequest]
    /\ UNCHANGED registry

CompatNext ==
    \E c \in Clients :
        \/ \E f \in Families : OpenStream(c, f) \/ Complete(c, f)
        \/ CallProvider(c)
        \/ Piece(c)
        \/ ProviderDone(c)
        \/ StreamFails(c)
        \/ BreakOff(c)
        \/ Finish(c)
        \/ Done(c)
        \/ NextRequest(c)

CompatSpec == CompatInit /\ [][CompatNext]_compatVars

-------------------------------------------------------------------------------
(* Properties *)

CompatTypeOK ==
    /\ Routed \subseteq ProviderNames
    /\ registry \subseteq Routed
    /\ client \in [Clients ->
            [at : {"idle", "opened", "streaming", "finishing", "finished", "answered",
                   "refused", "broken"},
             family : Families \union {"none"}, sent : Seq(1..MaxPieces), failed : BOOLEAN,
             got : Seq(Pieces),
             role : 0..1, finish : 0..1, over : 0..1, calls : 0..1,
             reason : {"none", "stop", "STOP", "end_turn", "tool_calls", "tool_use"}]]

\* A client that sees the finishing chunk has all the text the provider
\* produced, in order; when the provider failed on the way the client has been
\* told so, after that text and not before.
FinishedMeansWhole ==
    \A c \in Clients :
        client[c].finish = 1 =>
            client[c].got = IF client[c].failed THEN Append(client[c].sent, ErrorPiece)
                                                ELSE client[c].sent

===============================================================================
