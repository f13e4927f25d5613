------------------------------- MODULE AgentTurn -------------------------------
(***************************************************************************)
(* Agent turns calling LLM providers behind circuit breakers:              *)
(* AgentEngine.run_turn and run_turn_stream (agent/engine.py), the         *)
(* cross-provider fallback chain (provider/fallback.py), the same-provider *)
(* model fallback (provider/model_fallback.py), the context compressor's   *)
(* call (shared/context_compressor.py) and the timeout of run_subagent     *)
(* (shared/subagent.py).                                                   *)
(*                                                                         *)
(* The service is one asyncio event loop: a turn runs without interruption *)
(* from one await to the next, so an action is what a turn does between    *)
(* two provider calls and turns interleave while their calls are in        *)
(* flight.  The breakers are module globals, shared by every turn.         *)
(***************************************************************************)
EXTENDS Naturals, Sequences, CircuitBreaker

CONSTANTS
    Turns,           \* slots for concurrent turns; a slot is used again
    Providers,       \* every provider name a request or the chain may use
    Registered,      \* the names provider.registry knows
    FallbackChain,   \* HERMES_FALLBACK_CHAIN, parsed; <<>> when unset
    ModelFallbacks,  \* how many models HERMES_MODEL_FALLBACK_CHAIN lists
    NoProvider       \* the provider of a turn that is calling none

ASSUME TurnAssumption ==
    /\ Registered \subseteq Providers
    /\ FallbackChain \in Seq(Providers)
    /\ ModelFallbacks \in Nat
    /\ NoProvider \notin Providers

VARIABLES
    breaker,    \* breaker[p]: the circuit of provider p
    turn,       \* turn[t]: what slot t is doing
    up          \* up[p]: p answers, and within every timeout

vars == <<breaker, turn, up>>

-------------------------------------------------------------------------------
(* State *)

\* "chat": run_turn for a request; "subagent": run_turn under
\* asyncio.wait_for; "stream": run_turn_stream.
Kinds == {"chat", "subagent", "stream"}

\* The await a turn is suspended in: the compressor's call, the primary call,
\* a call of the model fallback, of the fallback chain, or the open stream.
Awaits == {"compressing", "calling", "model", "chain", "streaming"}

Outcomes == {"none", "ok", "CIRCUIT_OPEN", "PROVIDER_UNAVAILABLE",
             "PROVIDER_ERROR", "SERVICE_ERROR", "TIMEOUT"}

\* `pos' is the place in the model list or in the fallback chain.  `probe' and
\* `waited' observe a call a breaker has admitted: whether its circuit was
\* HALF_OPEN then, and how long ago that was, capped like `elapsed'.
CallingTurn == [stage    : Awaits,
                kind     : Kinds,
                provider : Providers,
                pos      : Nat,
                probe    : BOOLEAN,
                waited   : 0..ResetTimeout,
                outcome  : {"none"}]

EndedTurn == [stage    : {"ended"},
              kind     : Kinds,
              provider : {NoProvider},
              pos      : {0},
              probe    : {FALSE},
              waited   : {0},
              outcome  : Outcomes]

Turn == CallingTurn \union EndedTurn

Ended(outcome) ==
    [stage |-> "ended", kind |-> "chat", provider |-> NoProvider, pos |-> 0,
     probe |-> FALSE, waited |-> 0, outcome |-> outcome]

Calling(stage, kind, p, pos, probe) ==
    [stage |-> stage, kind |-> kind, provider |-> p, pos |-> pos,
     probe |-> probe, waited |-> 0, outcome |-> "none"]

Active(t) == turn[t].stage # "ended"

\* Calls that allow_request let through and whose result is recorded.
Gated(t) == turn[t].stage \in {"calling", "chain"}

Init ==
    /\ breaker = [p \in Providers |-> NewCircuit]
    /\ turn = [t \in Turns |-> Ended("none")]
    /\ up = [p \in Providers |-> TRUE]

-------------------------------------------------------------------------------
(* What a turn does between two awaits *)

End(t, outcome) == turn' = [turn EXCEPT ![t] = Ended(outcome)]

Call(t, stage, kind, p, pos) ==
    turn' = [turn EXCEPT ![t] = Calling(stage, kind, p, pos, FALSE)]

\* The circuit is asked and the call goes out with no await in between.
Admit(t, stage, kind, p, pos, circuits) ==
    turn' = [turn EXCEPT ![t] = Calling(stage, kind, p, pos,
                                        Asked(circuits[p]).state = "HALF_OPEN")]

\* try_with_fallback from entry `from' on: entries whose circuit refuses and
\* unregistered entries are skipped, though the latter's circuit was asked.
Takes(i, circuits) ==
    Allows(circuits[FallbackChain[i]]) /\ FallbackChain[i] \in Registered

AskEntries(from, to, circuits) ==
    [p \in Providers |->
        IF \E i \in from..to : FallbackChain[i] = p
        THEN Asked(circuits[p]) ELSE circuits[p]]

TryChain(t, kind, from, circuits) ==
    \/ \E i \in from..Len(FallbackChain) :
         /\ Takes(i, circuits)
         /\ \A j \in from..(i - 1) : ~Takes(j, circuits)
         /\ breaker' = AskEntries(from, i, circuits)
         /\ Admit(t, "chain", kind, FallbackChain[i], i, circuits)
    \/ /\ \A i \in from..Len(FallbackChain) : ~Takes(i, circuits)
       /\ breaker' = AskEntries(from, Len(FallbackChain), circuits)
       /\ End(t, "PROVIDER_UNAVAILABLE")

\* The primary provider's circuit: call, or walk the chain, or give up.
PassBreaker(t, kind, p) ==
    \/ /\ Allows(breaker[p])
       /\ breaker' = [breaker EXCEPT ![p] = Asked(@)]
       /\ Admit(t, "calling", kind, p, 0, breaker)
    \/ /\ ~Allows(breaker[p])
       /\ FallbackChain # <<>>
       /\ TryChain(t, kind, 1, breaker)
    \/ /\ ~Allows(breaker[p])
       /\ FallbackChain = <<>>
       /\ End(t, "CIRCUIT_OPEN")
       /\ UNCHANGED breaker

\* A stream never asks the breaker and records nothing with it.
Proceed(t, kind, p) ==
    \/ /\ kind = "stream"
       /\ Call(t, "streaming", kind, p, 0)
       /\ UNCHANGED breaker
    \/ kind # "stream" /\ PassBreaker(t, kind, p)

-------------------------------------------------------------------------------
(* The turn's steps *)

\* A turn begins: an unknown provider is an error, a long history is first
\* compressed by a call of its own (sub-agents send one short message).
Start(t, p, kind, long) ==
    /\ ~Active(t)
    /\ long => kind # "subagent"
    /\ \/ /\ p \notin Registered
          /\ End(t, "PROVIDER_UNAVAILABLE")
          /\ UNCHANGED breaker
       \/ /\ p \in Registered
          /\ long
          /\ Call(t, "compressing", kind, p, 0)
          /\ UNCHANGED breaker
       \/ p \in Registered /\ ~long /\ Proceed(t, kind, p)
    /\ UNCHANGED up

\* The compressor keeps the original messages when its call fails.
CompressReturns(t) ==
    /\ turn[t].stage = "compressing"
    /\ Proceed(t, turn[t].kind, turn[t].provider)
    /\ UNCHANGED up

Answers(t) == up[turn[t].provider]

SuccessRecorded(t) == [breaker EXCEPT ![turn[t].provider] = RecordSuccess(@)]

FailureRecorded(t) == [breaker EXCEPT ![turn[t].provider] = RecordFailure(@)]

CallSucceeds(t) ==
    /\ turn[t].stage = "calling"
    /\ Answers(t)
    /\ breaker' = SuccessRecorded(t)
    /\ End(t, "ok")
    /\ UNCHANGED up

\* A ServiceError is raised on; any other exception goes to the model
\* fallback when there is one.
CallFails(t, error) ==
    /\ turn[t].stage = "calling"
    /\ ~Answers(t)
    /\ breaker' = FailureRecorded(t)
    /\ \/ error = "service_error" /\ End(t, "SERVICE_ERROR")
       \/ /\ error = "exception"
          /\ IF ModelFallbacks > 0
             THEN Call(t, "model", turn[t].kind, turn[t].provider, 1)
             ELSE End(t, "PROVIDER_ERROR")
    /\ UNCHANGED up

\* try_model_fallback: the same provider again, whatever its circuit says, and
\* nothing recorded.  run_turn turns any error out of it into PROVIDER_ERROR.
ModelReturns(t, error) ==
    /\ turn[t].stage = "model"
    /\ \/ Answers(t) /\ End(t, "ok")
       \/ /\ ~Answers(t)
          /\ error = "exception"
          /\ turn[t].pos < ModelFallbacks
          /\ Call(t, "model", turn[t].kind, turn[t].provider, turn[t].pos + 1)
       \/ /\ ~Answers(t)
          /\ error = "service_error" \/ turn[t].pos = ModelFallbacks
          /\ End(t, "PROVIDER_ERROR")
    /\ UNCHANGED <<breaker, up>>

ChainSucceeds(t) ==
    /\ turn[t].stage = "chain"
    /\ Answers(t)
    /\ breaker' = SuccessRecorded(t)
    /\ End(t, "ok")
    /\ UNCHANGED up

\* Mutant: after a failed entry the chain is walked from its first entry again.
ChainFails_Restarts(t, error) ==
    /\ turn[t].stage = "chain"
    /\ ~Answers(t)
    /\ \/ error = "service_error" /\ End(t, "SERVICE_ERROR") /\ UNCHANGED breaker
       \/ /\ error = "exception"
          /\ TryChain(t, turn[t].kind, 1, FailureRecorded(t))
    /\ UNCHANGED up

\* A ServiceError leaves the chain without a record; any other exception is
\* recorded and the next entry is tried.
ChainFails(t, error) ==
    /\ turn[t].stage = "chain"
    /\ ~Answers(t)
    /\ \/ /\ error = "service_error"
          /\ End(t, "SERVICE_ERROR")
          /\ UNCHANGED breaker
       \/ /\ error = "exception"
          /\ TryChain(t, turn[t].kind, turn[t].pos + 1, FailureRecorded(t))
    /\ UNCHANGED up

\* An error of the stream is a last event of it, not an exception.
StreamEnds(t) ==
    /\ turn[t].stage = "streaming"
    /\ End(t, "ok")
    /\ UNCHANGED <<breaker, up>>

\* asyncio.wait_for cancels the turn of a sub-agent: CancelledError is no
\* Exception, so no handler runs and the breaker hears of nothing.
TimeOut(t) ==
    /\ Active(t)
    /\ turn[t].kind = "subagent"
    /\ ~Answers(t)
    /\ End(t, "TIMEOUT")
    /\ UNCHANGED <<breaker, up>>

-------------------------------------------------------------------------------
(* The environment *)

Tick ==
    /\ \E p \in Providers : breaker[p].elapsed < ResetTimeout
    /\ breaker' = [p \in Providers |-> Older(breaker[p])]
    /\ turn' = [t \in Turns |->
                  IF Gated(t) /\ turn[t].waited < ResetTimeout
                  THEN [turn[t] EXCEPT !.waited = @ + 1] ELSE turn[t]]
    /\ UNCHANGED up

Flip(p) ==
    /\ p \in Registered
    /\ up' = [up EXCEPT ![p] = ~@]
    /\ UNCHANGED <<breaker, turn>>

Returns(t) ==
    \/ CompressReturns(t)
    \/ CallSucceeds(t)
    \/ ChainSucceeds(t)
    \/ StreamEnds(t)
    \/ \E error \in {"service_error", "exception"} :
         CallFails(t, error) \/ ModelReturns(t, error) \/ ChainFails(t, error)

Next ==
    \/ \E t \in Turns :
         \/ \E p \in Providers, kind \in Kinds, long \in BOOLEAN :
              Start(t, p, kind, long)
         \/ Returns(t)
         \/ TimeOut(t)
    \/ Tick
    \/ \E p \in Providers : Flip(p)

\* Time passes, and every provider call returns or raises: the HTTP clients
\* all have timeouts.  Nobody owes us a new turn, nor a provider its recovery.
Fairness == WF_vars(Tick) /\ \A t \in Turns : WF_vars(Returns(t))

Spec == Init /\ [][Next]_vars /\ Fairness

-------------------------------------------------------------------------------
(* Properties *)

TypeOK ==
    /\ breaker \in [Providers -> CircuitState]
    /\ turn \in [Turns -> Turn]
    /\ up \in [Providers -> BOOLEAN]

\* A circuit that is still closed has seen fewer failures than trip it, in
\* whatever order the calls of the concurrent turns came back.
BelowThreshold ==
    \A p \in Providers :
        breaker[p].state = "CLOSED" => breaker[p].failures < FailureThreshold

\* An opening lasts the whole reset timeout: no answer that arrives late, and
\* no request, takes a circuit out of OPEN before its rest is over.
FullRest ==
    \A p \in Providers :
        breaker[p].elapsed < ResetTimeout => breaker[p].state = "OPEN"

\* While a circuit is open no admitted call is younger than the opening: what
\* is still in flight behind an OPEN circuit left before it opened.
OpenIsQuiet ==
    \A t \in Turns :
        Gated(t) /\ breaker[turn[t].provider].state = "OPEN"
            => turn[t].waited >= breaker[turn[t].provider].elapsed

\* The circuits, whatever the turns do, keep the promise of BreakerLifecycle.
Lifecycle == INSTANCE BreakerLifecycle WITH
    Rest   <- ResetTimeout,
    phase  <- [p \in Providers |-> breaker[p].state],
    rested <- [p \in Providers |-> breaker[p].elapsed]

ImplementsLifecycle == Lifecycle!Spec

\* Every turn ends, with an answer or an error: a primary call that fails goes
\* through finitely many models, a walk along the fallback chain never comes
\* back to an entry although other turns close and reopen circuits under it,
\* and a ServiceError inside either ends the turn as well.
EveryTurnEnds == \A t \in Turns : Active(t) ~> ~Active(t)

\* A turn has its circuit asked for p.
AsksFor(p) ==
    \E t \in Turns : ~Active(t) /\ Start(t, p, "chat", FALSE)

\* A provider that answers again gets its circuit closed again, if requests
\* keep asking for it: no opening, and no HALF_OPEN, is forever, even when
\* probes are cancelled and calls from before the opening fail late.
RecoveredProviderCloses ==
    \A p \in Registered :
        <>[]up[p] /\ []<><<AsksFor(p)>>_vars
            => []<>(breaker[p].state = "CLOSED")

===============================================================================
