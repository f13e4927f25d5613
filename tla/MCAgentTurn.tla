------------------------------ MODULE MCAgentTurn ------------------------------
(***************************************************************************)
(* AgentTurn on small instances: the fallback chains the runs use, and     *)
(* two promises of the repository's comments and documents that the code   *)
(* does not keep.                                                          *)
(***************************************************************************)
EXTENDS AgentTurn, FiniteSets, TLC

CONSTANTS p, q, u      \* two providers and a name nobody registered

NoChain == <<>>
ShortChain == <<u, q>>
LongChain == <<u, q, p>>

HalfOpenMax == 1       \* half_open_max, circuit_breaker.py:25

-------------------------------------------------------------------------------

\* At most half_open_max probe calls are in flight while a circuit is
\* HALF_OPEN (circuit_breaker.py:25, "max probe calls in HALF_OPEN").
ProbesAreLimited ==
    \A r \in Providers :
        breaker[r].state = "HALF_OPEN" =>
            Cardinality({t \in Turns : /\ Gated(t)
                                       /\ turn[t].provider = r
                                       /\ turn[t].probe}) <= HalfOpenMax

\* A turn whose primary call fails does not end in an error while a registered
\* provider of the fallback chain has a CLOSED circuit (README.md:41, the
\* fallback chain takes over when the primary provider fails).
PrimaryFailureFallsBack ==
    [][\A t \in Turns :
         Active(t) /\ turn'[t].outcome = "PROVIDER_ERROR" =>
            ~\E i \in 1..Len(FallbackChain) :
                /\ FallbackChain[i] \in Registered \ {turn[t].provider}
                /\ breaker[FallbackChain[i]].state = "CLOSED"]_vars

===============================================================================
