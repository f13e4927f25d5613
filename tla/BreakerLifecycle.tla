--------------------------- MODULE BreakerLifecycle ---------------------------
(***************************************************************************)
(* What the circuit breakers promise, with no calls, counters or callers   *)
(* in sight.  Every circuit walks                                          *)
(*     CLOSED -> OPEN -> HALF_OPEN -> CLOSED or OPEN again,                *)
(* an opening always lasts the whole rest, whatever late answers arrive    *)
(* while it is open, and nobody is let through before the rest is over.    *)
(***************************************************************************)
EXTENDS Naturals

CONSTANTS
    Providers,
    Rest            \* how long an opened circuit refuses every request

VARIABLES
    phase,          \* phase[p]: CLOSED, OPEN or HALF_OPEN
    rested          \* rested[p]: time since p last opened, capped at Rest

lifeVars == <<phase, rested>>

Init ==
    /\ phase  = [p \in Providers |-> "CLOSED"]
    /\ rested = [p \in Providers |-> Rest]

\* A circuit opens, from CLOSED or from HALF_OPEN, and begins its rest.
Open(p) ==
    /\ phase[p] \in {"CLOSED", "HALF_OPEN"}
    /\ phase'[p] = "OPEN"
    /\ rested'[p] = 0

\* Only a rested circuit lets a request probe its provider.
Probe(p) ==
    /\ phase[p] = "OPEN"
    /\ rested[p] = Rest
    /\ phase'[p] = "HALF_OPEN"
    /\ rested'[p] = rested[p]

\* Only a probing circuit closes.
Close(p) ==
    /\ phase[p] = "HALF_OPEN"
    /\ phase'[p] = "CLOSED"
    /\ rested'[p] = rested[p]

Keep(p) ==
    /\ phase'[p] = phase[p]
    /\ rested'[p] = rested[p]

\* One step of a caller may move several circuits: the failure of one entry of
\* a fallback chain opens its circuit while the walk down the rest of the
\* chain lets others probe.  Each circuit makes at most one move.
Move ==
    /\ phase' \in [Providers -> {"CLOSED", "OPEN", "HALF_OPEN"}]
    /\ rested' \in [Providers -> 0..Rest]
    /\ \A p \in Providers : Open(p) \/ Probe(p) \/ Close(p) \/ Keep(p)

\* Time passes for every circuit alike.
Pass ==
    /\ phase' = phase
    /\ rested' = [p \in Providers |->
                    IF rested[p] < Rest THEN rested[p] + 1 ELSE rested[p]]

Next == Move \/ Pass

Spec == Init /\ [][Next]_lifeVars

===============================================================================
