---------------------------- MODULE AgentTurn_proofs ----------------------------
(***************************************************************************)
(* Proofs about AgentTurn for any number of turns and providers, any       *)
(* fallback chain, threshold and timeout: the type invariant, the three    *)
(* safety invariants of the breakers, and that the breakers of the         *)
(* concurrent turns implement BreakerLifecycle.                            *)
(***************************************************************************)
EXTENDS AgentTurn, TLAPS

-------------------------------------------------------------------------------
(* What the operators on one circuit preserve *)

\* Every method of the breaker maps circuits to circuits.
LEMMA CircuitTypes ==
    ASSUME NEW c \in CircuitState
    PROVE  /\ RecordSuccess(c) \in CircuitState
           /\ RecordFailure(c) \in CircuitState
           /\ Asked(c) \in CircuitState
           /\ Older(c) \in CircuitState
<1> USE BreakerAssumption DEF CircuitState, CircuitStates
<1>1. RecordSuccess(c) \in CircuitState
  BY DEF RecordSuccess
<1>2. RecordFailure(c) \in CircuitState
  BY DEF RecordFailure, OneMoreFailure
<1>3. Asked(c) \in CircuitState
  BY DEF Asked
<1>4. Older(c) \in CircuitState
  BY DEF Older
<1> QED BY <1>1, <1>2, <1>3, <1>4

LEMMA NewCircuitType == NewCircuit \in CircuitState
BY BreakerAssumption DEF NewCircuit, CircuitState, CircuitStates

\* The circuit of a closed record is below the threshold, and a record whose
\* rest is not over is open: the two invariants, of one circuit.
Sound(c) ==
    /\ c.state = "CLOSED" => c.failures < FailureThreshold
    /\ c.elapsed < ResetTimeout => c.state = "OPEN"

LEMMA CircuitSound ==
    ASSUME NEW c \in CircuitState, Sound(c)
    PROVE  /\ Sound(RecordSuccess(c))
           /\ Sound(RecordFailure(c))
           /\ Sound(Asked(c))
           /\ Sound(Older(c))
BY BreakerAssumption
   DEF CircuitState, CircuitStates, RecordSuccess, RecordFailure, Asked, Older,
       OneMoreFailure, Trips, Allows, Sound

LEMMA NewCircuitSound == Sound(NewCircuit)
BY BreakerAssumption DEF NewCircuit, Sound

-------------------------------------------------------------------------------
(* The shape of a step of a turn *)

\* All that one step of any turn can make of one circuit: leave it, ask it,
\* record a result, or record a failure and then ask it as the chain goes on.
Fates(c) == {c, Asked(c), RecordSuccess(c), RecordFailure(c),
             Asked(RecordFailure(c))}

LEMMA FatesType ==
    ASSUME NEW c \in CircuitState, NEW d \in Fates(c)
    PROVE  d \in CircuitState
BY CircuitTypes DEF Fates

LEMMA FatesSound ==
    ASSUME NEW c \in CircuitState, Sound(c), NEW d \in Fates(c)
    PROVE  Sound(d)
BY CircuitTypes, CircuitSound DEF Fates

\* A step of t changes t's own slot only, gives every circuit one of its
\* fates, and a call it admits finds a circuit that is not open.
StepShape(t) ==
    /\ breaker' = [r \in Providers |-> breaker'[r]]
    /\ \A r \in Providers : breaker'[r] \in Fates(breaker[r])
    /\ \E v \in Turn :
         /\ turn' = [turn EXCEPT ![t] = v]
         /\ v.stage \in {"calling", "chain"} =>
              v.waited = 0 /\ breaker'[v.provider].state # "OPEN"

LEMMA EndedType ==
    ASSUME NEW outcome \in Outcomes
    PROVE  Ended(outcome) \in Turn
BY DEF Ended, Turn, EndedTurn, Kinds

LEMMA CallingType ==
    ASSUME NEW stage \in Awaits, NEW kind \in Kinds, NEW r \in Providers,
           NEW pos \in Nat, NEW probe \in BOOLEAN
    PROVE  Calling(stage, kind, r, pos, probe) \in Turn
BY BreakerAssumption DEF Calling, Turn, CallingTurn

\* A turn that ends, whatever fate the circuits meet, makes a step of that shape.
LEMMA EndShape ==
    ASSUME NEW t \in Turns, NEW outcome \in Outcomes,
           breaker' = [r \in Providers |-> breaker'[r]],
           \A r \in Providers : breaker'[r] \in Fates(breaker[r]),
           End(t, outcome)
    PROVE  StepShape(t)
BY EndedType DEF StepShape, End, Ended

\* So does one that makes a call no breaker admits.
LEMMA CallShape ==
    ASSUME NEW t \in Turns, NEW stage \in {"compressing", "model", "streaming"},
           NEW kind \in Kinds, NEW r \in Providers, NEW pos \in Nat,
           breaker' = [s \in Providers |-> breaker'[s]],
           \A s \in Providers : breaker'[s] \in Fates(breaker[s]),
           Call(t, stage, kind, r, pos)
    PROVE  StepShape(t)
<1>1. Calling(stage, kind, r, pos, FALSE) \in Turn
  BY CallingType DEF Awaits
<1> QED BY <1>1 DEF StepShape, Call, Calling

\* And one that makes a call its provider's circuit has let through.
LEMMA AdmitShape ==
    ASSUME NEW t \in Turns, NEW stage \in {"calling", "chain"},
           NEW kind \in Kinds, NEW r \in Providers, NEW pos \in Nat,
           NEW circuits \in [Providers -> CircuitState],
           breaker' = [s \in Providers |-> breaker'[s]],
           \A s \in Providers : breaker'[s] \in Fates(breaker[s]),
           Allows(circuits[r]),
           breaker'[r] = Asked(circuits[r]),
           Admit(t, stage, kind, r, pos, circuits)
    PROVE  StepShape(t)
<1> DEFINE probe == Asked(circuits[r]).state = "HALF_OPEN"
<1>1. Calling(stage, kind, r, pos, probe) \in Turn
  BY CallingType DEF Awaits
<1>2. Asked(circuits[r]).state # "OPEN"
  BY BreakerAssumption DEF Asked, Allows, CircuitState
<1> QED BY <1>1, <1>2 DEF StepShape, Admit, Calling

-------------------------------------------------------------------------------
(* The pieces steps are made of *)

\* The walk down the chain, over the circuits as they are or with the failure
\* of the previous entry recorded.
LEMMA ChainShape ==
    ASSUME TypeOK, NEW t \in Turns, NEW kind \in Kinds, NEW from \in Nat \ {0},
           NEW circuits \in [Providers -> CircuitState],
           \A r \in Providers : circuits[r] \in {breaker[r], RecordFailure(breaker[r])},
           TryChain(t, kind, from, circuits)
    PROVE  StepShape(t)
<1>1. FallbackChain \in Seq(Providers) /\ Len(FallbackChain) \in Nat
  BY TurnAssumption
<1>2. ASSUME NEW to \in Nat, breaker' = AskEntries(from, to, circuits)
      PROVE  /\ breaker' = [r \in Providers |-> breaker'[r]]
             /\ \A r \in Providers : breaker'[r] \in Fates(breaker[r])
  BY <1>2 DEF AskEntries, Fates
<1>3. ASSUME NEW i \in from..Len(FallbackChain),
             Takes(i, circuits),
             breaker' = AskEntries(from, i, circuits),
             Admit(t, "chain", kind, FallbackChain[i], i, circuits)
      PROVE  StepShape(t)
  <2>1. i \in Nat /\ FallbackChain[i] \in Providers
    BY <1>1
  <2>2. breaker'[FallbackChain[i]] = Asked(circuits[FallbackChain[i]])
    BY <1>3, <2>1 DEF AskEntries
  <2>3. Allows(circuits[FallbackChain[i]])
    BY <1>3 DEF Takes
  <2> QED BY <1>2, <1>3, <2>1, <2>2, <2>3, AdmitShape
<1>4. ASSUME breaker' = AskEntries(from, Len(FallbackChain), circuits),
             End(t, "PROVIDER_UNAVAILABLE")
      PROVE  StepShape(t)
  BY <1>1, <1>2, <1>4, EndShape DEF Outcomes
<1> QED BY <1>3, <1>4 DEF TryChain

LEMMA PassBreakerShape ==
    ASSUME TypeOK, NEW t \in Turns, NEW kind \in Kinds, NEW r \in Providers,
           PassBreaker(t, kind, r)
    PROVE  StepShape(t)
<1>1. CASE /\ Allows(breaker[r])
           /\ breaker' = [breaker EXCEPT ![r] = Asked(@)]
           /\ Admit(t, "calling", kind, r, 0, breaker)
  <2>1. /\ breaker' = [s \in Providers |-> breaker'[s]]
        /\ breaker'[r] = Asked(breaker[r])
        /\ \A s \in Providers : breaker'[s] \in Fates(breaker[s])
    BY <1>1 DEF TypeOK, Fates
  <2> QED BY <1>1, <2>1, AdmitShape DEF TypeOK
<1>2. CASE TryChain(t, kind, 1, breaker)
  BY <1>2, ChainShape DEF TypeOK
<1>3. CASE End(t, "CIRCUIT_OPEN") /\ UNCHANGED breaker
  BY <1>3, EndShape DEF TypeOK, Fates, Outcomes
<1> QED BY <1>1, <1>2, <1>3 DEF PassBreaker

LEMMA ProceedShape ==
    ASSUME TypeOK, NEW t \in Turns, NEW kind \in Kinds, NEW r \in Providers,
           Proceed(t, kind, r)
    PROVE  StepShape(t)
<1>1. CASE Call(t, "streaming", kind, r, 0) /\ UNCHANGED breaker
  BY <1>1, CallShape DEF TypeOK, Fates
<1>2. CASE PassBreaker(t, kind, r)
  BY <1>2, PassBreakerShape
<1> QED BY <1>1, <1>2 DEF Proceed

-------------------------------------------------------------------------------
(* Every step of a turn has that shape *)

TurnStep(t) ==
    \/ \E p \in Providers, kind \in Kinds, long \in BOOLEAN : Start(t, p, kind, long)
    \/ Returns(t)
    \/ TimeOut(t)

LEMMA ActiveType ==
    ASSUME TypeOK, NEW t \in Turns, Active(t)
    PROVE  turn[t] \in CallingTurn
BY DEF TypeOK, Turn, EndedTurn, Active

LEMMA StartShape ==
    ASSUME TypeOK, NEW t \in Turns, NEW p \in Providers, NEW kind \in Kinds,
           NEW long \in BOOLEAN, Start(t, p, kind, long)
    PROVE  StepShape(t) /\ UNCHANGED up
<1>1. CASE End(t, "PROVIDER_UNAVAILABLE") /\ UNCHANGED breaker
  BY <1>1, EndShape DEF TypeOK, Fates, Outcomes, Start
<1>2. CASE Call(t, "compressing", kind, p, 0) /\ UNCHANGED breaker
  BY <1>2, CallShape DEF TypeOK, Fates, Start
<1>3. CASE Proceed(t, kind, p)
  BY <1>3, ProceedShape DEF Start
<1> QED BY <1>1, <1>2, <1>3 DEF Start

LEMMA ReturnsShape ==
    ASSUME TypeOK, NEW t \in Turns, Returns(t)
    PROVE  StepShape(t) /\ UNCHANGED up
<1>1. turn[t] \in CallingTurn
  BY ActiveType
     DEF Returns, Active, CompressReturns, CallSucceeds, CallFails, ModelReturns,
         ChainSucceeds, ChainFails, StreamEnds
<1>2. /\ turn[t].kind \in Kinds
      /\ turn[t].provider \in Providers
      /\ turn[t].pos \in Nat
  BY <1>1 DEF CallingTurn
<1>3. CASE CompressReturns(t)
  BY <1>2, <1>3, ProceedShape DEF CompressReturns
<1>4. ASSUME breaker' \in {SuccessRecorded(t), FailureRecorded(t), breaker}
      PROVE  /\ breaker' = [r \in Providers |-> breaker'[r]]
             /\ \A r \in Providers : breaker'[r] \in Fates(breaker[r])
  BY <1>2, <1>4 DEF SuccessRecorded, FailureRecorded, TypeOK, Fates
<1>5. CASE CallSucceeds(t) \/ ChainSucceeds(t) \/ StreamEnds(t)
  BY <1>4, <1>5, EndShape DEF CallSucceeds, ChainSucceeds, StreamEnds, Outcomes
<1>6. ASSUME NEW error \in {"service_error", "exception"}, CallFails(t, error)
      PROVE  StepShape(t) /\ UNCHANGED up
  BY <1>2, <1>4, <1>6, EndShape, CallShape DEF CallFails, Outcomes
<1>7. ASSUME NEW error \in {"service_error", "exception"}, ModelReturns(t, error)
      PROVE  StepShape(t) /\ UNCHANGED up
  BY <1>2, <1>4, <1>7, EndShape, CallShape DEF ModelReturns, Outcomes
<1>8. ASSUME NEW error \in {"service_error", "exception"}, ChainFails(t, error)
      PROVE  StepShape(t) /\ UNCHANGED up
  <2>1. CASE End(t, "SERVICE_ERROR") /\ UNCHANGED breaker
    BY <1>4, <1>8, <2>1, EndShape DEF ChainFails, Outcomes
  <2>2. CASE TryChain(t, turn[t].kind, turn[t].pos + 1, FailureRecorded(t))
    <3>1. /\ FailureRecorded(t) \in [Providers -> CircuitState]
          /\ \A r \in Providers :
                FailureRecorded(t)[r] \in {breaker[r], RecordFailure(breaker[r])}
      BY <1>2, CircuitTypes DEF FailureRecorded, TypeOK
    <3>2. turn[t].pos + 1 \in Nat \ {0}
      BY <1>2
    <3> QED BY <1>2, <1>8, <2>2, <3>1, <3>2, ChainShape DEF ChainFails
  <2> QED BY <1>8, <2>1, <2>2 DEF ChainFails
<1> QED BY <1>3, <1>5, <1>6, <1>7, <1>8 DEF Returns

LEMMA TurnStepShape ==
    ASSUME TypeOK, NEW t \in Turns, TurnStep(t)
    PROVE  StepShape(t) /\ UNCHANGED up
<1>1. CASE TimeOut(t)
  BY <1>1, EndShape DEF TimeOut, TypeOK, Fates, Outcomes
<1> QED BY <1>1, StartShape, ReturnsShape DEF TurnStep

-------------------------------------------------------------------------------
(* The theorems *)

\* Every step is a step of one turn, a tick, or a provider going up or down.
LEMMA NextCases ==
    ASSUME [Next]_vars
    PROVE  \/ \E t \in Turns : TurnStep(t)
           \/ Tick
           \/ UNCHANGED <<breaker, turn>> /\ \E r \in Providers : Flip(r)
           \/ UNCHANGED vars
BY DEF Next, TurnStep, Flip

LEMMA TypeStep == TypeOK /\ [Next]_vars => TypeOK'
<1> SUFFICES ASSUME TypeOK, [Next]_vars PROVE TypeOK'
  OBVIOUS
<1>1. ASSUME NEW t \in Turns, TurnStep(t) PROVE TypeOK'
  <2>1. StepShape(t) /\ UNCHANGED up
    BY <1>1, TurnStepShape
  <2>2. breaker' \in [Providers -> CircuitState]
    BY <2>1, FatesType DEF StepShape, TypeOK
  <2>3. turn' \in [Turns -> Turn]
    BY <2>1 DEF StepShape, TypeOK
  <2> QED BY <2>1, <2>2, <2>3 DEF TypeOK
<1>2. CASE Tick
  <2>1. breaker' \in [Providers -> CircuitState]
    BY <1>2, CircuitTypes DEF Tick, TypeOK
  <2>2. ASSUME NEW t \in Turns, Gated(t), turn[t].waited < ResetTimeout
        PROVE  [turn[t] EXCEPT !.waited = @ + 1] \in Turn
    <3>1. turn[t] \in CallingTurn
      BY <2>2, ActiveType DEF Gated, Active
    <3>2. turn[t].waited + 1 \in 0..ResetTimeout
      BY <2>2, <3>1, BreakerAssumption DEF CallingTurn
    <3> QED BY <3>1, <3>2 DEF CallingTurn, Turn
  <2>3. turn' \in [Turns -> Turn]
    BY <1>2, <2>2 DEF Tick, TypeOK
  <2> QED BY <1>2, <2>1, <2>3 DEF Tick, TypeOK
<1>3. CASE \E r \in Providers : Flip(r)
  BY <1>3 DEF Flip, TypeOK
<1>4. CASE UNCHANGED vars
  BY <1>4 DEF vars, TypeOK
<1> QED BY <1>1, <1>2, <1>3, <1>4, NextCases

LEMMA TypeInit == Init => TypeOK
<1> SUFFICES ASSUME Init PROVE TypeOK
  OBVIOUS
<1>1. Ended("none") \in Turn
  BY EndedType DEF Outcomes
<1> QED BY <1>1, NewCircuitType DEF Init, TypeOK

\* Every reachable state has its type, for any number of turns and providers.
THEOREM TypeCorrect == Spec => []TypeOK
BY TypeInit, TypeStep, PTL DEF Spec

\* The circuits are sound and an open one is quiet: with the types, inductive.
IInv ==
    /\ TypeOK
    /\ \A r \in Providers : Sound(breaker[r])
    /\ OpenIsQuiet

\* A circuit that is open after one of its fates has just opened, its clock at
\* zero, or was open already and its clock has not moved.
LEMMA FatesClock ==
    ASSUME NEW c \in CircuitState, NEW d \in Fates(c), d.state = "OPEN"
    PROVE  d.elapsed = 0 \/ (c.state = "OPEN" /\ d.elapsed = c.elapsed)
<1>1. RecordFailure(c).state = "OPEN" =>
        \/ RecordFailure(c).elapsed = 0
        \/ c.state = "OPEN" /\ RecordFailure(c).elapsed = c.elapsed
  BY DEF RecordFailure, Trips, CircuitState, CircuitStates
<1>2. \A e \in CircuitState : Asked(e).elapsed = e.elapsed
        /\ (Asked(e).state = "OPEN" => e.state = "OPEN")
  BY DEF Asked, CircuitState
<1>3. RecordSuccess(c).elapsed = c.elapsed
        /\ (RecordSuccess(c).state = "OPEN" => c.state = "OPEN")
  BY DEF RecordSuccess
<1> QED BY <1>1, <1>2, <1>3, CircuitTypes DEF Fates

LEMMA QuietStep == IInv /\ [Next]_vars => OpenIsQuiet'
<1> SUFFICES ASSUME IInv, [Next]_vars, NEW u \in Turns, Gated(u)',
                    breaker'[turn'[u].provider].state = "OPEN"
             PROVE  turn'[u].waited >= breaker'[turn'[u].provider].elapsed
  BY DEF OpenIsQuiet
<1> DEFINE r == turn'[u].provider
<1>1. TypeOK /\ TypeOK'
  BY TypeStep DEF IInv
<1>2. r \in Providers
  BY <1>1 DEF TypeOK, Turn, CallingTurn, EndedTurn, Gated
<1>3. breaker[r] \in CircuitState /\ breaker'[r] \in CircuitState
  BY <1>1, <1>2 DEF TypeOK
<1>4. ASSUME NEW t \in Turns, TurnStep(t)
      PROVE  turn'[u].waited >= breaker'[r].elapsed
  <2>1. StepShape(t)
    BY <1>1, <1>4, TurnStepShape
  <2>2. u # t
    BY <1>1, <2>1 DEF StepShape, Gated, TypeOK
  <2>3. turn'[u] = turn[u] /\ Gated(u)
    BY <1>1, <2>1, <2>2 DEF StepShape, Gated, TypeOK
  <2>4. turn[u].waited \in Nat
    BY <1>1, <2>3, ActiveType, BreakerAssumption DEF Gated, Active, CallingTurn
  <2>5. breaker'[r].elapsed = 0
          \/ (breaker[r].state = "OPEN" /\ breaker'[r].elapsed = breaker[r].elapsed)
    BY <1>2, <1>3, <2>1, FatesClock DEF StepShape
  <2> QED BY <2>3, <2>4, <2>5 DEF IInv, OpenIsQuiet
<1>5. CASE Tick
  <2>1. breaker'[r] = Older(breaker[r])
    BY <1>2, <1>5 DEF Tick
  <2>2. Gated(u) /\ r = turn[u].provider
    BY <1>1, <1>5 DEF Tick, Gated, TypeOK
  <2>3. turn[u] \in CallingTurn
    BY <1>1, <2>2, ActiveType DEF Gated, Active
  <2>4. turn'[u].waited = IF turn[u].waited < ResetTimeout
                          THEN turn[u].waited + 1 ELSE turn[u].waited
    BY <1>5, <2>2, <2>3 DEF Tick, CallingTurn
  <2>5. breaker[r].state = "OPEN"
    BY <1>3, <2>1 DEF Older, CircuitState
  <2>6. turn[u].waited >= breaker[r].elapsed
    BY <2>2, <2>5 DEF IInv, OpenIsQuiet
  <2>7. breaker'[r].elapsed = IF breaker[r].elapsed < ResetTimeout
                              THEN breaker[r].elapsed + 1 ELSE breaker[r].elapsed
    BY <1>3, <2>1 DEF Older, CircuitState
  <2> QED BY <1>3, <2>3, <2>4, <2>6, <2>7, BreakerAssumption
          DEF CircuitState, CallingTurn
<1>6. CASE UNCHANGED <<breaker, turn>>
  BY <1>6 DEF IInv, OpenIsQuiet, Gated
<1> QED BY <1>4, <1>5, <1>6, NextCases DEF vars

LEMMA SoundStep ==
    IInv /\ [Next]_vars => \A r \in Providers : Sound(breaker'[r])
<1> SUFFICES ASSUME IInv, [Next]_vars, NEW r \in Providers
             PROVE  Sound(breaker'[r])
  OBVIOUS
<1>1. breaker[r] \in CircuitState /\ Sound(breaker[r])
  BY DEF IInv, TypeOK
<1>2. ASSUME NEW t \in Turns, TurnStep(t) PROVE Sound(breaker'[r])
  BY <1>1, <1>2, TurnStepShape, FatesSound DEF IInv, StepShape
<1>3. CASE Tick
  BY <1>1, <1>3, CircuitSound DEF Tick
<1> QED BY <1>1, <1>2, <1>3, NextCases DEF vars

LEMMA Invariance == Spec => []IInv
<1>1. Init => IInv
  <2> SUFFICES ASSUME Init PROVE IInv
    OBVIOUS
  <2> QED BY TypeInit, NewCircuitSound DEF Init, IInv, OpenIsQuiet, Gated, Ended
<1>2. IInv /\ [Next]_vars => IInv'
  BY TypeStep, SoundStep, QuietStep DEF IInv
<1> QED BY <1>1, <1>2, PTL DEF Spec

\* A closed circuit is below its threshold.
THEOREM ClosedBelowThreshold == Spec => []BelowThreshold
<1>1. IInv => BelowThreshold
  BY DEF IInv, BelowThreshold, Sound
<1> QED BY <1>1, Invariance, PTL

\* An opening lasts the whole reset timeout.
THEOREM OpeningsRestFully == Spec => []FullRest
<1>1. IInv => FullRest
  BY DEF IInv, FullRest, Sound
<1> QED BY <1>1, Invariance, PTL

\* Behind an open circuit there is no admitted call younger than the opening.
THEOREM OpenCircuitsAreQuiet == Spec => []OpenIsQuiet
<1>1. IInv => OpenIsQuiet
  BY DEF IInv
<1> QED BY <1>1, Invariance, PTL

-------------------------------------------------------------------------------
(* The breakers implement BreakerLifecycle *)

\* Each fate of a sound circuit is one move of the abstract circuit, or none.
LEMMA FatesMove ==
    ASSUME NEW c \in CircuitState, NEW d \in Fates(c)
    PROVE  \/ d.state = c.state /\ d.elapsed = c.elapsed
           \/ c.state \in {"CLOSED", "HALF_OPEN"} /\ d.state = "OPEN" /\ d.elapsed = 0
           \/ /\ c.state = "OPEN" /\ c.elapsed = ResetTimeout
              /\ d.state = "HALF_OPEN" /\ d.elapsed = c.elapsed
           \/ c.state = "HALF_OPEN" /\ d.state = "CLOSED" /\ d.elapsed = c.elapsed
<1> USE BreakerAssumption DEF CircuitState, CircuitStates
<1>1. CASE d = Asked(c)
  BY <1>1 DEF Asked, Allows
<1>2. CASE d = RecordSuccess(c)
  BY <1>2 DEF RecordSuccess
<1>3. CASE d = RecordFailure(c)
  BY <1>3 DEF RecordFailure, Trips
<1>4. CASE d = Asked(RecordFailure(c))
  BY <1>4 DEF Asked, Allows, RecordFailure, Trips
<1> QED BY <1>1, <1>2, <1>3, <1>4 DEF Fates

\* The concurrent turns, their fallbacks and their timeouts included, drive the
\* circuits only as BreakerLifecycle allows.
THEOREM TurnsImplementLifecycle == Spec => ImplementsLifecycle
<1>1. Init => Lifecycle!Init
  BY DEF Init, NewCircuit, Lifecycle!Init
<1>2. TypeOK /\ [Next]_vars => [Lifecycle!Next]_(Lifecycle!lifeVars)
  <2> SUFFICES ASSUME TypeOK, [Next]_vars
               PROVE  [Lifecycle!Next]_(Lifecycle!lifeVars)
    OBVIOUS
  <2>1. TypeOK'
    BY TypeStep
  <2>2. ASSUME NEW t \in Turns, TurnStep(t) PROVE Lifecycle!Move
    <3>1. ASSUME NEW r \in Providers
          PROVE  \/ Lifecycle!Open(r) \/ Lifecycle!Probe(r)
                 \/ Lifecycle!Close(r) \/ Lifecycle!Keep(r)
      <4>1. breaker[r] \in CircuitState /\ breaker'[r] \in Fates(breaker[r])
        BY <2>2, TurnStepShape DEF StepShape, TypeOK
      <4> QED BY <4>1, FatesMove
              DEF Lifecycle!Open, Lifecycle!Probe, Lifecycle!Close, Lifecycle!Keep
    <3>2. /\ [r \in Providers |-> breaker[r].state]'
               \in [Providers -> {"CLOSED", "OPEN", "HALF_OPEN"}]
          /\ [r \in Providers |-> breaker[r].elapsed]'
               \in [Providers -> 0..ResetTimeout]
      BY <2>1 DEF TypeOK, CircuitState, CircuitStates
    <3> QED BY <3>1, <3>2 DEF Lifecycle!Move
  <2>3. CASE Tick
    BY <2>3 DEF Tick, Older, TypeOK, CircuitState, Lifecycle!Pass, Lifecycle!Next
  <2>4. CASE UNCHANGED breaker
    BY <2>4 DEF Lifecycle!lifeVars
  <2> QED BY <2>2, <2>3, <2>4, NextCases DEF Lifecycle!Next, vars
<1> QED BY <1>1, <1>2, TypeCorrect, PTL
        DEF Spec, ImplementsLifecycle, Lifecycle!Spec

===============================================================================
