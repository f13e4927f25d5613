---------------------------------- MODULE Tools ----------------------------------
(***************************************************************************)
(* Tool calls over REST: the handlers of tools/router.py, the approval     *)
(* gate (tools/approval.py) and the executor (tools/executor.py).          *)
(***************************************************************************)
EXTENDS Naturals, Sequences, FiniteSets

CONSTANTS
    ToolNames,      \* names clients ask for
    Handled,     \* the names with a handler
    Dangerous,      \* tool_approval_required_tools
    Tokens,         \* approval tokens; 16 random bytes, never used twice
    Callers,        \* slots for concurrent requests; a slot is used again
    ApprovalTTL,    \* 300 s
    MaxCalls        \* bound: the calls of one execute-multiple

ASSUME ToolAssumption ==
    /\ Handled \subseteq ToolNames
    /\ Dangerous \subseteq ToolNames
    /\ ApprovalTTL \in Nat
    /\ MaxCalls \in Nat \ {0}

VARIABLES
    gate,       \* tool_approval_enabled
    pending,    \* pending[t]: the entry of _pending for token t
    caller,     \* caller[u]: the handler in slot u
    runs        \* observer: runs[t]: tools started for token t, up to 2

toolVars == <<gate, pending, caller, runs>>

-------------------------------------------------------------------------------
(* State *)

PastLife == ApprovalTTL + 1

Unissued == [state |-> "unissued"]
Pending == [state : {"pending"}, name : ToolNames, age : 0..PastLife]

\* `age' observes how old the token was when it was used up.
Dropped == [state : {"dropped"}, age : 0..PastLife]

\* By index, what came of the calls of a request.  A handler that raises has a
\* result too: execute turns the exception into one.  "unknown" is the
\* ServiceError for a missing handler.
Outcomes == {"todo", "running", "result", "unknown"}

\* A list in an answer keeps the order of the calls: gather does, and the loop
\* appends in turn.
NoToolCall == [kind |-> "none", calls |-> <<>>, outcome |-> <<>>]

ToolInit ==
    /\ gate \in BOOLEAN
    /\ pending = [t \in Tokens |-> Unissued]
    /\ caller = [u \in Callers |-> NoToolCall]
    /\ runs = [t \in Tokens |-> 0]

-------------------------------------------------------------------------------
(* ToolExecutor *)

\* execute, up to the handler's await.
Begun(name) == IF name \in Handled THEN "running" ELSE "unknown"

\* The calls that are started at once.
StartCalls(u, kind, calls) ==
    caller' = [caller EXCEPT ![u] =
        [kind |-> kind, calls |-> calls,
         outcome |-> [i \in DOMAIN calls |->
            IF kind = "sequential" /\ i > 1 THEN "todo" ELSE Begun(calls[i])]]]

\* A handler returns, or raises what execute turns into a dictionary.  The next
\* of sequential calls is started.
HandlerEnds(u, i) ==
    /\ i \in DOMAIN caller[u].calls
    /\ caller[u].outcome[i] = "running"
    /\ caller' = [caller EXCEPT ![u].outcome = [k \in DOMAIN @ |->
            IF k = i THEN "result"
            ELSE IF caller[u].kind = "sequential" /\ k = i + 1 THEN Begun(caller[u].calls[k])
            ELSE @[k]]]
    /\ UNCHANGED <<gate, pending, runs>>

Settled(u) ==
    \A i \in DOMAIN caller[u].calls : caller[u].outcome[i] \in {"result", "unknown"}

\* All results are there.  An unknown tool is a string among them when the
\* calls ran concurrently.
Answer(u) ==
    /\ caller[u].kind \in {"sequential", "concurrent"}
    /\ Settled(u)
    /\ caller[u].kind = "sequential" =>
            \A i \in DOMAIN caller[u].calls : caller[u].outcome[i] # "unknown"
    /\ caller' = [caller EXCEPT ![u].kind = "answered"]
    /\ UNCHANGED <<gate, pending, runs>>

\* In a sequence it ends the request with a 404; what ran before is lost.
UnknownTool(u) ==
    /\ caller[u].kind \in {"sequential", "single"}
    /\ \E i \in DOMAIN caller[u].calls : caller[u].outcome[i] = "unknown"
    /\ caller' = [caller EXCEPT ![u] = NoToolCall]
    /\ UNCHANGED <<gate, pending, runs>>

\* The answer is on its way; that to a single call too.  When /execute cannot
\* publish "executed" first, it is an error.
Sent(u) ==
    /\ \/ caller[u].kind = "answered"
       \/ caller[u].kind = "single" /\ caller[u].outcome[1] = "result"
    /\ caller' = [caller EXCEPT ![u] = NoToolCall]
    /\ UNCHANGED <<gate, pending, runs>>

-------------------------------------------------------------------------------
(* The handlers *)

Idle(u) == caller[u] = NoToolCall

\* requires_approval: a token instead of a result.  The arguments asked for
\* are not kept with it.
AskApproval(name, t) ==
    /\ gate /\ name \in Dangerous
    /\ pending[t] = Unissued
    /\ pending' = [pending EXCEPT ![t] = [state |-> "pending", name |-> name, age |-> 0]]
    /\ UNCHANGED <<gate, caller, runs>>

ExecuteTool(u, name) ==
    /\ Idle(u)
    /\ ~(gate /\ name \in Dangerous)
    /\ StartCalls(u, "single", <<name>>)
    /\ UNCHANGED <<gate, pending, runs>>

\* Mutant: the entry is looked up and stays.
Popped_Stays(t) == pending

\* The token is used up whether or not it has expired.
Popped(t) == [pending EXCEPT ![t] = [state |-> "dropped", age |-> @.age]]

\* approve, then the executor; nothing is awaited in between.  The arguments
\* are those of this request.
ApproveTool(u, t) ==
    /\ Idle(u)
    /\ pending[t].state = "pending"
    /\ pending' = Popped(t)
    /\ IF pending[t].age > ApprovalTTL
       THEN UNCHANGED <<caller, runs>>
       ELSE /\ StartCalls(u, "single", <<pending[t].name>>)
            /\ runs' = [runs EXCEPT ![t] = IF @ = 2 THEN 2 ELSE @ + 1]
    /\ UNCHANGED <<gate>>

\* execute-multiple does not ask the gate.
ExecuteMultiple(u, calls, kind) ==
    /\ Idle(u)
    /\ StartCalls(u, kind, calls)
    /\ UNCHANGED <<gate, pending, runs>>

ToolTime ==
    /\ pending' = [t \in Tokens |->
            IF pending[t].state = "pending" /\ pending[t].age < PastLife
            THEN [pending[t] EXCEPT !.age = @ + 1] ELSE pending[t]]
    /\ UNCHANGED <<gate, caller, runs>>

ToolNext ==
    \/ \E u \in Callers :
        \/ \E name \in ToolNames : ExecuteTool(u, name)
        \/ \E t \in Tokens : ApproveTool(u, t)
        \/ \E n \in 1..MaxCalls, kind \in {"sequential", "concurrent"} :
            \E calls \in [1..n -> ToolNames] : ExecuteMultiple(u, calls, kind)
        \/ \E i \in 1..MaxCalls : HandlerEnds(u, i)
        \/ Answer(u)
        \/ UnknownTool(u)
        \/ Sent(u)
    \/ \E name \in ToolNames, t \in Tokens : AskApproval(name, t)
    \/ ToolTime

ToolSpec == ToolInit /\ [][ToolNext]_toolVars

-------------------------------------------------------------------------------
(* Properties *)

Call == [kind : {"none", "single", "sequential", "concurrent", "answered"},
         calls : Seq(ToolNames), outcome : Seq(Outcomes)]

ToolTypeOK ==
    /\ gate \in BOOLEAN
    /\ pending \in [Tokens -> Pending \union Dropped \union {Unissued}]
    /\ caller \in [Callers -> Call]
    /\ runs \in [Tokens -> 0..2]

\* However approvals of one token race, its tool is started at most once, and
\* never after the token has expired.
ApprovedOnce ==
    \A t \in Tokens :
        /\ runs[t] <= 1
        /\ runs[t] = 1 => pending[t] \in Dropped /\ pending[t].age <= ApprovalTTL

===============================================================================
