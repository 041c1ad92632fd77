--------------------------- MODULE ToolGovernance ---------------------------
(***************************************************************************)
(* The tools of the analysis behind their registry (tools/registry.py,     *)
(* tools/permissions.py, tools/sandbox.py, tools/builtins.py): a scope     *)
(* check, then a circuit breaker or a child process that is killed when it *)
(* takes too long. The breakers by name are tools/circuit.py get_breaker.  *)
(***************************************************************************)
EXTENDS Naturals, FiniteSets, Sequences

CONSTANTS
    ToolCallers,        \* threads that call tools
    FailureThreshold,   \* failures in a row that open a breaker
    SuccessThreshold,   \* successes that close a half open one
    MaxToolCalls,       \* bound on the calls each thread makes
    MaxOpened           \* bound on the breakers of a name

VARIABLES
    breakers,   \* CircuitBreaker objects, in the order they were made
    named,      \* _BREAKERS: tool -> index of its object
    toolCalls,  \* caller -> the call it makes, or the outcome of its last one
    children,   \* caller -> the child process of its call
    made        \* caller -> calls made

toolVars == <<breakers, named, toolCalls, children, made>>

Role == {"viewer", "analyst", "reviewer", "admin"}
Scope == {"data:read", "data:write", "tool:call", "review:approve", "review:reject",
          "rules:manage", "companies:manage", "reports:export", "admin"}
ROLE_SCOPES ==
    [viewer   |-> {"data:read"},
     analyst  |-> {"data:read", "data:write", "tool:call", "reports:export"},
     reviewer |-> {"data:read", "review:approve", "review:reject"},
     admin    |-> Scope]

\* register_default_tools.
Tools ==
    [rag     |-> [scope |-> "data:read", sandbox |-> FALSE],
     fetch   |-> [scope |-> "tool:call", sandbox |-> TRUE],
     vision  |-> [scope |-> "data:read", sandbox |-> TRUE]]

Quiet == [op |-> "done", result |-> "none", returned |-> FALSE]
Ended(result, returned) == [op |-> "done", result |-> result, returned |-> returned]
NoChild == [state |-> "gone"]
Goes(c, call) == toolCalls' = [toolCalls EXCEPT ![c] = call]
Registered(c) == Tools[toolCalls[c].tool]

ToolInit ==
    /\ breakers = <<>> /\ named = [t \in {} |-> 0]
    /\ toolCalls = [c \in ToolCallers |-> Quiet]
    /\ children = [c \in ToolCallers |-> NoChild]
    /\ made = [c \in ToolCallers |-> 0]

\* ToolRegistry.call up to the breaker: unknown tools and missing scopes end
\* here, as results.
CallTool(c) ==
    /\ toolCalls[c].op = "done" /\ made[c] < MaxToolCalls
    /\ made' = [made EXCEPT ![c] = @ + 1]
    /\ \E tool \in DOMAIN Tools \cup {"unregistered"}, role \in Role :
         Goes(c, IF tool = "unregistered" THEN Ended("tool_missing", FALSE)
                 ELSE IF Tools[tool].scope \notin ROLE_SCOPES[role] THEN Ended("denied", FALSE)
                 ELSE [op |-> "lookup", tool |-> tool])
    /\ UNCHANGED <<breakers, named, children>>

\* get_breaker: the look-up ...
LookUpBreaker(c) ==
    /\ toolCalls[c].op = "lookup"
    /\ LET tool == toolCalls[c].tool
       IN  Goes(c, [op |-> IF tool \in DOMAIN named THEN "start" ELSE "make", tool |-> tool,
                    breaker |-> IF tool \in DOMAIN named THEN named[tool] ELSE 0])
    /\ UNCHANGED <<breakers, named, children, made>>

\* ... and the object made when there was none: the last one made has the name.
MakeBreaker(c) ==
    /\ toolCalls[c].op = "make"
    /\ Len(SelectSeq(breakers, LAMBDA b : b.tool = toolCalls[c].tool)) < MaxOpened
    /\ breakers' = Append(breakers, [tool |-> toolCalls[c].tool, state |-> "closed", failures |-> 0, successes |-> 0])
    /\ named' = [t \in DOMAIN named \cup {toolCalls[c].tool} |->
                    IF t = toolCalls[c].tool THEN Len(breakers) + 1 ELSE named[t]]
    /\ Goes(c, [toolCalls[c] EXCEPT !.op = "start", !.breaker = Len(breakers) + 1])
    /\ UNCHANGED <<children, made>>

-----------------------------------------------------------------------------
(* Without a sandbox: CircuitBreaker.call *)

StartDirect(c) ==
    /\ toolCalls[c].op = "start" /\ ~Registered(c).sandbox
    /\ Goes(c, IF breakers[toolCalls[c].breaker].state = "open" THEN Ended("circuit_open", FALSE)
               ELSE [toolCalls[c] EXCEPT !.op = "running"])
    /\ UNCHANGED <<breakers, named, children, made>>

_on_failure(b) ==
    IF b.state = "half_open" \/ b.failures + 1 >= FailureThreshold
    THEN [b EXCEPT !.state = "open", !.failures = 0, !.successes = 0]
    ELSE [b EXCEPT !.failures = @ + 1]

_on_success(b) ==
    IF b.state # "half_open" THEN [b EXCEPT !.failures = 0]
    ELSE IF b.successes + 1 >= SuccessThreshold
         THEN [b EXCEPT !.state = "closed", !.failures = 0, !.successes = 0]
         ELSE [b EXCEPT !.successes = @ + 1]

EndDirect(c) ==
    /\ toolCalls[c].op = "running" /\ ~Registered(c).sandbox
    /\ \E returns \in BOOLEAN :
         /\ breakers' = [breakers EXCEPT ![toolCalls[c].breaker] = IF returns THEN _on_success(@) ELSE _on_failure(@)]
         /\ Goes(c, Ended(IF returns THEN "ok" ELSE "tool_error", returns))
    /\ UNCHANGED <<named, children, made>>

\* The cool-down of an open breaker is over; the next call finds it half open.
CoolDown(i) ==
    /\ breakers[i].state = "open"
    /\ breakers' = [breakers EXCEPT ![i].state = "half_open", ![i].successes = 0]
    /\ UNCHANGED <<named, toolCalls, children, made>>

-----------------------------------------------------------------------------
(* In a sandbox: run_in_sandbox *)

StartSandbox(c) ==
    /\ toolCalls[c].op = "start" /\ Registered(c).sandbox
    /\ children' = [children EXCEPT ![c] = [state |-> "running", queue |-> "empty"]]
    /\ Goes(c, [toolCalls[c] EXCEPT !.op = "running"])
    /\ UNCHANGED <<breakers, named, made>>

\* The child returns, raises or dies. A process does not exit before the other
\* side has read what it queued, beyond what a pipe holds.
ChildEnds(c) ==
    /\ children[c].state = "running"
    /\ \E queue \in {"value", "error", "empty"}, large \in BOOLEAN :
         /\ large => queue # "empty"
         /\ children' = [children EXCEPT ![c] = [state |-> IF large THEN "flushing" ELSE "exited", queue |-> queue]]
    /\ UNCHANGED <<breakers, named, toolCalls, made>>

\* The system kills the child while it writes: part of the message is in the pipe.
Torn == [state |-> "exited", queue |-> "torn"]

ChildDies(c) ==
    /\ children[c].state = "flushing"
    /\ children' = [children EXCEPT ![c] = Torn]
    /\ UNCHANGED <<breakers, named, toolCalls, made>>

\* mutant
KillChild_patient(c) ==
    /\ toolCalls[c].op = "running" /\ children[c].state = "running"
    /\ Goes(c, Ended("sandbox_timeout", FALSE))
    /\ children' = [children EXCEPT ![c] = NoChild]
    /\ UNCHANGED <<breakers, named, made>>

\* join timed out: terminate, kill, join.
KillChild(c) ==
    /\ toolCalls[c].op = "running" /\ children[c].state \in {"running", "flushing"}
    /\ Goes(c, Ended("sandbox_timeout", children[c].state = "flushing" /\ children[c].queue = "value"))
    /\ children' = [children EXCEPT ![c] = NoChild]
    /\ UNCHANGED <<breakers, named, made>>

\* join returned: the pair the child queued, or nothing. The time-out of get
\* is for the first byte; the rest of a torn message is waited for without one,
\* and the parent itself holds the end of the pipe that would tell it to stop.
ReadChild(c) ==
    /\ toolCalls[c].op = "running" /\ children[c].state = "exited" /\ children[c] # Torn
    /\ Goes(c, IF children[c].queue = "value" THEN Ended("ok", TRUE) ELSE Ended("sandbox_error", FALSE))
    /\ children' = [children EXCEPT ![c] = NoChild]
    /\ UNCHANGED <<breakers, named, made>>

ToolNext ==
    \/ \E c \in ToolCallers :
         \/ CallTool(c) \/ LookUpBreaker(c) \/ MakeBreaker(c)
         \/ StartDirect(c) \/ EndDirect(c)
         \/ StartSandbox(c) \/ ChildEnds(c) \/ ChildDies(c) \/ KillChild(c) \/ ReadChild(c)
    \/ \E i \in DOMAIN breakers : CoolDown(i)

\* The joins of the parent have time-outs.
ToolFairness == \A c \in ToolCallers : WF_toolVars(KillChild(c) \/ ReadChild(c))

ToolSpec == ToolInit /\ [][ToolNext]_toolVars /\ ToolFairness

-----------------------------------------------------------------------------
(* Properties *)

\* No call leaves a process behind: when a caller has its result, its child is
\* gone, whether it answered, failed, died or was killed in the middle.
NoOrphans ==
    \A c \in ToolCallers : toolCalls[c].op = "done" => children[c].state = "gone"

\* A result is marked ok exactly when the tool returned a value to this call; a
\* tool that raised or died in its child is never reported as a success.
OkMeansReturned ==
    \A c \in ToolCallers : (toolCalls[c].op = "done" /\ toolCalls[c].result = "ok") => toolCalls[c].returned

\* A child that has returned its value is believed. One whose value does not
\* fit the pipe is waited for, killed and reported as too slow.
ReturnedMeansOk ==
    \A c \in ToolCallers : (toolCalls[c].op = "done" /\ toolCalls[c].returned) => toolCalls[c].result = "ok"

\* A name has one breaker, shared by all threads. Two first calls make two.
OneBreakerPerName ==
    \A i, j \in DOMAIN breakers : breakers[i].tool = breakers[j].tool => i = j

\* The docs of the tools: remote ones are isolated and break. A sandboxed tool
\* never reaches its breaker.
SandboxedToolsBreak ==
    [][\A c \in ToolCallers :
        (toolCalls[c].op = "running" /\ toolCalls'[c].op = "done" /\ toolCalls'[c].result = "sandbox_error")
            => breakers'[toolCalls[c].breaker] # breakers[toolCalls[c].breaker]]_toolVars

\* A call into a sandbox ends although its child hangs, raises, dies without a
\* word or cannot exit before it is read; the one child it waits for without an
\* end is one that was killed in the middle of its message.
SandboxedCallsEnd ==
    \A c \in ToolCallers :
        (toolCalls[c].op = "running" /\ Registered(c).sandbox)
            ~> (toolCalls[c].op = "done" \/ children[c] = Torn)

\* "One call that hangs for ever" is what the sandbox is there to stop: every
\* call into it ends.
SandboxedCallsReturn ==
    \A c \in ToolCallers : (toolCalls[c].op = "running" /\ Registered(c).sandbox) ~> (toolCalls[c].op = "done")

=============================================================================
