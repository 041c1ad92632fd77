--------------------------- MODULE RequestGuards ----------------------------
(***************************************************************************)
(* What a request passes before a handler has it: the route table of       *)
(* apps/api/app/main.py, read in the order of its declarations, and the    *)
(* sliding window of apps/api/rate_limit.py, a deque that the threads of   *)
(* the pool share without a lock. One key (scope and address).             *)
(***************************************************************************)
EXTENDS Naturals, FiniteSets, Sequences

CONSTANTS
    Limit,          \* requests a window admits
    Window,         \* its length
    RequestPools,   \* pools of threads to try
    MaxClock        \* bound on the clock

VARIABLES
    clock,
    bucket,     \* the deque: times of admitted requests
    admitted,   \* times of all requests ever admitted
    requests,   \* thread -> the request it guards
    routed      \* the last request dispatched and its handler

guardVars == <<clock, bucket, admitted, requests, routed>>

NoRequest == [op |-> "none"]
Guarded(c, state) == requests' = [requests EXCEPT ![c] = state]

-----------------------------------------------------------------------------
(* Routes *)

Param == "{}"
Route(method, path, handler) == [method |-> method, path |-> path, handler |-> handler]

\* The declarations of the analysis and company routes, in their order; the
\* routes of routers_extra.py come last.
RouteTable ==
    <<Route("GET",  <<"metrics">>, "metrics"),
      Route("GET",  <<"companies", Param>>, "get_company"),
      Route("POST", <<"analyze">>, "analyze"),
      Route("POST", <<"analyze", "pipeline">>, "analyze_pipeline"),
      Route("POST", <<"analyze", "pipeline", "async">>, "analyze_pipeline_async"),
      Route("GET",  <<"analyze", "pipeline", Param>>, "analyze_pipeline_status"),
      Route("GET",  <<"analyze", "pipeline", "stream">>, "analyze_pipeline_stream"),
      Route("GET",  <<"companies", Param, "graph">>, "company_graph"),
      Route("GET",  <<"reports", Param>>, "get_report"),
      Route("GET",  <<"reports", Param, "markdown">>, "get_report_markdown"),
      Route("POST", <<"workflows", Param, "advance">>, "workflow_advance"),
      Route("POST", <<"workflows", Param, "review">>, "workflow_review"),
      Route("GET",  <<"metrics">>, "metrics_prometheus"),
      Route("GET",  <<"companies", Param, "contagion">>, "company_contagion")>>

\* Starlette: a parameter stands for any one segment, and the first route that
\* fits has the request.
Fits(route, request) ==
    /\ route.method = request.method /\ Len(route.path) = Len(request.path)
    /\ \A i \in DOMAIN route.path : route.path[i] \in {Param, request.path[i]}

Handler(request) ==
    LET fitting == {i \in DOMAIN RouteTable : Fits(RouteTable[i], request)}
    IN  IF fitting = {} THEN "not found"
        ELSE RouteTable[CHOOSE i \in fitting : \A j \in fitting : i <= j].handler

\* What clients ask for: each route, with an id for its parameters.
Asked == {[method |-> RouteTable[i].method, meant |-> RouteTable[i].handler,
           path |-> [k \in DOMAIN RouteTable[i].path |->
                        IF RouteTable[i].path[k] = Param THEN "id-1" ELSE RouteTable[i].path[k]]] : i \in DOMAIN RouteTable}

-----------------------------------------------------------------------------
(* The sliding window *)

GuardInit ==
    /\ clock = 0 /\ bucket = <<>> /\ admitted = <<>>
    /\ \E pool \in RequestPools : requests = [c \in pool |-> NoRequest]
    /\ routed = [meant |-> "none", handler |-> "none"]

Dispatch(c) ==
    /\ requests[c] = NoRequest
    /\ \E request \in Asked : routed' = [meant |-> request.meant, handler |-> Handler(request)]
    /\ UNCHANGED <<clock, bucket, admitted, requests>>

\* rate_limit: the time is taken first.
EnterLimit(c) ==
    /\ requests[c] = NoRequest
    /\ Guarded(c, [op |-> "sweep", now |-> clock])
    /\ UNCHANGED <<clock, bucket, admitted, routed>>

Expired(stamp, now) == stamp + Window <= now

\* _sweep: an entry that is seen to be old ...
SweepLooks(c) ==
    /\ requests[c].op = "sweep"
    /\ IF bucket # <<>> /\ Expired(Head(bucket), requests[c].now)
       THEN Guarded(c, [requests[c] EXCEPT !.op = "pop"])
       ELSE Guarded(c, IF Len(bucket) >= Limit THEN NoRequest ELSE [requests[c] EXCEPT !.op = "append"])
    /\ UNCHANGED <<clock, bucket, admitted, routed>>

\* ... is taken out, if it is still the first: another thread may have taken it,
\* and an empty deque raises.
SweepPops(c) ==
    /\ requests[c].op = "pop"
    /\ IF bucket = <<>> THEN UNCHANGED bucket /\ Guarded(c, NoRequest)
       ELSE bucket' = Tail(bucket) /\ Guarded(c, [requests[c] EXCEPT !.op = "sweep"])
    /\ UNCHANGED <<clock, admitted, routed>>

AdmitRequest(c) ==
    /\ requests[c].op = "append"
    /\ bucket' = Append(bucket, requests[c].now)
    /\ admitted' = Append(admitted, requests[c].now)
    /\ Guarded(c, NoRequest)
    /\ UNCHANGED <<clock, routed>>

TickClock == clock < MaxClock /\ clock' = clock + 1 /\ UNCHANGED <<bucket, admitted, requests, routed>>

GuardNext ==
    \/ \E c \in DOMAIN requests : \/ Dispatch(c) \/ EnterLimit(c)
                                  \/ SweepLooks(c) \/ SweepPops(c) \/ AdmitRequest(c)
    \/ TickClock

GuardSpec == GuardInit /\ [][GuardNext]_guardVars

-----------------------------------------------------------------------------
(* Properties *)

InWindow(t) == {i \in DOMAIN admitted : admitted[i] <= t /\ t < admitted[i] + Window}

\* With one handler thread no window of time, wherever it begins, has more
\* requests admitted than the limit.
WindowHolds ==
    Cardinality(DOMAIN requests) = 1 => \A t \in 0..clock : Cardinality(InWindow(t)) <= Limit

\* The same for any number of threads: several pass the length check before the
\* first appends, and one may sweep away what another has just admitted.
WindowAlwaysHolds == \A t \in 0..clock : Cardinality(InWindow(t)) <= Limit

\* A client that asks for a route gets the handler declared for it. The stream
\* of the pipeline is declared after the status of a workflow by its id, which
\* takes "stream" for an id.
StreamIsServed ==
    routed.meant = "analyze_pipeline_stream" => routed.handler = "analyze_pipeline_stream"

=============================================================================
