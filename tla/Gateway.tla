-------------------------------- MODULE Gateway --------------------------------
(***************************************************************************)
(* The gateway to an upstream MCP server (mcp-gateway/): the workers that  *)
(* connect to an engine are offered the server's tools when their surface  *)
(* is built (registerProxyTools) and permitted them when they authenticate *)
(* (augmentCapabilityForCallTime), each from a list of its own; they share *)
(* one client, one cache of the list and one circuit breaker.              *)
(*                                                                         *)
(* One server with an allowlist, open to the workers of some projects.  A  *)
(* request is given up at any moment (withTimeout); what it waits for goes *)
(* on.  The names of the proxied tools are not modelled.                   *)
(***************************************************************************)
EXTENDS Naturals, FiniteSets

CONSTANTS
    McpWorkers,
    Admitted,                  \* the workers whose project the server's entry names
    UpstreamTools, Allowlist,
    BreakerThreshold, Cooldown, Ttl, \* the latter two in ticks
    MaxCalls, MaxFailures, MaxTicks, MaxListings \* bounds

ASSUME GatewayAssumption ==
    /\ Admitted \subseteq McpWorkers /\ Allowlist \subseteq UpstreamTools
    /\ {BreakerThreshold, Cooldown, Ttl, MaxCalls, MaxFailures, MaxTicks, MaxListings} \subseteq Nat

VARIABLES
    upstream,   \* the tools the server lists
    client,     \* [connects: calls of connect() on this instance, promise]
    listing,    \* the cache: [tools, left: ticks for which it is fresh]
    breaker,    \* [failures, left: ticks since the last one that are still to pass]
    joining,    \* worker -> what it is doing
    proxied,    \* worker -> where its request is, and the tools its answer names
    offered, permitted,  \* worker -> tools
    calls, failed, ticks, listings,  \* so far
    disturbed   \* history: workers whose connection met a failure or a turn of the breaker

gatewayVars == <<upstream, client, listing, breaker, joining, proxied, offered, permitted, calls,
                 failed, ticks, listings, disturbed>>

NoRequest == [at |-> "none", tools |-> {}]
FreshClient == [connects |-> 0, promise |-> "none"]

GatewayInit ==
    /\ upstream = UpstreamTools /\ client = FreshClient
    /\ listing = [tools |-> {}, left |-> 0] /\ breaker = [failures |-> 0, left |-> 0]
    /\ joining = [w \in McpWorkers |-> "none"] /\ proxied = [w \in McpWorkers |-> NoRequest]
    /\ offered = [w \in McpWorkers |-> {}] /\ permitted = [w \in McpWorkers |-> {}]
    /\ calls = 0 /\ failed = 0 /\ ticks = 0 /\ listings = 1 /\ disturbed = {}

Connecting == {w \in McpWorkers : joining[w] \in {"register", "built", "augment"}}
isDegraded == breaker.failures >= BreakerThreshold /\ breaker.left > 0

Disturb(W) ==
    disturbed' = disturbed
                 \cup {w \in Connecting : w \in W \/ isDegraded' # isDegraded}

-----------------------------------------------------------------------------
(* The requests *)

\* Mutant: it is remembered that the client is connected, not that it is connecting.
Connect_Boolean ==
    client' = IF client.promise = "done" THEN client
              ELSE [connects |-> client.connects + 1, promise |-> "pending"]

\* An attempt under way is shared.
ConnectOnce ==
    client' = IF client.promise # "none" THEN client
              ELSE [connects |-> client.connects + 1, promise |-> "pending"]

Proxy(w) == ConnectOnce /\ proxied' = [proxied EXCEPT ![w] = [NoRequest EXCEPT !.at = "connect"]]

ConnectSucceeds ==
    /\ client.promise = "pending" /\ client' = [client EXCEPT !.promise = "done"]
    /\ UNCHANGED <<upstream, listing, breaker, joining, proxied, offered, permitted, calls, failed,
                   ticks, listings, disturbed>>

\* What a worker is offered comes first, then what it is permitted.
Take(w, stage, tools) ==
    \/ /\ stage = "register" /\ joining' = [joining EXCEPT ![w] = "built"]
       /\ offered' = [offered EXCEPT ![w] = tools] /\ UNCHANGED permitted
    \/ /\ stage = "augment" /\ joining' = [joining EXCEPT ![w] = "session"]
       /\ permitted' = [permitted EXCEPT ![w] = tools] /\ UNCHANGED offered

Entitled(w) == w \in Admitted

\* The cached list is taken as long as it is fresh; a server that is degraded is left out.
Introspect(w, stage) ==
    /\ IF ~Entitled(w) \/ isDegraded THEN Take(w, stage, {}) /\ UNCHANGED <<client, proxied>>
       ELSE IF listing.left > 0
            THEN Take(w, stage, listing.tools) /\ UNCHANGED <<client, proxied>>
            ELSE /\ joining' = [joining EXCEPT ![w] = stage] /\ Proxy(w)
                 /\ UNCHANGED <<offered, permitted>>
    /\ UNCHANGED <<upstream, listing, breaker, calls, failed, ticks, listings, disturbed>>

\* The surface of a worker's connection is built before the worker authenticates.
RegisterProxyTools(w) == joining[w] = "none" /\ Introspect(w, "register")
AugmentCapability(w) == joining[w] = "built" /\ Introspect(w, "augment")

\* The interceptor lets a call through to a tool that is permitted.
CallTool(w) ==
    /\ joining[w] = "session" /\ calls < MaxCalls
    /\ offered[w] \cap permitted[w] # {}
    /\ calls' = calls + 1 /\ joining' = [joining EXCEPT ![w] = "call"] /\ Proxy(w)
    /\ UNCHANGED <<upstream, listing, breaker, offered, permitted, failed, ticks, listings,
                   disturbed>>

\* The server answers a request sent over the connection; the answer is on its way.
ServerAnswers(w) ==
    /\ proxied[w].at = "connect" /\ client.promise = "done"
    /\ proxied' = [proxied EXCEPT ![w] = [at |-> "answered", tools |-> upstream]]
    /\ UNCHANGED <<upstream, client, listing, breaker, joining, offered, permitted, calls, failed,
                   ticks, listings, disturbed>>

ListArrives(w) ==
    LET filtered == proxied[w].tools \cap Allowlist IN
    /\ proxied[w].at = "answered" /\ joining[w] # "call"
    /\ proxied' = [proxied EXCEPT ![w] = NoRequest]
    /\ listing' = [tools |-> filtered, left |-> Ttl]
    /\ Take(w, joining[w], filtered)
    /\ UNCHANGED <<upstream, client, breaker, calls, failed, ticks, listings, disturbed>>

RecordSuccess(w) ==
    /\ proxied[w].at = "answered" /\ joining[w] = "call"
    /\ proxied' = [proxied EXCEPT ![w] = NoRequest] /\ joining' = [joining EXCEPT ![w] = "session"]
    /\ breaker' = [breaker EXCEPT !.failures = 0]
    /\ Disturb({})
    /\ UNCHANGED <<upstream, client, listing, offered, permitted, calls, failed, ticks, listings>>

-----------------------------------------------------------------------------
(* Failures *)

\* Calls count towards the breaker, lists do not.
Fail(W) ==
    LET callers == Cardinality({w \in W : joining[w] = "call"}) IN
    /\ failed < MaxFailures /\ failed' = failed + 1
    /\ proxied' = [w \in McpWorkers |-> IF w \in W THEN NoRequest ELSE proxied[w]]
    /\ joining' = [w \in McpWorkers |-> IF w \notin W THEN joining[w]
                                   ELSE IF joining[w] = "register" THEN "built" ELSE "session"]
    /\ breaker' = IF callers = 0 THEN breaker
                  ELSE [failures |-> breaker.failures + callers, left |-> Cooldown]
    /\ Disturb(W)
    /\ UNCHANGED <<upstream, listing, offered, permitted, calls, ticks, listings>>

\* A request times out or is refused; the connection stays as it is.
RequestFails(w) == proxied[w].at # "none" /\ Fail({w}) /\ UNCHANGED client

\* Everybody who waits for the connection fails with it, and the client is made anew.
ConnectFails ==
    /\ client.promise = "pending" /\ client' = FreshClient
    /\ Fail({w \in McpWorkers : proxied[w].at = "connect"})

\* The worker's project is read for each of its lists; one whose project is not known gets none.
ProjectUnknown(w) ==
    /\ failed < MaxFailures /\ failed' = failed + 1
    /\ \/ joining[w] = "none" /\ Take(w, "register", {})
       \/ joining[w] = "built" /\ Take(w, "augment", {})
    /\ disturbed' = disturbed \cup {w}
    /\ UNCHANGED <<upstream, client, listing, breaker, proxied, calls, ticks, listings>>

UpstreamChanges ==
    /\ listings < MaxListings /\ listings' = listings + 1
    /\ upstream' \in SUBSET UpstreamTools
    /\ UNCHANGED <<client, listing, breaker, joining, proxied, offered, permitted, calls, failed,
                   ticks, disturbed>>

Lapsed(left) == IF left = 0 THEN 0 ELSE left - 1

Lapse ==
    /\ ticks < MaxTicks /\ ticks' = ticks + 1
    /\ listing' = [listing EXCEPT !.left = Lapsed(@)]
    /\ breaker' = [breaker EXCEPT !.left = Lapsed(@)]
    /\ Disturb({})
    /\ UNCHANGED <<upstream, client, joining, proxied, offered, permitted, calls, failed, listings>>

GatewayNext ==
    \/ ConnectSucceeds \/ ConnectFails \/ UpstreamChanges \/ Lapse
    \/ \E w \in McpWorkers :
          \/ RegisterProxyTools(w) \/ AugmentCapability(w) \/ ProjectUnknown(w)
          \/ CallTool(w) \/ ServerAnswers(w) \/ ListArrives(w) \/ RecordSuccess(w) \/ RequestFails(w)

-----------------------------------------------------------------------------
\* A client is connected once: an instance on which connect() was called, with whatever success,
\* is never connected again (gateway.ts:35-47).
ConnectedOnce == client.connects <= 1

\* What a worker is offered it is permitted, and the other way round, though the two lists are
\* asked for at different times (mcp-server.ts:1087), as long as the server's list stays the same
\* and neither a failure nor the end of a cooldown comes in between; nobody gets a tool beyond the
\* allowlist or one of a server that its project may not use.
OfferedIsPermitted ==
    \A w \in McpWorkers :
        /\ offered[w] \cup permitted[w] \subseteq IF w \in Admitted THEN Allowlist ELSE {}
        /\ joining[w] \in {"session", "call"} /\ w \notin disturbed /\ listings = 1 =>
              offered[w] = permitted[w]

GatewayIsShared == ConnectedOnce /\ OfferedIsPermitted
================================================================================
