------------------------------- MODULE Server -------------------------------
(***************************************************************************)
(* cmd/server and pkg/service: the life of one server process.             *)
(*                                                                         *)
(* main checks the configuration, creates and initialises the engine,      *)
(* starts two HTTP servers in goroutines (the API, and the service         *)
(* endpoint with health and metrics), waits for a signal and shuts both    *)
(* down.  One context of Limit ticks bounds both shutdowns together.  The  *)
(* goroutine of the API may end the whole process with os.Exit, and so may *)
(* main; engine.Close is deferred and runs only if main returns.           *)
(*                                                                         *)
(* External: net/http.  Shutdown closes the listener at once, waits until  *)
(* no connection is busy, looking before it looks at the context, and      *)
(* gives up when the context is done; ListenAndServe returns               *)
(* ErrServerClosed from then on.  The engine: New, Init and Close return.  *)
(***************************************************************************)
EXTENDS Naturals

CONSTANTS
    Configs,    \* configurations, as loadConfig returns them
    Requests,   \* connections to the API, each with one request
    Scrapes,    \* connections to the service endpoint
    Limit       \* the five seconds of the shutdown context, in ticks

ASSUME ServerAssumption ==
    /\ Limit \in Nat
    /\ Requests \cap Scrapes = {}
    /\ \A c \in Configs :
         {c.tlsCert, c.tlsKey, c.tlsLoads, c.cluster, c.readOnly, c.oidc, c.mcp, c.mcpSecret,
          c.secretKey, c.serviceBind} \subseteq BOOLEAN

VARIABLES
    config,     \* the configuration
    pc,         \* where main is
    signalled,  \* ctx is done: SIGINT or SIGTERM has arrived
    engine,     \* "none", "created", "ready" or "closed"
    api,        \* the API server: see ServerStates
    service,    \* the service endpoint
    conn,       \* conn[r]: what has become of connection r
    left,       \* ticks left of the shutdown context
    status      \* exit status of the process, or Alive

vars == <<config, pc, signalled, engine, api, service, conn, left, status>>

Alive == "alive"

\* "down" is a server after Shutdown, "failed" one whose listener returned an error.
ServerStates == {"none", "starting", "serving", "failed", "down"}

\* "forward" is a request that waits for the OIDC provider (refresh, revoke).
Busy == {"running", "forward"}

TypeOK ==
    /\ config \in Configs
    /\ pc \in {"load", "configure", "init", "mount", "listen", "service", "wait",
               "drain", "drainService", "close", "return", "exited"}
    /\ signalled \in BOOLEAN
    /\ engine \in {"none", "created", "ready", "closed"}
    /\ api \in ServerStates /\ service \in ServerStates
    /\ conn \in [Requests \cup Scrapes -> {"none", "answered", "cut"} \cup Busy]
    /\ left \in 0 .. Limit
    /\ status \in {Alive, "ok", "error"}
    /\ pc = "exited" <=> status # Alive

Init ==
    /\ config \in Configs
    /\ pc = "load"
    /\ signalled = FALSE
    /\ engine = "none"
    /\ api = "none" /\ service = "none"
    /\ conn = [r \in Requests \cup Scrapes |-> "none"]
    /\ left = Limit
    /\ status = Alive
-----------------------------------------------------------------------------
(* Configuration *)

TLSValid(c) == (c.tlsCert \/ c.tlsKey) => (c.tlsCert /\ c.tlsKey /\ c.tlsLoads)

ClusterValid(c) == c.cluster => c.role \in {"management", "worker"} /\ c.coreDB = "postgres"

CoreDBValid(c) == ~(c.coreDB = "memory" /\ c.readOnly)

\* main mounts the OAuth proxy.
ProxyMounted(c) == c.oidc /\ c.mcp /\ c.mcpSecret
-----------------------------------------------------------------------------
\* The process ends: os.Exit, the end of main, or a signal nobody waits for.
\* Whatever is under way is cut off.
Exit(how) ==
    /\ pc' = "exited"
    /\ status' = how
    /\ api' = "down" /\ service' = "down"
    /\ conn' = [r \in DOMAIN conn |-> IF conn[r] \in Busy THEN "cut" ELSE conn[r]]
    /\ UNCHANGED <<config, signalled, left>>

GoTo(p) == pc' = p /\ UNCHANGED <<config, signalled, status>>

\* No connection to the API, or to the service endpoint, is busy.
Quiet(connections) == \A r \in connections : conn[r] \notin Busy
-----------------------------------------------------------------------------
(* main *)

\* loadConfig and the TLS files.
LoadConfig ==
    /\ pc = "load"
    /\ \/ TLSValid(config) /\ GoTo("configure") /\ UNCHANGED <<engine, api, service, conn, left>>
       \/ ~TLSValid(config) /\ Exit("error") /\ UNCHANGED engine

\* Cluster checks, authentication, read-only check, hugr.New.  Configure asks the
\* OIDC provider, with the context that a signal cancels.
Configure ==
    /\ pc = "configure"
    /\ \/ /\ ClusterValid(config) /\ CoreDBValid(config)
          /\ ~(config.oidc /\ signalled)
          /\ engine' = "created"
          /\ GoTo("init")
          /\ UNCHANGED <<api, service, conn, left>>
       \/ Exit("error") /\ UNCHANGED engine

\* AttachRuntimeSource and Init.
InitEngine ==
    /\ pc = "init"
    /\ \/ engine' = "ready" /\ GoTo("mount") /\ UNCHANGED <<api, service, conn, left>>
       \/ Exit("error") /\ UNCHANGED engine

\* Handlers; NewProxy wants a secret key and asks the OIDC provider.
Mount ==
    /\ pc = "mount"
    /\ \/ /\ ProxyMounted(config) => config.secretKey /\ ~signalled
          /\ GoTo("listen")
          /\ UNCHANGED <<engine, api, service, conn, left>>
       \/ ProxyMounted(config) /\ Exit("error") /\ UNCHANGED engine

\* go func: the API server starts.
Listen ==
    /\ pc = "listen"
    /\ api' = "starting"
    /\ GoTo("service")
    /\ UNCHANGED <<engine, service, conn, left>>

\* svc.Start: nothing without SERVICE_BIND.
StartService ==
    /\ pc = "service"
    /\ service' = IF config.serviceBind THEN "starting" ELSE "none"
    /\ GoTo("wait")
    /\ UNCHANGED <<engine, api, conn, left>>

\* Fault: main returns at the signal.
StopAtOnce ==
    /\ pc = "wait"
    /\ signalled
    /\ engine' = "closed"
    /\ Exit("ok")

\* The signal: srv.Shutdown is called.
Stop ==
    /\ pc = "wait"
    /\ signalled
    /\ api' = IF api = "serving" THEN "down" ELSE api
    /\ GoTo("drain")
    /\ UNCHANGED <<engine, service, conn, left>>

\* Fault: an error of srv.Shutdown is logged and main goes on.
DrainAnyway ==
    /\ pc = "drain"
    /\ Quiet(Requests) \/ left = 0
    /\ service' = IF service = "serving" THEN "down" ELSE service
    /\ GoTo("drainService")
    /\ UNCHANGED <<engine, api, conn, left>>

\* Fault: Shutdown gets a context without time limit.
DrainForever ==
    /\ pc = "drain"
    /\ Quiet(Requests)
    /\ service' = IF service = "serving" THEN "down" ELSE service
    /\ GoTo("drainService")
    /\ UNCHANGED <<engine, api, conn, left>>

\* srv.Shutdown returns, without error and svc.Stop is called, or with one.
Drain ==
    /\ pc = "drain"
    /\ \/ /\ Quiet(Requests)
          /\ service' = IF service = "serving" THEN "down" ELSE service
          /\ GoTo("drainService")
          /\ UNCHANGED <<engine, api, conn, left>>
       \/ left = 0 /\ Exit("error") /\ UNCHANGED engine

\* svc.Stop returns.
DrainService ==
    /\ pc = "drainService"
    /\ \/ Quiet(Scrapes) /\ GoTo("close") /\ UNCHANGED <<engine, api, service, conn, left>>
       \/ service # "none" /\ left = 0 /\ Exit("error") /\ UNCHANGED engine

\* main is at its end: the deferred engine.Close runs, ...
Close ==
    /\ pc = "close"
    /\ engine' = "closed"
    /\ GoTo("return")
    /\ UNCHANGED <<api, service, conn, left>>

\* ... and main returns.
Return ==
    /\ pc = "return"
    /\ Exit("ok")
    /\ UNCHANGED engine
-----------------------------------------------------------------------------
(* The goroutines of the servers *)

\* A listener opens, or fails, at once or later.  One that starts after Shutdown was
\* called does not open.  A failed listener of the API then ends the process; that
\* of the service endpoint is only logged.
ListenAPI ==
    /\ \/ api = "starting"
          /\ api' = IF pc \in {"service", "wait"} THEN "serving" ELSE "down"
       \/ api \in {"starting", "serving"} /\ api' = "failed"
    /\ UNCHANGED <<config, pc, signalled, engine, service, conn, left, status>>

FailAPI ==
    /\ pc # "exited"
    /\ api = "failed"
    /\ Exit("error")
    /\ UNCHANGED engine

ListenService ==
    /\ \/ service = "starting"
          /\ service' = IF pc \in {"wait", "drain"} THEN "serving" ELSE "down"
       \/ service \in {"starting", "serving"} /\ service' = "failed"
    /\ UNCHANGED <<config, pc, signalled, engine, api, conn, left, status>>

\* A connection is accepted.
Accept(r) ==
    /\ conn[r] = "none"
    /\ IF r \in Requests THEN api = "serving" ELSE service = "serving"
    /\ conn' = [conn EXCEPT ![r] = "running"]
    /\ UNCHANGED <<config, pc, signalled, engine, api, service, left, status>>

\* handleTokenRefresh, handleRevoke up to PostForm, which has no time limit.
Forward(r) ==
    /\ ProxyMounted(config)
    /\ r \in Requests /\ conn[r] = "running"
    /\ conn' = [conn EXCEPT ![r] = "forward"]
    /\ UNCHANGED <<config, pc, signalled, engine, api, service, left, status>>

\* The provider answers or the call to it fails; the handler answers its client.
ForwardAnswered(r) ==
    /\ conn[r] = "forward"
    /\ conn' = [conn EXCEPT ![r] = "answered"]
    /\ UNCHANGED <<config, pc, signalled, engine, api, service, left, status>>

\* Any other handler returns.
Answer(r) ==
    /\ conn[r] = "running"
    /\ conn' = [conn EXCEPT ![r] = "answered"]
    /\ UNCHANGED <<config, pc, signalled, engine, api, service, left, status>>
-----------------------------------------------------------------------------
(* The environment *)

\* SIGINT or SIGTERM.  Before NotifyContext it kills the process; a second one
\* has no effect.
Signal ==
    /\ pc # "exited" /\ ~signalled
    /\ \/ pc = "load" /\ Exit("error") /\ UNCHANGED engine
       \/ /\ pc # "load"
          /\ signalled' = TRUE
          /\ UNCHANGED <<config, pc, engine, api, service, conn, left, status>>

\* Fault: the context does not end.
TickPast ==
    /\ pc \in {"drain", "drainService"}
    /\ left' = left - 1
    /\ UNCHANGED <<config, pc, signalled, engine, api, service, conn, status>>

\* Time passes for the context that WithTimeout made at the signal.
Tick ==
    /\ pc \in {"drain", "drainService"}
    /\ left > 0
    /\ left' = left - 1
    /\ UNCHANGED <<config, pc, signalled, engine, api, service, conn, status>>
-----------------------------------------------------------------------------
Main ==
    \/ LoadConfig \/ Configure \/ InitEngine \/ Mount \/ Listen \/ StartService
    \/ Stop \/ Drain \/ DrainService \/ Close \/ Return

Next ==
    \/ Main
    \/ ListenAPI \/ FailAPI \/ ListenService
    \/ \E r \in Requests \cup Scrapes : Accept(r) \/ Forward(r) \/ ForwardAnswered(r) \/ Answer(r)
    \/ Signal
    \/ Tick

Spec == Init /\ [][Next]_vars

\* The goroutine of main runs on, and time passes.  No request need ever end and no
\* signal need ever come.
FairSpec == Spec /\ WF_vars(Main) /\ WF_vars(Tick)
-----------------------------------------------------------------------------
(* Properties *)

\* Nobody is served without an engine: while a request is being answered, or the
\* service endpoint reports "OK", the engine is initialised and not yet closed,
\* whatever the goroutines and the signal do.
ServedByReadyEngine ==
    (service = "serving" \/ ~Quiet(DOMAIN conn)) => engine = "ready"

\* Exit status 0 is earned: a signal asked for it, the engine was closed, and every
\* connection that was accepted got its answer.
CleanExit ==
    status = "ok" => signalled /\ engine = "closed" /\ \A r \in DOMAIN conn : conn[r] # "cut"

\* A request under way is cut off only when the API's listener has failed or the
\* time limit of the shutdown has passed; and a request to the API is not cut off
\* for the sake of the service endpoint.
CutOnlyAtLimit ==
    [][\A r \in DOMAIN conn : conn[r] \in Busy /\ conn'[r] = "cut" =>
          api = "failed" \/ (left = 0 /\ (r \in Requests => pc = "drain"))]_vars

\* A signal ends the process, even if requests hang (a provider that never answers)
\* and whenever during start-up it arrives.
SignalEnds == signalled ~> pc = "exited"
=============================================================================
