---------------------------- MODULE ServerProofs ----------------------------
(***************************************************************************)
(* The safety of the server's life, for every set of configurations, every *)
(* number of connections and every time limit.  Where main is determines   *)
(* the state of the engine and of the two servers (Phases); nothing else   *)
(* is needed to make the properties inductive.                             *)
(***************************************************************************)
EXTENDS Server, TLAPS

Starting == {"load", "configure", "init", "mount", "listen"}
Stopping == {"drain", "drainService", "close", "return"}

Phases ==
    /\ pc \in {"mount", "listen", "service", "wait", "drain", "drainService", "close"} => engine = "ready"
    /\ pc \in Starting => api = "none" /\ service = "none" /\ Quiet(DOMAIN conn)
    /\ pc = "service" => service # "serving" /\ Quiet(Scrapes)
    /\ pc \in Stopping => signalled /\ api # "serving"
    /\ pc \in {"drainService", "close", "return"} => service # "serving" /\ Quiet(Requests)
    /\ pc \in {"close", "return"} => Quiet(Scrapes)
    /\ pc = "return" => engine = "closed"
    /\ pc = "exited" => api = "down" /\ service = "down" /\ Quiet(DOMAIN conn)
    /\ status = Alive => \A r \in DOMAIN conn : conn[r] # "cut"

SInv == TypeOK /\ Phases /\ CleanExit

LEMMA ServerInit == Init => SInv
<1> SUFFICES ASSUME Init PROVE SInv
    OBVIOUS
<1> USE DEF Init, Alive
<1>1. TypeOK
  <2>1. Limit \in Nat
    BY ServerAssumption
  <2>2. left \in 0 .. Limit
    BY <2>1
  <2>3. signalled \in BOOLEAN
    OBVIOUS
  <2>4. conn \in [Requests \cup Scrapes -> {"none", "answered", "cut"} \cup Busy]
    OBVIOUS
  <2>5. (pc = "exited") <=> (status # Alive)
    OBVIOUS
  <2> QED BY <2>2, <2>3, <2>4, <2>5 DEF TypeOK, ServerStates
<1>2. Phases /\ CleanExit
    BY DEF Phases, CleanExit, Starting, Stopping, Quiet, Busy
<1> QED BY <1>1, <1>2 DEF SInv

\* What the end of the process leaves behind.
LEMMA ExitLeaves ==
    ASSUME TypeOK, NEW how \in {"ok", "error"}, Exit(how), engine' \in {"none", "created", "ready", "closed"}
    PROVE  /\ TypeOK'
           /\ Phases'
           /\ how = "error" => CleanExit'
<1> USE DEF Exit, TypeOK, Alive, Busy, ServerStates
<1>1. TypeOK'
    OBVIOUS
<1>2. DOMAIN conn' = DOMAIN conn /\ Quiet(DOMAIN conn)'
    BY DEF Quiet
<1>3. Phases'
    BY <1>2 DEF Phases, Starting, Stopping
<1> QED BY <1>1, <1>3 DEF CleanExit

LEMMA ServerNext == SInv /\ [Next]_vars => SInv'
<1> SUFFICES ASSUME SInv, [Next]_vars PROVE SInv'
    OBVIOUS
<1> USE DEF SInv
<1>c. DOMAIN conn = Requests \cup Scrapes
    BY DEF TypeOK
<1>e. ASSUME Exit("error"), UNCHANGED engine PROVE SInv'
    BY <1>e, ExitLeaves DEF TypeOK
\* Steps of main that go on: the connections stay as they are.
<1>g. ASSUME NEW p, GoTo(p), pc # "exited", UNCHANGED <<conn, left>>
      PROVE  /\ DOMAIN conn' = DOMAIN conn
             /\ status' = Alive /\ signalled' = signalled /\ pc' = p
             /\ CleanExit'
             /\ Quiet(Requests)' = Quiet(Requests)
             /\ Quiet(Scrapes)' = Quiet(Scrapes)
             /\ Quiet(DOMAIN conn)' = Quiet(DOMAIN conn)
             /\ \A r \in DOMAIN conn' : conn'[r] # "cut"
    BY <1>g DEF GoTo, Quiet, TypeOK, Alive, CleanExit, Phases
<1>1. CASE LoadConfig
  <2>1. CASE GoTo("configure") /\ UNCHANGED <<engine, api, service, conn, left>>
    <3>1. pc = "load"
        BY <1>1 DEF LoadConfig
    <3>2. TypeOK'
        BY <2>1, <3>1 DEF TypeOK, GoTo, Alive
    <3>3. Phases'
        BY <2>1, <3>1, <1>g DEF Phases, Starting, Stopping
    <3> QED BY <2>1, <3>1, <3>2, <3>3, <1>g
  <2> QED BY <1>1, <2>1, <1>e DEF LoadConfig
<1>2. CASE Configure
  <2>1. CASE engine' = "created" /\ GoTo("init") /\ UNCHANGED <<api, service, conn, left>>
    <3>1. pc = "configure"
        BY <1>2 DEF Configure
    <3>2. TypeOK'
        BY <2>1, <3>1 DEF TypeOK, GoTo, Alive
    <3>3. Phases'
        BY <2>1, <3>1, <1>g DEF Phases, Starting, Stopping
    <3> QED BY <2>1, <3>1, <3>2, <3>3, <1>g
  <2> QED BY <1>2, <2>1, <1>e DEF Configure
<1>3. CASE InitEngine
  <2>1. CASE engine' = "ready" /\ GoTo("mount") /\ UNCHANGED <<api, service, conn, left>>
    <3>1. pc = "init"
        BY <1>3 DEF InitEngine
    <3>2. TypeOK'
        BY <2>1, <3>1 DEF TypeOK, GoTo, Alive
    <3>3. Phases'
        BY <2>1, <3>1, <1>g DEF Phases, Starting, Stopping
    <3> QED BY <2>1, <3>1, <3>2, <3>3, <1>g
  <2> QED BY <1>3, <2>1, <1>e DEF InitEngine
<1>4. CASE Mount
  <2>1. CASE GoTo("listen") /\ UNCHANGED <<engine, api, service, conn, left>>
    <3>1. pc = "mount"
        BY <1>4 DEF Mount
    <3>2. TypeOK'
        BY <2>1, <3>1 DEF TypeOK, GoTo, Alive
    <3>3. Phases'
        BY <2>1, <3>1, <1>g DEF Phases, Starting, Stopping
    <3> QED BY <2>1, <3>1, <3>2, <3>3, <1>g
  <2> QED BY <1>4, <2>1, <1>e DEF Mount
<1>5. CASE Listen
  <2>1. pc = "listen" /\ api' = "starting" /\ GoTo("service") /\ UNCHANGED <<engine, service, conn, left>>
    BY <1>5 DEF Listen
  <2>2. TypeOK'
    BY <2>1 DEF TypeOK, GoTo, Alive, ServerStates
  <2>3. Quiet(Scrapes)
    BY <2>1, <1>c DEF Phases, Starting, Quiet
  <2>4. Phases'
    BY <2>1, <2>3 DEF Phases, Starting, Stopping, GoTo, Quiet, TypeOK, Alive
  <2> QED BY <2>1, <2>2, <2>4, <1>g
<1>6. CASE StartService
  <2>1. /\ pc = "service" /\ service' \in {"starting", "none"} /\ GoTo("wait")
        /\ UNCHANGED <<engine, api, conn, left>>
    BY <1>6 DEF StartService
  <2>2. TypeOK'
    BY <2>1 DEF TypeOK, GoTo, Alive, ServerStates
  <2>3. Phases'
    BY <2>1 DEF Phases, Starting, Stopping, GoTo, Quiet, TypeOK, Alive
  <2> QED BY <2>1, <2>2, <2>3, <1>g
<1>7. CASE Stop
  <2>1. /\ pc = "wait" /\ signalled /\ api' # "serving" /\ api' \in {api, "down"} /\ GoTo("drain")
        /\ UNCHANGED <<engine, service, conn, left>>
    BY <1>7 DEF Stop
  <2>2. TypeOK'
    BY <2>1 DEF TypeOK, GoTo, Alive, ServerStates
  <2>3. Phases'
    BY <2>1 DEF Phases, Starting, Stopping, GoTo, Quiet, TypeOK, Alive
  <2> QED BY <2>1, <2>2, <2>3, <1>g
<1>8. CASE Drain
  <2>1. CASE /\ Quiet(Requests) /\ service' # "serving" /\ service' \in {service, "down"}
             /\ GoTo("drainService") /\ UNCHANGED <<engine, api, conn, left>>
    <3>1. pc = "drain"
        BY <1>8 DEF Drain
    <3>2. TypeOK'
        BY <2>1, <3>1 DEF TypeOK, GoTo, Alive, ServerStates
    <3>3. Phases'
        BY <2>1, <3>1 DEF Phases, Starting, Stopping, GoTo, Quiet, TypeOK, Alive
    <3> QED BY <2>1, <3>1, <3>2, <3>3, <1>g
  <2> QED BY <1>8, <2>1, <1>e DEF Drain
<1>9. CASE DrainService
  <2>1. CASE Quiet(Scrapes) /\ GoTo("close") /\ UNCHANGED <<engine, api, service, conn, left>>
    <3>1. pc = "drainService"
        BY <1>9 DEF DrainService
    <3>2. TypeOK'
        BY <2>1, <3>1 DEF TypeOK, GoTo, Alive
    <3>3. Phases'
        BY <2>1, <3>1 DEF Phases, Starting, Stopping, GoTo, Quiet, TypeOK, Alive
    <3> QED BY <2>1, <3>1, <3>2, <3>3, <1>g
  <2> QED BY <1>9, <2>1, <1>e DEF DrainService
<1>10. CASE Close
  <2>1. pc = "close" /\ engine' = "closed" /\ GoTo("return") /\ UNCHANGED <<api, service, conn, left>>
    BY <1>10 DEF Close
  <2>2. TypeOK'
    BY <2>1 DEF TypeOK, GoTo, Alive
  <2>3. Phases'
    BY <2>1 DEF Phases, Starting, Stopping, GoTo, Quiet, TypeOK, Alive
  <2> QED BY <2>1, <2>2, <2>3, <1>g
<1>11. CASE Return
  <2>1. pc = "return" /\ Exit("ok") /\ UNCHANGED engine
    BY <1>11 DEF Return
  <2>2. TypeOK' /\ Phases'
    BY <2>1, ExitLeaves DEF TypeOK
  <2>3. engine = "closed" /\ signalled /\ Quiet(DOMAIN conn) /\ \A r \in DOMAIN conn : conn[r] # "cut"
    BY <2>1, <1>c DEF Phases, Stopping, Quiet, TypeOK, Alive
  <2>4. CleanExit'
    BY <2>1, <2>3 DEF CleanExit, Exit, Quiet
  <2> QED BY <2>2, <2>4
<1>12. CASE ListenAPI
  <2>1. /\ api \in {"starting", "serving"} /\ api' \in {"serving", "down", "failed"}
        /\ api' = "serving" => pc \in {"service", "wait"}
        /\ UNCHANGED <<config, pc, signalled, engine, service, conn, left, status>>
    BY <1>12 DEF ListenAPI
  <2>2. TypeOK'
    BY <2>1 DEF TypeOK, ServerStates
  <2>3. Phases'
    BY <2>1 DEF Phases, Quiet, Starting, Stopping
  <2> QED BY <2>1, <2>2, <2>3 DEF CleanExit
<1>13. CASE FailAPI
    BY <1>13, <1>e DEF FailAPI
<1>14. CASE ListenService
  <2>1. /\ service \in {"starting", "serving"} /\ service' \in {"serving", "down", "failed"}
        /\ service' = "serving" => pc \in {"wait", "drain"}
        /\ UNCHANGED <<config, pc, signalled, engine, api, conn, left, status>>
    BY <1>14 DEF ListenService
  <2>2. TypeOK'
    BY <2>1 DEF TypeOK, ServerStates
  <2>3. Phases'
    BY <2>1 DEF Phases, Quiet, Starting, Stopping
  <2> QED BY <2>1, <2>2, <2>3 DEF CleanExit
<1>15. ASSUME NEW r \in Requests \cup Scrapes, Accept(r) PROVE SInv'
  <2>1. /\ conn' = [conn EXCEPT ![r] = "running"]
        /\ IF r \in Requests THEN api = "serving" ELSE service = "serving"
        /\ UNCHANGED <<config, pc, signalled, engine, api, service, left, status>>
    BY <1>15 DEF Accept
  <2>2. TypeOK'
    BY <2>1 DEF TypeOK, Busy
  <2>3. /\ pc \in {"service", "wait", "drain"}
        /\ r \in Requests \/ pc \in {"wait", "drain"}
        /\ r \in Requests => pc # "drain"
    BY <2>1, ServerAssumption DEF Phases, TypeOK, Starting, Stopping
  <2>4. pc = "service" => r \notin Scrapes
    BY <2>3, ServerAssumption
  <2>5. Phases'
    BY <2>1, <2>3, <2>4, <1>c DEF Phases, Quiet, Starting, Stopping, TypeOK
  <2>6. CleanExit'
    BY <2>1, <2>3 DEF CleanExit, TypeOK, Alive
  <2> QED BY <2>2, <2>5, <2>6
<1>16. ASSUME NEW r \in Requests \cup Scrapes, Forward(r) \/ ForwardAnswered(r) \/ Answer(r) PROVE SInv'
  <2>1. /\ conn[r] \in Busy
        /\ conn' = [conn EXCEPT ![r] = "forward"] \/ conn' = [conn EXCEPT ![r] = "answered"]
        /\ UNCHANGED <<config, pc, signalled, engine, api, service, left, status>>
    BY <1>16 DEF Forward, ForwardAnswered, Answer, Busy
  <2>2. TypeOK'
    BY <2>1 DEF TypeOK, Busy
  <2>3. /\ Quiet(Requests) => Quiet(Requests)'
        /\ Quiet(Scrapes) => Quiet(Scrapes)'
        /\ Quiet(DOMAIN conn) => Quiet(DOMAIN conn)'
    BY <2>1, <1>c DEF Quiet, Busy, TypeOK
  <2>4. /\ (\A c \in DOMAIN conn : conn[c] # "cut") => (\A c \in DOMAIN conn' : conn'[c] # "cut")
    BY <2>1, <1>c DEF TypeOK
  <2>5. Phases'
    BY <2>1, <2>3, <2>4 DEF Phases
  <2>6. CleanExit'
    BY <2>1, <2>4 DEF CleanExit
  <2> QED BY <2>2, <2>5, <2>6
<1>17. CASE Signal
  <2>1. CASE pc # "load" /\ signalled' = TRUE /\ UNCHANGED <<config, pc, engine, api, service, conn, left, status>>
    <3>1. TypeOK'
        BY <2>1 DEF TypeOK
    <3>2. Phases'
        BY <2>1 DEF Phases, Quiet
    <3> QED BY <2>1, <3>1, <3>2 DEF CleanExit
  <2> QED BY <1>17, <2>1, <1>e DEF Signal
<1>18. CASE Tick
  <2>1. /\ left > 0 /\ left' = left - 1
        /\ UNCHANGED <<config, pc, signalled, engine, api, service, conn, status>>
    BY <1>18 DEF Tick
  <2>2. TypeOK'
    BY <2>1, ServerAssumption DEF TypeOK
  <2> QED BY <2>1, <2>2 DEF Phases, CleanExit, Quiet
<1>19. CASE UNCHANGED vars
    BY <1>19 DEF vars, TypeOK, Phases, CleanExit, Quiet
<1> QED
    BY <1>1, <1>2, <1>3, <1>4, <1>5, <1>6, <1>7, <1>8, <1>9, <1>10, <1>11, <1>12, <1>13, <1>14,
       <1>15, <1>16, <1>17, <1>18, <1>19 DEF Next, Main

LEMMA ServerInvariant == Spec => []SInv
<1> QED BY ServerInit, ServerNext, PTL DEF Spec

\* Type correctness of cmd/server's variables, for every configuration.
THEOREM ServerTyping == Spec => []TypeOK
<1>1. SInv => TypeOK
    BY DEF SInv
<1> QED BY <1>1, ServerInvariant, PTL

\* No request and no health check meets an engine that is not initialised or is
\* closed: main starts the servers after engine.Init, and returns to the deferred
\* engine.Close only after both shutdowns came back without error.
THEOREM ServedByReadyEngineThm == Spec => []ServedByReadyEngine
<1>1. SInv => ServedByReadyEngine
  <2> SUFFICES ASSUME SInv, service = "serving" \/ ~Quiet(DOMAIN conn) PROVE engine = "ready"
    BY DEF ServedByReadyEngine
  <2>1. pc \notin Starting /\ pc # "exited"
    BY DEF SInv, Phases
  <2>2. Quiet(Requests) /\ Quiet(Scrapes) => Quiet(DOMAIN conn)
    BY DEF SInv, TypeOK, Quiet
  <2>3. pc # "return"
    BY <2>2 DEF SInv, Phases
  <2> QED BY <2>1, <2>3 DEF SInv, Phases, TypeOK, Starting
<1> QED BY <1>1, ServerInvariant, PTL

\* Exit status 0 means: asked for by a signal, engine closed, nobody cut off.
THEOREM CleanExitThm == Spec => []CleanExit
<1>1. SInv => CleanExit
    BY DEF SInv
<1> QED BY <1>1, ServerInvariant, PTL

\* A connection is cut off only by a failed listener of the API or at the end of the
\* time limit; one to the API only while srv.Shutdown waits.
THEOREM CutOnlyAtLimitThm == Spec => CutOnlyAtLimit
<1> DEFINE Cut == \A r \in DOMAIN conn : conn[r] \in Busy /\ conn'[r] = "cut" =>
                    api = "failed" \/ (left = 0 /\ (r \in Requests => pc = "drain"))
<1>1. SInv /\ [Next]_vars => [Cut]_vars
  <2> SUFFICES ASSUME SInv, Next, NEW r \in DOMAIN conn, conn[r] \in Busy, conn'[r] = "cut"
               PROVE  api = "failed" \/ (left = 0 /\ (r \in Requests => pc = "drain"))
    OBVIOUS
  <2>c. DOMAIN conn = Requests \cup Scrapes /\ conn[r] # "cut"
    BY DEF SInv, TypeOK, Busy
  <2>1. pc \notin Starting /\ pc # "exited" /\ pc # "return"
    BY <2>c DEF SInv, Phases, Quiet, Stopping
  <2>2. ASSUME UNCHANGED conn PROVE FALSE
    BY <2>2, <2>c
  <2>3. ASSUME NEW c \in Requests \cup Scrapes,
               Accept(c) \/ Forward(c) \/ ForwardAnswered(c) \/ Answer(c)
        PROVE  FALSE
    BY <2>3, <2>c DEF Accept, Forward, ForwardAnswered, Answer, SInv, TypeOK, Busy
  <2>4. CASE Main
    <3>1. Drain \/ DrainService
        BY <2>4, <2>1, <2>2 DEF Main, LoadConfig, Configure, InitEngine, Mount, Listen, StartService,
             Stop, Close, Return, Starting
    <3>2. CASE Drain
        BY <3>2, <2>2 DEF Drain
    <3>3. CASE DrainService
      <4>1. left = 0 /\ pc = "drainService"
        BY <3>3, <2>2 DEF DrainService
      <4>2. r \notin Requests
        BY <4>1 DEF SInv, Phases, Quiet
      <4> QED BY <4>1, <4>2
    <3> QED BY <3>1, <3>2, <3>3
  <2>5. CASE ListenAPI \/ ListenService \/ Tick
    BY <2>5, <2>2 DEF ListenAPI, ListenService, Tick
  <2>6. CASE FailAPI
    BY <2>6 DEF FailAPI
  <2>7. CASE Signal
    BY <2>7, <2>1, <2>2 DEF Signal, Starting
  <2> QED BY <2>3, <2>4, <2>5, <2>6, <2>7 DEF Next
<1> QED BY <1>1, ServerInvariant, PTL DEF Spec, CutOnlyAtLimit
=============================================================================
