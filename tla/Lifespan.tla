------------------------------ MODULE Lifespan ------------------------------
(***************************************************************************)
(* A Gate process coming up and going down: the ASGI lifespan of           *)
(* create_app (api/main.py) with the singletons of api/dependencies.py, the *)
(* shared HTTP client (runtime/http_client.py), the health monitor's loop  *)
(* (routing/health_monitor.py, start, stop and _run_loop; what a round     *)
(* marks is in Dispatch), and the requests handled meanwhile.              *)
(*                                                                         *)
(* A lifespan may be entered again in one process, after a shutdown or a   *)
(* failed startup: the managers are cached for the life of the process.    *)
(* The server is external: before it ends the lifespan it stops accepting  *)
(* and waits for the running requests.                                     *)
(***************************************************************************)
EXTENDS Naturals, FiniteSets

CONSTANTS
  Request,
  MaxNodes,    \* bound: nodes in the registry when a round takes its snapshot
  MaxClients   \* bound: clients made in the process

ASSUME LifespanAssumption == MaxNodes \in Nat /\ MaxClients \in Nat \ {0}

(* Clients are numbered as they are made. *)
NoClient == 0

VARIABLES
  enabled,     \* GATE_HEALTH_PROBE_INTERVAL_SECONDS > 0
  seedFile,    \* can the file of the static registry be loaded?
  flowFile,    \* can the file of the workflow definitions be loaded?
  advertised,  \* of the actions its steps call, what the registry advertises
  phase,
  client,      \* AsyncHttpClientManager._client
  made,        \* clients made so far
  closed,      \* the ones closed
  loop,        \* the monitor's task
  stopEvent,   \* HealthMonitor._stop_event
  probeClient, \* HealthMonitor._client
  left,        \* probes left in the round; the next one is running
  late,        \* probes that ended after the stop event was set
  service,     \* is the execute service built and cached?
  call,        \* what each request is doing
  via          \* the client its worker call was given

files == <<enabled, seedFile, flowFile, advertised>>
clients == <<client, made, closed>>
monitor == <<loop, stopEvent, probeClient, left, late>>
requests == <<service, call, via>>
vars == <<files, phase, clients, monitor, requests>>

Phase == {"down", "serving", "draining", "stopping", "closing"}
(* Nothing: no node is registered.  Some: an action of a step is missing.     *)
Advertises == {"nothing", "some", "all"}
Doing == {"idle", "accepted", "misconfigured", "unserved", "handled", "calling"}
Loop == {"none", "ready", "probing", "waiting", "ended"}

Init ==
  /\ enabled \in BOOLEAN /\ seedFile \in BOOLEAN /\ flowFile \in BOOLEAN
  /\ advertised = "nothing"
  /\ phase = "down"
  /\ client = NoClient /\ made = 0 /\ closed = {}
  /\ loop = "none" /\ stopEvent = FALSE /\ probeClient = NoClient /\ left = 0 /\ late = 0
  /\ service = FALSE
  /\ call = [q \in Request |-> "idle"] /\ via = [q \in Request |-> NoClient]

-----------------------------------------------------------------------------
(* Startup *)

(* Mutant: every startup makes a client. *)
ClientStartup_AlwaysNew == made < MaxClients /\ made' = made + 1 /\ client' = made + 1

(* AsyncHttpClientManager.startup: a client that is still there is kept. *)
ClientStartup ==
  IF client # NoClient
    THEN UNCHANGED <<client, made>>
    ELSE made < MaxClients /\ made' = made + 1 /\ client' = made + 1

(* A monitor of its own for this lifespan, with the client of the moment; its *)
(* task is created and has not run yet.                                       *)
MonitorStart ==
  IF enabled
    THEN /\ loop' = "ready" /\ probeClient' = client'
         /\ stopEvent' = FALSE /\ left' = 0 /\ late' = 0
    ELSE UNCHANGED monitor

(* The lifespan up to its yield.  If the static registry cannot be loaded,    *)
(* the exception leaves it, and the client stays where it is.  Once loaded it *)
(* replaces the registry, with whatever nodes the file lists.                 *)
Startup ==
  /\ phase = "down"
  /\ ClientStartup
  /\ IF seedFile
       THEN phase' = "serving" /\ MonitorStart /\ advertised' \in Advertises
       ELSE UNCHANGED <<phase, monitor, advertised>>
  /\ UNCHANGED <<enabled, seedFile, flowFile, closed, requests>>

(* The operator edits the configuration files, the steps of workflows too. *)
EditFiles ==
  /\ seedFile' \in BOOLEAN /\ flowFile' \in BOOLEAN
  /\ advertised' \in (IF advertised = "nothing" THEN {"nothing"} ELSE {"some", "all"})
  /\ <<seedFile', flowFile', advertised'>> # <<seedFile, flowFile, advertised>>
  /\ UNCHANGED <<enabled, phase, clients, monitor, requests>>

-----------------------------------------------------------------------------
(* HealthMonitor._run_loop *)

(* Mutant: the loop never looks at the event. *)
LoopTurn_IgnoresStop ==
  /\ loop = "ready"
  /\ loop' = "probing" /\ left' \in 0 .. MaxNodes
  /\ UNCHANGED <<files, phase, clients, stopEvent, probeClient, late, requests>>

(* The condition of the while loop, and the snapshot of a new round. *)
LoopTurn ==
  /\ loop = "ready"
  /\ IF stopEvent
       THEN loop' = "ended" /\ UNCHANGED left
       ELSE loop' = "probing" /\ left' \in 0 .. MaxNodes
  /\ UNCHANGED <<files, phase, clients, stopEvent, probeClient, late, requests>>

(* The running probe ends, at its timeout at the latest. *)
Probe ==
  /\ loop = "probing" /\ left > 0
  /\ left' = left - 1
  /\ late' = IF stopEvent THEN late + 1 ELSE late
  /\ UNCHANGED <<files, phase, clients, loop, stopEvent, probeClient, requests>>

(* The round is over, or something in it raised: the loop outlives both. *)
RoundOver ==
  /\ loop = "probing"
  /\ loop' = "waiting" /\ left' = 0
  /\ UNCHANGED <<files, phase, clients, stopEvent, probeClient, late, requests>>

(* The wait ends: the interval is over or the event is set. *)
WaitOver ==
  /\ loop = "waiting" /\ loop' = "ready"
  /\ UNCHANGED <<files, phase, clients, stopEvent, probeClient, left, late, requests>>

-----------------------------------------------------------------------------
(* Shutdown *)

(* External: the server was told to stop and accepts nothing more. *)
Drain ==
  /\ phase = "serving" /\ phase' = "draining"
  /\ UNCHANGED <<files, clients, monitor, requests>>

(* Mutant: the event is not set. *)
BeginShutdown_NoEvent ==
  /\ phase = "draining" /\ \A q \in Request : call[q] = "idle"
  /\ phase' = "stopping"
  /\ UNCHANGED <<files, clients, monitor, requests>>

(* The server's requests are done: HealthMonitor.stop sets the event. *)
BeginShutdown ==
  /\ phase = "draining" /\ \A q \in Request : call[q] = "idle"
  /\ phase' = "stopping"
  /\ stopEvent' = enabled
  /\ UNCHANGED <<files, clients, loop, probeClient, left, late, requests>>

(* Mutant: the task is not awaited. *)
CloseClient_NoWait ==
  /\ phase = "stopping" /\ phase' = "closing"
  /\ closed' = closed \cup {client}
  /\ UNCHANGED <<files, client, made, monitor, requests>>

(* Once the task has ended, the client is closed. *)
CloseClient ==
  /\ phase = "stopping" /\ loop \in {"none", "ended"}
  /\ phase' = "closing"
  /\ closed' = closed \cup {client}
  /\ loop' = "none" /\ stopEvent' = FALSE /\ probeClient' = NoClient /\ left' = 0 /\ late' = 0
  /\ UNCHANGED <<files, client, made, requests>>

(* Mutant: the closed client is kept, and the next startup reuses it. *)
ForgetClient_Keeps ==
  /\ phase = "closing" /\ phase' = "down"
  /\ UNCHANGED <<files, clients, monitor, requests>>

(* aclose returned. *)
ForgetClient ==
  /\ phase = "closing" /\ phase' = "down"
  /\ client' = NoClient
  /\ UNCHANGED <<files, made, closed, monitor, requests>>

-----------------------------------------------------------------------------
(* POST /v1/admin/register and POST /v1/execute *)

(* Workers register, over another registration of their own perhaps: the set  *)
(* of advertised actions changes (what may be registered is in NodeRegistry). *)
RegistryChanges ==
  /\ phase \in {"serving", "draining"}
  /\ advertised' \in {"some", "all"} \ {advertised}
  /\ UNCHANGED <<enabled, seedFile, flowFile, phase, clients, monitor, requests>>

Accept(q) ==
  /\ phase = "serving" /\ call[q] = "idle"
  /\ call' = [call EXCEPT ![q] = "accepted"]
  /\ UNCHANGED <<files, phase, clients, monitor, service, via>>

(* validate_definitions_against_registry: an action of a step is another      *)
(* workflow or one some node advertises; an empty registry puts the check off *)
(* for good, since only the engine's constructor makes it.                    *)
DefinitionsHold == advertised # "some"

(* get_execute_service: cached once built, also when the registry no longer   *)
(* serves the steps.  Building it loads the workflow definitions and then     *)
(* validates them; either failure is a ValueError, which is not cached and    *)
(* answers this request with a 400.                                           *)
GetService(q) ==
  /\ call[q] = "accepted"
  /\ \/ /\ service \/ (flowFile /\ DefinitionsHold)
        /\ service' = TRUE /\ call' = [call EXCEPT ![q] = "handled"]
     \/ /\ ~service /\ ~flowFile
        /\ call' = [call EXCEPT ![q] = "misconfigured"] /\ UNCHANGED service
     \/ /\ ~service /\ flowFile /\ ~DefinitionsHold
        /\ call' = [call EXCEPT ![q] = "unserved"] /\ UNCHANGED service
  /\ UNCHANGED <<files, phase, clients, monitor, via>>

(* Mutant: the provider's first answer is cached. *)
PooledClient_Cached == IF made = 0 THEN NoClient ELSE 1

(* _pooled_client, asked for each dispatch. *)
PooledClient == client

(* A dispatch hands the pooled client to the worker call. *)
Send(q) ==
  /\ call[q] = "handled"
  /\ call' = [call EXCEPT ![q] = "calling"]
  /\ via' = [via EXCEPT ![q] = PooledClient]
  /\ UNCHANGED <<files, phase, clients, monitor, service>>

(* The call returned; a workflow goes on to its next step. *)
CallReturns(q) ==
  /\ call[q] = "calling"
  /\ call' = [call EXCEPT ![q] = "handled"]
  /\ via' = [via EXCEPT ![q] = NoClient]
  /\ UNCHANGED <<files, phase, clients, monitor, service>>

(* The request is answered; wait_for may cancel its call. *)
Answered(q) ==
  /\ call[q] \notin {"idle", "accepted"}
  /\ call' = [call EXCEPT ![q] = "idle"]
  /\ via' = [via EXCEPT ![q] = NoClient]
  /\ UNCHANGED <<files, phase, clients, monitor, service>>

-----------------------------------------------------------------------------
LoopStep == LoopTurn \/ Probe \/ RoundOver \/ WaitOver

Handle(q) == GetService(q) \/ Answered(q)

Next ==
  \/ Startup
  \/ EditFiles \/ RegistryChanges
  \/ LoopStep
  \/ Drain \/ BeginShutdown \/ CloseClient \/ ForgetClient
  \/ \E q \in Request : Accept(q) \/ Send(q) \/ CallReturns(q) \/ Handle(q)

Spec == Init /\ [][Next]_vars

(* Tasks run, probes have timeouts, requests have budgets, and aclose         *)
(* returns.  The server is told to stop or not.                               *)
FairSpec ==
  /\ Spec
  /\ WF_vars(LoopStep)
  /\ WF_vars(BeginShutdown) /\ WF_vars(CloseClient) /\ WF_vars(ForgetClient)
  /\ \A q \in Request : WF_vars(Handle(q))

-----------------------------------------------------------------------------
(* Properties *)

TypeOK ==
  /\ enabled \in BOOLEAN /\ seedFile \in BOOLEAN /\ flowFile \in BOOLEAN
  /\ advertised \in Advertises
  /\ phase \in Phase
  /\ made \in 0 .. MaxClients /\ client \in 0 .. made /\ closed \subseteq 1 .. made
  /\ loop \in Loop /\ stopEvent \in BOOLEAN
  /\ probeClient \in 0 .. made /\ left \in 0 .. MaxNodes /\ late \in 0 .. MaxNodes
  /\ service \in BOOLEAN
  /\ call \in [Request -> Doing]
  /\ via \in [Request -> 0 .. made]

(* Every probe and every worker call runs on a client that is there and open, *)
(* in the first lifespan of the process and in later ones (main.py: the       *)
(* monitor stops before the client does; dependencies.py: the client is asked *)
(* for at each dispatch, since a cached answer would freeze).                 *)
ClientsInUseAreOpen ==
  LET InUse == (IF loop = "probing" /\ left > 0 THEN {probeClient} ELSE {})
                 \cup {via[q] : q \in {r \in Request : call[r] = "calling"}}
  IN InUse \subseteq (1 .. made) \ closed

(* A client that is not closed is still the manager's, so that a later        *)
(* shutdown closes it: neither a failed startup nor a second lifespan loses   *)
(* one (http_client.py: "One Gate process should reuse one pooled client").   *)
NoClientLeaks == (1 .. made) \ closed \subseteq {client}

(* After the stop event the monitor finishes the round it is in and starts no *)
(* other: shutdown waits for at most one probe per registered node            *)
(* (health_monitor.py, stop awaits the task).                                 *)
StopWithinOneRound == late + left <= MaxNodes

(* A Gate told to stop goes down, whatever its monitor and its requests were  *)
(* in the middle of.                                                          *)
ShutdownEnds == phase = "draining" ~> phase = "down"

(* dependencies.py, get_workflow_engine: "Fails fast on invalid path or       *)
(* malformed file - startup aborts cleanly", so no request meets the failure. *)
BadWorkflowsAbortStartup == \A q \in Request : call[q] # "misconfigured"
=============================================================================
