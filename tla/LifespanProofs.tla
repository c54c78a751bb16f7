--------------------------- MODULE LifespanProofs ---------------------------
(* Proofs about Lifespan, for any number of requests, nodes and clients.     *)
EXTENDS Lifespan, TLAPS

(* The client is there and open from startup to the end of the monitor's      *)
(* task, and outside of that neither a loop nor a request is there to use it. *)
ClientHeld ==
  /\ phase \in {"serving", "draining", "stopping"} => client # NoClient /\ client \notin closed
  /\ phase = "closing" => client \in closed
  /\ phase = "down" => client \notin closed

LoopHeld ==
  /\ loop # "none" =>
       phase \in {"serving", "draining", "stopping"} /\ probeClient = client
  /\ loop # "probing" => left = 0
  /\ stopEvent => phase = "stopping"
  /\ ~stopEvent => late = 0

RequestsHeld ==
  /\ phase \notin {"serving", "draining"} => \A q \in Request : call[q] = "idle"
  /\ \A q \in Request : call[q] = "calling" => via[q] = client

(* TypeOK and the properties are not inductive by themselves: that an open    *)
(* client is used rests on which phase the users can be in.                   *)
LifespanInv ==
  TypeOK /\ ClientHeld /\ LoopHeld /\ RequestsHeld /\ NoClientLeaks /\ StopWithinOneRound

LEMMA InitHolds == Init => LifespanInv
<1> SUFFICES ASSUME Init PROVE LifespanInv
  OBVIOUS
<1> USE LifespanAssumption DEF Init, NoClient
<1>1. TypeOK
  <2>1. /\ call \in [Request -> Doing]
        /\ via \in [Request -> 0 .. 0]
    BY DEF Doing
  <2>2. /\ made \in 0 .. MaxClients /\ client \in 0 .. made /\ closed \subseteq 1 .. made
        /\ probeClient \in 0 .. made /\ left \in 0 .. MaxNodes /\ late \in 0 .. MaxNodes
    OBVIOUS
  <2> QED  BY <2>1, <2>2 DEF TypeOK, Phase, Loop, Advertises
<1>2. ClientHeld /\ LoopHeld /\ RequestsHeld
  BY DEF ClientHeld, LoopHeld, RequestsHeld
<1>3. NoClientLeaks /\ StopWithinOneRound
  BY DEF NoClientLeaks, StopWithinOneRound
<1> QED  BY <1>1, <1>2, <1>3 DEF LifespanInv

(* A startup leaves the manager with an open client, new or kept. *)
LEMMA ClientStarts ==
  ASSUME LifespanInv, phase = "down", ClientStartup, closed' = closed
  PROVE  /\ made' \in 0 .. MaxClients /\ made <= made' /\ client' \in 1 .. made'
         /\ client' \notin closed /\ closed \subseteq 1 .. made'
         /\ (1 .. made') \ closed \subseteq {client'}
<1> USE DEF LifespanInv, TypeOK, NoClient
<1>1. made \in Nat /\ made <= MaxClients /\ MaxClients \in Nat /\ client \in 0 .. made
  BY LifespanAssumption
<1>2. closed \subseteq 1 .. made /\ client \notin closed /\ (1 .. made) \ closed \subseteq {client}
  BY DEF ClientHeld, NoClientLeaks
<1>3. CASE client # NoClient
  BY <1>1, <1>2, <1>3 DEF ClientStartup
<1>4. CASE client = NoClient
  <2>1. made' = made + 1 /\ client' = made + 1 /\ made < MaxClients
    BY <1>4 DEF ClientStartup
  <2>2. made + 1 \notin closed
    BY <1>1, <1>2
  <2>3. \A i \in (1 .. made') \ closed : i = made + 1
    BY <1>1, <1>2, <1>4, <2>1
  <2> QED  BY <1>1, <1>2, <2>1, <2>2, <2>3
<1> QED  BY <1>3, <1>4

LEMMA StartupHolds == LifespanInv /\ Startup => LifespanInv'
<1> SUFFICES ASSUME LifespanInv, Startup PROVE LifespanInv'
  OBVIOUS
<1> USE LifespanAssumption
<1>1. /\ phase = "down" /\ ClientStartup /\ closed' = closed
      /\ UNCHANGED <<enabled, seedFile, flowFile, service, call, via>> /\ advertised' \in Advertises
  <2>1. advertised \in Advertises
    BY DEF LifespanInv, TypeOK
  <2> QED  BY <2>1 DEF Startup, requests
<1>2. /\ made' \in 0 .. MaxClients /\ made <= made' /\ client' \in 1 .. made'
      /\ client' \notin closed /\ closed \subseteq 1 .. made'
      /\ (1 .. made') \ closed \subseteq {client'}
  BY <1>1, ClientStarts
<1>3. \A q \in Request : call[q] = "idle"
  BY <1>1 DEF LifespanInv, RequestsHeld
<1>4. loop = "none" /\ stopEvent = FALSE /\ left = 0 /\ late = 0 /\ made \in Nat
  BY <1>1 DEF LifespanInv, LoopHeld, TypeOK
<1>5. /\ phase' \in {"down", "serving"}
      /\ loop' \in {"none", "ready"} /\ stopEvent' = FALSE /\ left' = 0 /\ late' = 0
      /\ probeClient' \in {probeClient, client'}
      /\ loop' = "ready" => phase' = "serving" /\ probeClient' = client'
  BY <1>1, <1>4 DEF Startup, MonitorStart, monitor
<1>6. TypeOK'
  <2>1. probeClient' \in 0 .. made' /\ via' \in [Request -> 0 .. made']
    BY <1>1, <1>2, <1>4, <1>5 DEF LifespanInv, TypeOK
  <2>2. left' \in 0 .. MaxNodes /\ late' \in 0 .. MaxNodes /\ client' \in 0 .. made'
    BY <1>2, <1>5
  <2>3. /\ enabled' \in BOOLEAN /\ seedFile' \in BOOLEAN /\ flowFile' \in BOOLEAN
        /\ advertised' \in Advertises /\ service' \in BOOLEAN
        /\ call' \in [Request -> Doing]
    BY <1>1 DEF LifespanInv, TypeOK
  <2> QED  BY <1>1, <1>2, <1>5, <2>1, <2>2, <2>3 DEF TypeOK, Phase, Loop
<1>7. ClientHeld' /\ LoopHeld'
  BY <1>1, <1>2, <1>5 DEF ClientHeld, LoopHeld, NoClient
<1>8. RequestsHeld'
  BY <1>1, <1>3 DEF RequestsHeld
<1>9. NoClientLeaks' /\ StopWithinOneRound'
  BY <1>1, <1>2, <1>5 DEF NoClientLeaks, StopWithinOneRound
<1> QED  BY <1>6, <1>7, <1>8, <1>9 DEF LifespanInv

LEMMA LoopHolds == LifespanInv /\ LoopStep => LifespanInv'
<1> SUFFICES ASSUME LifespanInv, LoopStep PROVE LifespanInv'
  OBVIOUS
<1> USE LifespanAssumption
<1>1. /\ UNCHANGED <<enabled, seedFile, flowFile, advertised, phase, client, made, closed, stopEvent, probeClient>>
      /\ UNCHANGED <<service, call, via>>
  BY DEF LoopStep, LoopTurn, Probe, RoundOver, WaitOver, files, clients, requests
<1>2. ClientHeld' /\ RequestsHeld' /\ NoClientLeaks'
  BY <1>1 DEF LifespanInv, ClientHeld, RequestsHeld, NoClientLeaks
<1>3. /\ loop \in Loop /\ left \in 0 .. MaxNodes /\ late \in 0 .. MaxNodes
      /\ late + left <= MaxNodes /\ stopEvent \in BOOLEAN
  BY DEF LifespanInv, TypeOK, StopWithinOneRound
<1>4. loop # "none" /\ (~stopEvent => late = 0) /\ (loop # "probing" => left = 0)
  BY DEF LifespanInv, LoopHeld, LoopStep, LoopTurn, Probe, RoundOver, WaitOver
<1>5. /\ loop' \in Loop \ {"none"} /\ left' \in 0 .. MaxNodes /\ late' \in 0 .. MaxNodes
      /\ late' + left' <= MaxNodes
      /\ (~stopEvent => late' = 0) /\ (loop' # "probing" => left' = 0)
  <2>1. CASE LoopTurn
    BY <1>3, <1>4, <2>1 DEF LoopTurn, Loop
  <2>2. CASE Probe
    BY <1>3, <1>4, <2>2 DEF Probe, Loop
  <2>3. CASE RoundOver
    BY <1>3, <1>4, <2>3 DEF RoundOver, Loop
  <2>4. CASE WaitOver
    BY <1>3, <1>4, <2>4 DEF WaitOver, Loop
  <2> QED  BY <2>1, <2>2, <2>3, <2>4 DEF LoopStep
<1>6. TypeOK'
  BY <1>1, <1>5 DEF LifespanInv, TypeOK, Loop
<1>7. LoopHeld' /\ StopWithinOneRound'
  BY <1>1, <1>4, <1>5 DEF LifespanInv, LoopHeld, StopWithinOneRound
<1> QED  BY <1>2, <1>6, <1>7 DEF LifespanInv

LEMMA EndHolds ==
  LifespanInv /\ (EditFiles \/ RegistryChanges \/ Drain \/ BeginShutdown \/ CloseClient \/ ForgetClient) => LifespanInv'
<1> SUFFICES ASSUME LifespanInv,
                    EditFiles \/ RegistryChanges \/ Drain \/ BeginShutdown \/ CloseClient \/ ForgetClient
             PROVE  LifespanInv'
  OBVIOUS
<1> USE LifespanAssumption DEF LifespanInv, files, clients, monitor, requests, NoClient
<1>1. CASE EditFiles \/ RegistryChanges
  <2>1. TypeOK'
    BY <1>1 DEF EditFiles, RegistryChanges, TypeOK, Advertises
  <2>2. ClientHeld' /\ LoopHeld' /\ RequestsHeld' /\ NoClientLeaks' /\ StopWithinOneRound'
    BY <1>1 DEF EditFiles, RegistryChanges, ClientHeld, LoopHeld, RequestsHeld, NoClientLeaks, StopWithinOneRound
  <2> QED  BY <2>1, <2>2
<1>2. CASE Drain
  <2>1. TypeOK'
    BY <1>2 DEF Drain, TypeOK, Phase
  <2>2. ClientHeld' /\ LoopHeld' /\ RequestsHeld' /\ NoClientLeaks' /\ StopWithinOneRound'
    BY <1>2 DEF Drain, ClientHeld, LoopHeld, RequestsHeld, NoClientLeaks, StopWithinOneRound
  <2> QED  BY <2>1, <2>2
<1>3. CASE BeginShutdown
  <2>1. TypeOK'
    BY <1>3 DEF BeginShutdown, TypeOK, Phase
  <2>2. ClientHeld' /\ RequestsHeld' /\ NoClientLeaks' /\ StopWithinOneRound'
    BY <1>3 DEF BeginShutdown, ClientHeld, RequestsHeld, NoClientLeaks, StopWithinOneRound
  <2>3. LoopHeld'
    BY <1>3 DEF BeginShutdown, LoopHeld, TypeOK
  <2> QED  BY <2>1, <2>2, <2>3
<1>4. CASE CloseClient
  <2>1. client \in 1 .. made /\ made \in Nat
    BY <1>4 DEF CloseClient, ClientHeld, TypeOK
  <2>2. TypeOK'
    <3>1. closed' \subseteq 1 .. made /\ 0 \in 0 .. made /\ 0 \in 0 .. MaxNodes
      BY <1>4, <2>1 DEF CloseClient, TypeOK
    <3> QED  BY <1>4, <3>1 DEF CloseClient, TypeOK, Phase, Loop
  <2>3. ClientHeld' /\ LoopHeld' /\ RequestsHeld'
    BY <1>4 DEF CloseClient, ClientHeld, LoopHeld, RequestsHeld
  <2>4. NoClientLeaks' /\ StopWithinOneRound'
    BY <1>4 DEF CloseClient, NoClientLeaks, StopWithinOneRound
  <2> QED  BY <2>2, <2>3, <2>4
<1>5. CASE ForgetClient
  <2>1. TypeOK' /\ 0 \notin closed
    <3>1. 0 \in 0 .. made /\ 0 \notin closed
      BY DEF TypeOK
    <3> QED  BY <1>5, <3>1 DEF ForgetClient, TypeOK, Phase
  <2>2. ClientHeld' /\ LoopHeld' /\ RequestsHeld' /\ StopWithinOneRound'
    BY <1>5, <2>1 DEF ForgetClient, ClientHeld, LoopHeld, RequestsHeld, StopWithinOneRound
  <2>3. NoClientLeaks'
    BY <1>5 DEF ForgetClient, ClientHeld, NoClientLeaks
  <2> QED  BY <2>1, <2>2, <2>3
<1> QED  BY <1>1, <1>2, <1>3, <1>4, <1>5

LEMMA RequestHolds ==
  ASSUME LifespanInv, NEW q \in Request,
         Accept(q) \/ Send(q) \/ CallReturns(q) \/ Handle(q)
  PROVE  LifespanInv'
<1> USE LifespanAssumption DEF LifespanInv, files, clients, monitor
<1>1. UNCHANGED <<enabled, seedFile, flowFile, advertised, phase, client, made, closed, loop, stopEvent,
                  probeClient, left, late>>
  BY DEF Accept, Send, CallReturns, Handle, GetService, Answered
<1>2. ClientHeld' /\ LoopHeld' /\ NoClientLeaks' /\ StopWithinOneRound'
  BY <1>1 DEF ClientHeld, LoopHeld, NoClientLeaks, StopWithinOneRound
<1>3. phase \in {"serving", "draining"}
  BY DEF RequestsHeld, Accept, Send, CallReturns, Handle, GetService, Answered
<1>4. /\ call \in [Request -> Doing]
      /\ via \in [Request -> 0 .. made] /\ client \in 0 .. made /\ service \in BOOLEAN
  BY DEF TypeOK
<1>5. /\ call' \in [Request -> Doing]
      /\ via' \in [Request -> 0 .. made] /\ service' \in BOOLEAN
  <2>1. 0 \in 0 .. made
    BY DEF TypeOK
  <2>2. CASE Accept(q)
    BY <1>4, <2>2 DEF Accept, Doing
  <2>3. CASE Send(q)
    BY <1>4, <2>3 DEF Send, PooledClient, Doing
  <2>4. CASE CallReturns(q)
    BY <1>4, <2>1, <2>4 DEF CallReturns, NoClient, Doing
  <2>5. CASE GetService(q)
    BY <1>4, <2>5 DEF GetService, Doing
  <2>6. CASE Answered(q)
    BY <1>4, <2>1, <2>6 DEF Answered, NoClient, Doing
  <2> QED  BY <2>2, <2>3, <2>4, <2>5, <2>6 DEF Handle
<1>6. TypeOK'
  BY <1>1, <1>5 DEF TypeOK
<1>7. \A r \in Request : call'[r] = "calling" => via'[r] = client
  BY <1>4 DEF RequestsHeld, Accept, Send, CallReturns, Handle, GetService, Answered, PooledClient
<1>8. RequestsHeld'
  BY <1>1, <1>3, <1>7 DEF RequestsHeld
<1> QED  BY <1>2, <1>6, <1>8

LEMMA InvHolds == Spec => []LifespanInv
<1>1. LifespanInv /\ [Next]_vars => LifespanInv'
  <2> SUFFICES ASSUME LifespanInv, [Next]_vars PROVE LifespanInv'
    OBVIOUS
  <2>1. CASE Startup
    BY <2>1, StartupHolds
  <2>2. CASE LoopStep
    BY <2>2, LoopHolds
  <2>3. CASE EditFiles \/ RegistryChanges \/ Drain \/ BeginShutdown \/ CloseClient \/ ForgetClient
    BY <2>3, EndHolds
  <2>4. ASSUME NEW q \in Request, Accept(q) \/ Send(q) \/ CallReturns(q) \/ Handle(q)
        PROVE  LifespanInv'
    BY <2>4, RequestHolds
  <2>5. CASE UNCHANGED vars
    BY <2>5 DEF vars, files, clients, monitor, requests, LifespanInv, TypeOK, ClientHeld, LoopHeld,
                RequestsHeld, NoClientLeaks, StopWithinOneRound
  <2> QED  BY <2>1, <2>2, <2>3, <2>4, <2>5 DEF Next
<1> QED  BY InitHolds, <1>1, PTL DEF Spec

(* Types, and the late probes of a shutdown are as few as a round has.        *)
THEOREM LifespanTypeCorrect == Spec => []TypeOK
<1>1. LifespanInv => TypeOK
  BY DEF LifespanInv
<1> QED  BY <1>1, InvHolds, PTL

(* No probe and no worker call of any lifespan meets a closed client.         *)
THEOREM OpenClients == Spec => []ClientsInUseAreOpen
<1>1. LifespanInv => ClientsInUseAreOpen
  <2> SUFFICES ASSUME LifespanInv PROVE ClientsInUseAreOpen
    OBVIOUS
  <2> USE DEF LifespanInv, NoClient
  <2>1. /\ phase \in {"serving", "draining", "stopping"} => client \in (1 .. made) \ closed
        /\ made \in Nat
    BY DEF ClientHeld, TypeOK
  <2>2. loop = "probing" => probeClient \in (1 .. made) \ closed
    BY <2>1 DEF LoopHeld
  <2>3. \A q \in Request : call[q] = "calling" => via[q] \in (1 .. made) \ closed
    BY <2>1 DEF RequestsHeld
  <2> QED  BY <2>2, <2>3 DEF ClientsInUseAreOpen
<1> QED  BY <1>1, InvHolds, PTL

(* Every client still open is the one the next shutdown will close.           *)
THEOREM ClientsKept == Spec => []NoClientLeaks
<1>1. LifespanInv => NoClientLeaks
  BY DEF LifespanInv
<1> QED  BY <1>1, InvHolds, PTL

(* Stopping the monitor takes at most the probes of one round.                *)
THEOREM StopBounded == Spec => []StopWithinOneRound
<1>1. LifespanInv => StopWithinOneRound
  BY DEF LifespanInv
<1> QED  BY <1>1, InvHolds, PTL

-----------------------------------------------------------------------------
(* A monitor that runs is enabled, so that stop reaches it with the event.    *)
StopReaches ==
  /\ loop # "none" => enabled
  /\ phase = "stopping" /\ enabled => stopEvent

LEMMA StopReachesHolds == Spec => []StopReaches
<1>1. Init => StopReaches
  BY DEF Init, StopReaches
<1>2. LifespanInv /\ StopReaches /\ [Next]_vars => StopReaches'
  <2> SUFFICES ASSUME LifespanInv, StopReaches, [Next]_vars PROVE StopReaches'
    OBVIOUS
  <2> USE DEF StopReaches, files, clients, monitor, requests
  <2>1. CASE Startup
    BY <2>1 DEF Startup, MonitorStart
  <2>2. CASE EditFiles \/ RegistryChanges
    BY <2>2 DEF EditFiles, RegistryChanges
  <2>3. CASE LoopStep
    BY <2>3 DEF LoopStep, LoopTurn, Probe, RoundOver, WaitOver
  <2>4. CASE Drain \/ BeginShutdown \/ CloseClient \/ ForgetClient
    BY <2>4 DEF Drain, BeginShutdown, CloseClient, ForgetClient
  <2>5. CASE \E q \in Request : Accept(q) \/ Send(q) \/ CallReturns(q) \/ Handle(q)
    BY <2>5 DEF Accept, Send, CallReturns, Handle, GetService, Answered
  <2>6. CASE UNCHANGED vars
    BY <2>6 DEF vars
  <2> QED  BY <2>1, <2>2, <2>3, <2>4, <2>5, <2>6 DEF Next
<1> QED  BY <1>1, <1>2, InvHolds, PTL DEF Spec

(* How many steps a shutdown has left at most, once the requests are done:    *)
(* the probes of the round, the way out of the loop, and the two steps of the *)
(* client.                                                                    *)
Stopping == phase \in {"stopping", "closing"}

StopStepsLeft ==
  (IF phase = "stopping" THEN 2 ELSE IF phase = "closing" THEN 1 ELSE 0)
    + (CASE loop = "probing" -> left + 3
         [] loop = "waiting" -> 2
         [] loop = "ready"   -> 1
         [] OTHER            -> 0)

(* While a Gate shuts down, every step but an edit of its files is one of the *)
(* shutdown and brings it nearer to its end: neither the monitor's loop nor   *)
(* requests keep it from going down (health_monitor.py, stop; main.py).       *)
StopProgresses ==
  Stopping => StopStepsLeft' < StopStepsLeft \/ UNCHANGED <<phase, clients, monitor, requests>>

(* Each shutdown takes boundedly many steps from the stop event on; that it   *)
(* takes them is the fairness of FairSpec.                                    *)
THEOREM ShutdownIsFinite ==
  Spec => [](StopStepsLeft \in Nat) /\ [][StopProgresses]_vars
<1>1. LifespanInv => StopStepsLeft \in Nat
  <2> SUFFICES ASSUME LifespanInv PROVE StopStepsLeft \in Nat
    OBVIOUS
  <2>1. left \in Nat /\ loop \in Loop
    BY LifespanAssumption DEF LifespanInv, TypeOK
  <2> QED  BY <2>1 DEF StopStepsLeft, Loop
<1>2. LifespanInv /\ StopReaches /\ [Next]_vars => [StopProgresses]_vars
  <2> SUFFICES ASSUME LifespanInv, StopReaches, Next, Stopping
               PROVE  StopStepsLeft' < StopStepsLeft \/ UNCHANGED <<phase, clients, monitor, requests>>
    BY DEF vars, StopProgresses
  <2>1. /\ left \in Nat /\ loop \in Loop
        /\ \A q \in Request : call[q] = "idle"
    BY LifespanAssumption DEF LifespanInv, TypeOK, RequestsHeld, Stopping
  <2>2. CASE LoopStep
    <3>1. phase' = phase /\ phase = "stopping" /\ stopEvent
      BY <2>2 DEF LoopStep, LoopTurn, Probe, RoundOver, WaitOver, LifespanInv, LoopHeld,
                  StopReaches, Stopping
    <3>2. \/ loop = "ready" /\ loop' = "ended"
          \/ loop = "probing" /\ loop' = "probing" /\ left' = left - 1
          \/ loop = "probing" /\ loop' = "waiting"
          \/ loop = "waiting" /\ loop' = "ready"
      BY <2>2, <3>1 DEF LoopStep, LoopTurn, Probe, RoundOver, WaitOver
    <3> QED  BY <2>1, <3>1, <3>2 DEF StopStepsLeft
  <2>3. CASE CloseClient
    BY <2>1, <2>3 DEF CloseClient, StopStepsLeft
  <2>4. CASE ForgetClient
    <3>1. loop = "none"
      BY <2>4 DEF ForgetClient, LifespanInv, LoopHeld
    <3> QED  BY <2>4, <3>1 DEF ForgetClient, StopStepsLeft, monitor
  <2>5. CASE EditFiles
    BY <2>5 DEF EditFiles
  <2>6. ~(Startup \/ RegistryChanges \/ Drain \/ BeginShutdown)
    BY DEF Startup, RegistryChanges, Drain, BeginShutdown, Stopping
  <2>7. ASSUME NEW q \in Request PROVE ~(Accept(q) \/ Send(q) \/ CallReturns(q) \/ Handle(q))
    BY <2>1 DEF Accept, Send, CallReturns, Handle, GetService, Answered, Stopping
  <2> QED  BY <2>2, <2>3, <2>4, <2>5, <2>6, <2>7 DEF Next
<1> QED  BY <1>1, <1>2, InvHolds, StopReachesHolds, PTL DEF Spec
=============================================================================
