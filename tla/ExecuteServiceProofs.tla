------------------------ MODULE ExecuteServiceProofs ------------------------
(***************************************************************************)
(* Request accounting, duplicate suppression, cache isolation and the      *)
(* breaker's counters, for every finite set of request slots, every set of *)
(* packets and every limit.                                                *)
(*                                                                         *)
(* Three facts make the properties inductive.  While an execution runs for *)
(* no longer than the replay window, the guard has a record of its packet, *)
(* no older than the execution: only an execution that outlasts the window *)
(* can see its packet accepted again.  A cached answer is a success that   *)
(* was produced under the identity it is filed under.  A success returned  *)
(* less than the lifetime ago is still in the cache, and as old there as   *)
(* it is.                                                                  *)
(***************************************************************************)
EXTENDS ExecuteService, FiniteSetTheorems, TLAPS

SeenWhileRunning ==
  \A r \in Busy : running[r].elapsed <= ReplayWindow =>
    seen[running[r].packet] # Nothing /\ seen[running[r].packet] <= running[r].elapsed

WithinBudget == \A r \in Busy : running[r].elapsed <= BudgetOf(running[r].packet)

CacheIsOwn ==
  \A k \in Identity : cache[k] # Nothing =>
    cache[k].answer.ok /\ IdentityOf(cache[k].answer.by) = k /\ KeyOf[cache[k].answer.by] # NoKey

AnsweredIsCached ==
  \A k \in Identity : answered[k] < Ttl => cache[k] # Nothing /\ cache[k].age = answered[k]

Entry == [answer : Answer, age : 0 .. Ttl]

CacheInv ==
  /\ cache \in [Identity -> Entry \cup {Nothing}]
  /\ answered \in [Identity -> 0 .. Ttl]
  /\ CacheIsOwn
  /\ AnsweredIsCached

BreakerInv == BreakerTypeOK /\ BreakerConsistent

(* The executions, their count and what the replay guard knows of them. *)
RunInv ==
  /\ running \in [Request -> Running \cup {Idle}]
  /\ seen \in [Packet -> (0 .. ReplayWindow + 1) \cup {Nothing}]
  /\ inFlight \in Nat
  /\ InFlightExact
  /\ WithinBudget
  /\ SeenWhileRunning
  /\ NoConcurrentDuplicate

SinkInv ==
  /\ dlq \in Seq(Packet) /\ Len(dlq) <= MaxEntries
  /\ served \in [to : Packet, answer : Answer] \cup {Nothing}
  /\ CachedAnswerIsOwn

Inv == RunInv /\ BreakerInv /\ CacheInv /\ SinkInv

-----------------------------------------------------------------------------
(* The breaker *)

LEMMA BreakerKeeps ==
  ASSUME BreakerInv,
         BeforeCall \/ RecordSuccess \/ RecordFailure \/ BreakerAges \/ UNCHANGED breakerVars
  PROVE  BreakerInv'
<1>1. CASE BeforeCall
  BY <1>1, BreakerAssumption DEF BeforeCall, BreakerInv, BreakerTypeOK, BreakerConsistent
<1>2. CASE RecordSuccess
  BY <1>2, BreakerAssumption DEF RecordSuccess, BreakerInv, BreakerTypeOK, BreakerConsistent
<1>3. CASE RecordFailure
  BY <1>3, BreakerAssumption
  DEF RecordFailure, TripOpen, BreakerInv, BreakerTypeOK, BreakerConsistent
<1>4. CASE BreakerAges
  BY <1>4, BreakerAssumption DEF BreakerAges, BreakerInv, BreakerTypeOK, BreakerConsistent
<1>5. CASE UNCHANGED breakerVars
  BY <1>5 DEF breakerVars, BreakerInv, BreakerTypeOK, BreakerConsistent
<1> QED
  BY <1>1, <1>2, <1>3, <1>4, <1>5

-----------------------------------------------------------------------------
(* The cache *)

LEMMA IdentityType ==
  ASSUME NEW p \in Packet, KeyOf[p] # NoKey
  PROVE  IdentityOf(p) \in Identity
BY ExecuteAssumption DEF IdentityOf, Identity

(* A lookup drops nothing that may still be served. *)
LEMMA LookUpKeeps ==
  ASSUME CacheInv, NEW p \in Packet, LookUp(p), UNCHANGED answered
  PROVE  CacheInv'
<1>1. CASE cache' = cache
  BY <1>1 DEF CacheInv, CacheIsOwn, AnsweredIsCached
<1>2. CASE KeyOf[p] # NoKey /\ ~Live(IdentityOf(p))
  <2> DEFINE i == IdentityOf(p)
  <2>1. i \in Identity
    BY <1>2, IdentityType
  <2>2. cache' = [cache EXCEPT ![i] = Nothing]
    BY <1>2 DEF LookUp
  <2>3. ~(answered[i] < Ttl)
    BY <1>2, <2>1 DEF CacheInv, AnsweredIsCached, Live
  <2> HIDE DEF i
  <2>4. cache' \in [Identity -> Entry \cup {Nothing}]
    BY <2>2 DEF CacheInv
  <2>5. CacheIsOwn'
    BY <2>1, <2>2 DEF CacheInv, CacheIsOwn
  <2>6. AnsweredIsCached'
    BY <2>1, <2>2, <2>3 DEF CacheInv, AnsweredIsCached
  <2> QED
    BY <2>4, <2>5, <2>6 DEF CacheInv
<1> QED
  BY <1>1, <1>2 DEF LookUp

(* A success is filed under the identity of the packet it answers. *)
LEMMA StoreKeeps ==
  ASSUME CacheInv, NEW p \in Packet, NEW ok \in BOOLEAN, Store(p, ok),
         answered' = IF ok /\ KeyOf[p] # NoKey THEN [answered EXCEPT ![IdentityOf(p)] = 0]
                                               ELSE answered
  PROVE  CacheInv'
<1>1. CASE ~(ok /\ KeyOf[p] # NoKey)
  BY <1>1 DEF Store, CacheInv, CacheIsOwn, AnsweredIsCached
<1>2. CASE ok /\ KeyOf[p] # NoKey
  <2> DEFINE i == IdentityOf(p)
             e == [answer |-> [by |-> p, ok |-> ok], age |-> 0]
  <2>1. i \in Identity /\ IdentityOf(p) = i
    BY <1>2, IdentityType
  <2>2. cache' = [cache EXCEPT ![i] = e] /\ answered' = [answered EXCEPT ![i] = 0]
    BY <1>2 DEF Store
  <2>3. e \in Entry /\ e.answer.ok /\ e.answer.by = p /\ e.age = 0
    BY <1>2, ExecuteAssumption DEF Entry, Answer
  <2>4. Nothing \notin Entry
    BY ExecuteAssumption DEF Entry
  <2> HIDE DEF i, e
  <2>5. cache' \in [Identity -> Entry \cup {Nothing}] /\ answered' \in [Identity -> 0 .. Ttl]
    <3>1. 0 \in 0 .. Ttl
      BY ExecuteAssumption
    <3> QED
      BY <2>2, <2>3, <3>1 DEF CacheInv
  <2>6. CacheIsOwn'
    BY <1>2, <2>1, <2>2, <2>3 DEF CacheInv, CacheIsOwn
  <2>7. AnsweredIsCached'
    BY <2>1, <2>2, <2>3, <2>4 DEF CacheInv, AnsweredIsCached
  <2> QED
    BY <2>5, <2>6, <2>7 DEF CacheInv
<1> QED
  BY <1>1, <1>2

(* Answers and successes grow old together. *)
LEMMA TickKeepsCache ==
  ASSUME CacheInv, Tick
  PROVE  CacheInv'
<1>1. /\ cache' = [k \in Identity |-> IF cache[k] = Nothing THEN Nothing
                                      ELSE [cache[k] EXCEPT !.age = Older(@, Ttl)]]
      /\ answered' = [k \in Identity |-> Older(answered[k], Ttl)]
  BY DEF Tick
<1>2. Ttl \in Nat /\ \A n \in 0 .. Ttl : Older(n, Ttl) \in 0 .. Ttl
  BY ExecuteAssumption DEF Older
<1>3. Nothing \notin Entry
  BY ExecuteAssumption DEF Entry
<1>4. ASSUME NEW k \in Identity
      PROVE  /\ cache'[k] \in Entry \cup {Nothing}
             /\ answered'[k] \in 0 .. Ttl
             /\ cache'[k] # Nothing => /\ cache[k] # Nothing
                                       /\ cache'[k].answer = cache[k].answer
             /\ answered'[k] < Ttl => cache'[k] # Nothing /\ cache'[k].age = answered'[k]
  <2>1. answered[k] \in 0 .. Ttl /\ answered'[k] = Older(answered[k], Ttl)
    BY <1>1 DEF CacheInv
  <2>2. answered'[k] < Ttl => answered[k] < Ttl
    BY <1>2, <2>1 DEF Older
  <2>3. CASE cache[k] = Nothing
    <3>1. cache'[k] = Nothing
      BY <1>1, <2>3
    <3>2. ~(answered[k] < Ttl)
      BY <2>3 DEF CacheInv, AnsweredIsCached
    <3> QED
      BY <1>2, <2>1, <2>2, <3>1, <3>2
  <2>4. CASE cache[k] # Nothing
    <3> DEFINE o == Older(cache[k].age, Ttl)
    <3>1. cache[k] \in Entry
      BY <2>4 DEF CacheInv
    <3>2. o \in 0 .. Ttl
      BY <1>2, <3>1 DEF Entry
    <3>3. cache'[k] = [cache[k] EXCEPT !.age = o]
      BY <1>1, <2>4
    <3>4. answered[k] < Ttl => o = answered'[k]
      BY <2>1, <2>4 DEF CacheInv, AnsweredIsCached
    <3> HIDE DEF o
    <3>5. cache'[k] \in Entry /\ cache'[k].age = o /\ cache'[k].answer = cache[k].answer
      BY <3>1, <3>2, <3>3 DEF Entry
    <3> QED
      BY <1>2, <1>3, <2>1, <2>2, <2>4, <3>4, <3>5
  <2> QED
    BY <2>3, <2>4
<1>5. cache' \in [Identity -> Entry \cup {Nothing}] /\ answered' \in [Identity -> 0 .. Ttl]
  BY <1>1, <1>4
<1>6. CacheIsOwn'
  BY <1>4 DEF CacheInv, CacheIsOwn
<1>7. AnsweredIsCached'
  BY <1>4 DEF AnsweredIsCached
<1> QED
  BY <1>5, <1>6, <1>7 DEF CacheInv

LEMMA CacheStutters ==
  ASSUME CacheInv, UNCHANGED <<cache, answered>>
  PROVE  CacheInv'
BY DEF CacheInv, CacheIsOwn, AnsweredIsCached

-----------------------------------------------------------------------------
(* The executions *)

LEMMA BusyCounts == IsFiniteSet(Busy) /\ Cardinality(Busy) \in Nat
<1>1. Busy \in SUBSET Request
  BY DEF Busy
<1>2. IsFiniteSet(Busy)
  BY <1>1, FS_Subset, ExecuteAssumption
<1> QED
  BY <1>2, FS_CardinalityType

LEMMA RunningType ==
  ASSUME RunInv, NEW r \in Busy
  PROVE  /\ r \in Request /\ running[r] \in Running
         /\ running[r].packet \in Packet /\ running[r].elapsed \in Nat
<1>1. r \in Request /\ running[r] \in Running
  BY DEF Busy, RunInv
<1> QED
  BY <1>1 DEF Running

LEMMA BudgetType ==
  ASSUME NEW p \in Packet
  PROVE  BudgetOf(p) \in Nat
<1>1. Advertised(p) \in Nat /\ ResponseMargin \in Nat
  BY ExecuteAssumption DEF Advertised
<1> QED
  BY <1>1 DEF BudgetOf

(* A packet the guard accepts again has outlasted the window wherever it      *)
(* still runs.                                                                *)
LEMMA AcceptedIsOld ==
  ASSUME RunInv, NEW r \in Busy, ~Replayed(running[r].packet)
  PROVE  running[r].elapsed > ReplayWindow
<1>1. running[r].packet \in Packet /\ running[r].elapsed \in Nat /\ ReplayWindow \in Nat
  BY RunningType, ExecuteAssumption
<1> SUFFICES ASSUME running[r].elapsed <= ReplayWindow PROVE FALSE
  BY <1>1
<1>2. seen[running[r].packet] # Nothing /\ seen[running[r].packet] <= running[r].elapsed
  BY DEF RunInv, SeenWhileRunning
<1>3. seen[running[r].packet] \in Nat
  BY <1>1, <1>2 DEF RunInv
<1> QED
  BY <1>1, <1>2, <1>3 DEF Replayed

(* The guard only forgets packets that run for longer than the window, if at  *)
(* all.                                                                       *)
LEMMA ForgetKeepsSeen ==
  ASSUME RunInv, NEW r \in Busy, running[r].elapsed <= ReplayWindow
  PROVE  /\ Expired[running[r].packet] # Nothing
         /\ Expired[running[r].packet] <= running[r].elapsed
<1>1. running[r].packet \in Packet /\ running[r].elapsed \in Nat /\ ReplayWindow \in Nat
  BY RunningType, ExecuteAssumption
<1>2. seen[running[r].packet] # Nothing /\ seen[running[r].packet] <= running[r].elapsed
  BY DEF RunInv, SeenWhileRunning
<1>3. seen[running[r].packet] \in Nat
  BY <1>1, <1>2 DEF RunInv
<1>4. ~(seen[running[r].packet] > ReplayWindow)
  BY <1>1, <1>2, <1>3
<1> QED
  BY <1>1, <1>2, <1>4 DEF Expired

LEMMA ForgetKeepsRun ==
  ASSUME RunInv, seen' = Expired, UNCHANGED <<running, inFlight>>
  PROVE  RunInv'
<1>1. seen' \in [Packet -> (0 .. ReplayWindow + 1) \cup {Nothing}]
  BY DEF RunInv, Expired
<1>2. Busy' = Busy
  BY DEF Busy
<1>3. SeenWhileRunning'
  BY <1>2, ForgetKeepsSeen DEF SeenWhileRunning
<1> QED
  BY <1>1, <1>2, <1>3 DEF RunInv, WithinBudget, InFlightExact, NoConcurrentDuplicate

LEMMA StartKeepsRun ==
  ASSUME RunInv, NEW r \in Request, NEW p \in Packet, Start(r, p)
  PROVE  RunInv'
<1> DEFINE e == [packet |-> p, elapsed |-> 0]
<1>1. /\ running[r] = Idle /\ ~(inFlight >= MaxInFlight) /\ ~Replayed(p)
      /\ seen' = [Expired EXCEPT ![p] = 0]
      /\ running' = [running EXCEPT ![r] = e]
      /\ inFlight' = inFlight + 1
  BY DEF Start, Admitted, Sheds
<1>2. {0, MaxInFlight, ReplayWindow} \subseteq Nat /\ 0 \in 0 .. ReplayWindow + 1
  BY ExecuteAssumption
<1>3. e \in Running /\ e # Idle /\ e.packet = p /\ e.elapsed = 0
  BY <1>2, ExecuteAssumption DEF Running
<1> HIDE DEF e
<1>4. running' \in [Request -> Running \cup {Idle}]
  BY <1>1, <1>3 DEF RunInv
<1>5. seen' \in [Packet -> (0 .. ReplayWindow + 1) \cup {Nothing}]
  <2>1. Expired \in [Packet -> (0 .. ReplayWindow + 1) \cup {Nothing}]
    BY DEF RunInv, Expired
  <2> QED
    BY <1>1, <1>2, <2>1
<1>6. Busy' = Busy \cup {r} /\ r \notin Busy
  BY <1>1, <1>3 DEF RunInv, Busy
<1>7. ASSUME NEW s \in Busy
      PROVE  /\ s \in Request /\ s # r /\ running'[s] = running[s]
             /\ running[s].packet \in Packet /\ running[s].elapsed \in Nat
             /\ running[s].packet = p => running[s].elapsed > ReplayWindow
  <2>1. s \in Request /\ s # r /\ running[s].packet \in Packet /\ running[s].elapsed \in Nat
    BY <1>6, RunningType
  <2>2. running[s].packet = p => running[s].elapsed > ReplayWindow
    BY <1>1, AcceptedIsOld
  <2> QED
    BY <1>1, <2>1, <2>2 DEF RunInv
<1>8. running'[r] = e
  BY <1>1 DEF RunInv
<1>9. InFlightExact'
  <2>1. Cardinality(Busy') = Cardinality(Busy) + 1
    BY <1>6, BusyCounts, FS_AddElement
  <2> QED
    BY <1>1, <1>2, <2>1, BusyCounts DEF RunInv, InFlightExact
<1>10. WithinBudget'
  <2>1. running'[r].elapsed <= BudgetOf(running'[r].packet)
    BY <1>3, <1>8, BudgetType
  <2> QED
    BY <1>6, <1>7, <2>1 DEF RunInv, WithinBudget
<1>11. SeenWhileRunning'
  <2>1. seen'[p] = 0 /\ \A q \in Packet \ {p} : seen'[q] = Expired[q]
    BY <1>1 DEF Expired
  <2>2. ASSUME NEW s \in Busy, running[s].elapsed <= ReplayWindow
        PROVE  seen'[running[s].packet] # Nothing /\ seen'[running[s].packet] <= running[s].elapsed
    <3>1. CASE running[s].packet = p
      BY <1>2, <1>7, <2>2, <3>1
    <3>2. CASE running[s].packet # p
      BY <1>7, <2>1, <2>2, <3>2, ForgetKeepsSeen
    <3> QED
      BY <3>1, <3>2
  <2>3. 0 # Nothing
    BY <1>2, ExecuteAssumption
  <2> QED
    BY <1>2, <1>3, <1>6, <1>7, <1>8, <2>1, <2>2, <2>3 DEF SeenWhileRunning
<1>12. NoConcurrentDuplicate'
  <2>1. ASSUME NEW s \in Busy, running[s].packet = p
        PROVE  BudgetOf(p) > ReplayWindow /\ running[s].elapsed > 0 + ReplayWindow
    <3>1. running[s].elapsed <= BudgetOf(p)
      BY <2>1 DEF RunInv, WithinBudget
    <3> QED
      BY <1>2, <1>7, <2>1, <3>1, BudgetType
  <2>2. ASSUME NEW s \in Busy, NEW q \in Busy, running[s].packet = running[q].packet, s # q
        PROVE  /\ BudgetOf(running[s].packet) > ReplayWindow
               /\ \/ running[s].elapsed > running[q].elapsed + ReplayWindow
                  \/ running[q].elapsed > running[s].elapsed + ReplayWindow
    BY <2>2 DEF RunInv, NoConcurrentDuplicate
  <2> SUFFICES ASSUME NEW s \in Busy', NEW q \in Busy', running'[s].packet = running'[q].packet, s # q
               PROVE  /\ BudgetOf(running'[s].packet) > ReplayWindow
                      /\ \/ running'[s].elapsed > running'[q].elapsed + ReplayWindow
                         \/ running'[q].elapsed > running'[s].elapsed + ReplayWindow
    BY DEF NoConcurrentDuplicate, BudgetOf, Advertised
  <2>3. CASE s \in Busy /\ q \in Busy
    BY <1>7, <2>2, <2>3
  <2>4. CASE s = r /\ q \in Busy
    BY <1>3, <1>7, <1>8, <2>1, <2>4
  <2>5. CASE s \in Busy /\ q = r
    BY <1>3, <1>7, <1>8, <2>1, <2>5
  <2> QED
    BY <1>6, <2>3, <2>4, <2>5
<1> QED
  BY <1>1, <1>4, <1>5, <1>9, <1>10, <1>11, <1>12 DEF RunInv

LEMMA ReleaseKeepsRun ==
  ASSUME RunInv, NEW r \in Request, running[r] # Idle, Release(r)
  PROVE  RunInv'
<1>1. /\ running' = [running EXCEPT ![r] = Idle]
      /\ inFlight' = inFlight - 1 /\ seen' = seen
  BY DEF Release
<1>2. Busy' = Busy \ {r} /\ r \in Busy
  BY <1>1 DEF RunInv, Busy
<1>3. \A s \in Busy' : s \in Busy /\ running'[s] = running[s]
  BY <1>1, <1>2 DEF RunInv, Busy
<1>4. InFlightExact' /\ inFlight' \in Nat
  <2>1. Cardinality(Busy') = Cardinality(Busy) - 1
    BY <1>2, BusyCounts, FS_RemoveElement
  <2>2. Cardinality(Busy) # 0
    BY <1>2, BusyCounts, FS_EmptySet
  <2>3. MaxInFlight \in Nat
    BY ExecuteAssumption
  <2> QED
    BY <1>1, <2>1, <2>2, <2>3, BusyCounts DEF RunInv, InFlightExact
<1>5. WithinBudget' /\ SeenWhileRunning' /\ NoConcurrentDuplicate'
  BY <1>1, <1>3 DEF RunInv, WithinBudget, SeenWhileRunning, NoConcurrentDuplicate
<1>6. running' \in [Request -> Running \cup {Idle}]
  BY <1>1 DEF RunInv
<1> QED
  BY <1>1, <1>4, <1>5, <1>6 DEF RunInv

LEMMA TickKeepsRun ==
  ASSUME RunInv, Tick
  PROVE  RunInv'
<1>1. /\ \A r \in Busy : running[r].elapsed < BudgetOf(running[r].packet)
      /\ running' = [r \in Request |-> IF r \in Busy THEN [running[r] EXCEPT !.elapsed = @ + 1] ELSE Idle]
      /\ seen' = [p \in Packet |-> IF seen[p] = Nothing THEN Nothing ELSE Older(seen[p], ReplayWindow + 1)]
      /\ inFlight' = inFlight
  BY DEF Tick
<1>2. ReplayWindow \in Nat
  BY ExecuteAssumption
<1>3. ASSUME NEW r \in Busy
      PROVE  /\ r \in Request /\ running'[r] \in Running /\ running'[r] # Idle
             /\ running[r].packet \in Packet /\ running[r].elapsed \in Nat
             /\ running'[r].packet = running[r].packet
             /\ running'[r].elapsed = running[r].elapsed + 1
  <2>1. r \in Request /\ running[r] \in Running /\ running[r].packet \in Packet /\ running[r].elapsed \in Nat
    BY RunningType
  <2> DEFINE e == running[r].elapsed + 1
  <2>2. running'[r] = [running[r] EXCEPT !.elapsed = e]
    BY <1>1, <2>1
  <2>3. e \in Nat
    BY <2>1
  <2> HIDE DEF e
  <2>4. running'[r] \in Running /\ running'[r].packet = running[r].packet /\ running'[r].elapsed = e
    BY <2>1, <2>2, <2>3 DEF Running
  <2> QED
    BY <2>1, <2>4, ExecuteAssumption DEF e
<1>4. Busy' = Busy
  <2>1. \A r \in Request \ Busy : running'[r] = Idle
    BY <1>1
  <2> QED
    BY <1>3, <2>1 DEF Busy
<1>5. running' \in [Request -> Running \cup {Idle}]
  <2>1. \A r \in Request : running'[r] \in Running \cup {Idle}
    BY <1>1, <1>3
  <2> QED
    BY <1>1, <2>1
<1>6. seen' \in [Packet -> (0 .. ReplayWindow + 1) \cup {Nothing}]
  BY <1>1, <1>2 DEF RunInv, Older
<1>7. WithinBudget'
  <2> SUFFICES ASSUME NEW r \in Busy PROVE running[r].elapsed + 1 <= BudgetOf(running[r].packet)
    BY <1>3, <1>4 DEF WithinBudget, BudgetOf, Advertised
  <2>1. running[r].elapsed < BudgetOf(running[r].packet) /\ running[r].elapsed \in Nat
    BY <1>1, <1>3
  <2>2. BudgetOf(running[r].packet) \in Nat
    BY <1>3, BudgetType
  <2> QED
    BY <2>1, <2>2
<1>8. SeenWhileRunning'
  <2> SUFFICES ASSUME NEW r \in Busy, running[r].elapsed + 1 <= ReplayWindow
               PROVE  /\ seen'[running[r].packet] # Nothing
                      /\ seen'[running[r].packet] <= running[r].elapsed + 1
    BY <1>3, <1>4 DEF SeenWhileRunning
  <2> DEFINE q == running[r].packet
  <2>1. q \in Packet /\ running[r].elapsed \in Nat
    BY <1>3
  <2>2. seen[q] # Nothing /\ seen[q] <= running[r].elapsed
    BY <1>2, <2>1 DEF RunInv, SeenWhileRunning
  <2>3. seen[q] \in Nat
    BY <2>1, <2>2 DEF RunInv
  <2>4. /\ Older(seen[q], ReplayWindow + 1) \in Nat
        /\ Older(seen[q], ReplayWindow + 1) <= running[r].elapsed + 1
    BY <1>2, <2>1, <2>2, <2>3 DEF Older
  <2> HIDE DEF q
  <2>5. seen'[q] = Older(seen[q], ReplayWindow + 1)
    BY <1>1, <2>1, <2>2
  <2> QED
    BY <2>4, <2>5, ExecuteAssumption DEF q
<1>9. InFlightExact'
  BY <1>1, <1>4 DEF RunInv, InFlightExact
<1>10. NoConcurrentDuplicate'
  <2> SUFFICES ASSUME NEW r \in Busy, NEW s \in Busy, running[r].packet = running[s].packet, r # s
               PROVE  /\ BudgetOf(running[r].packet) > ReplayWindow
                      /\ \/ running[r].elapsed + 1 > (running[s].elapsed + 1) + ReplayWindow
                         \/ running[s].elapsed + 1 > (running[r].elapsed + 1) + ReplayWindow
    BY <1>3, <1>4 DEF NoConcurrentDuplicate, BudgetOf, Advertised
  <2>1. /\ BudgetOf(running[r].packet) > ReplayWindow
        /\ \/ running[r].elapsed > running[s].elapsed + ReplayWindow
           \/ running[s].elapsed > running[r].elapsed + ReplayWindow
    BY DEF RunInv, NoConcurrentDuplicate
  <2> QED
    BY <1>2, <1>3, <2>1
<1> QED
  BY <1>1, <1>5, <1>6, <1>7, <1>8, <1>9, <1>10 DEF RunInv

LEMMA RunStutters ==
  ASSUME RunInv, UNCHANGED <<running, seen, inFlight>>
  PROVE  RunInv'
<1>1. Busy' = Busy
  BY DEF Busy
<1>2. InFlightExact' /\ WithinBudget' /\ SeenWhileRunning' /\ NoConcurrentDuplicate'
  BY <1>1 DEF RunInv, InFlightExact, WithinBudget, SeenWhileRunning, NoConcurrentDuplicate
<1> QED
  BY <1>2 DEF RunInv

-----------------------------------------------------------------------------
(* The dead-letter queue and what was served from the cache *)

LEMMA PutKeeps ==
  ASSUME dlq \in Seq(Packet), Len(dlq) <= MaxEntries, NEW p \in Packet, Put(p)
  PROVE  dlq' \in Seq(Packet) /\ Len(dlq') <= MaxEntries
<1>1. MaxEntries \in Nat /\ MaxEntries # 0
  BY ExecuteAssumption
<1>2. CASE Len(dlq) < MaxEntries
  BY <1>1, <1>2 DEF Put
<1>3. CASE ~(Len(dlq) < MaxEntries)
  <2>1. Len(dlq) = MaxEntries /\ dlq # <<>>
    BY <1>1, <1>3
  <2>2. Tail(dlq) \in Seq(Packet) /\ Len(Tail(dlq)) = MaxEntries - 1
    BY <1>1, <2>1
  <2> QED
    BY <1>1, <1>3, <2>2 DEF Put
<1> QED
  BY <1>2, <1>3

LEMMA NothingServed ==
  ASSUME served' = Nothing, dlq' \in Seq(Packet), Len(dlq') <= MaxEntries
  PROVE  SinkInv'
BY DEF SinkInv, CachedAnswerIsOwn

(* What the cache serves was filed under the caller's own identity.           *)
LEMMA ServedIsOwn ==
  ASSUME CacheInv, SinkInv, NEW p \in Packet, AnswerFromCache(p)
  PROVE  SinkInv'
<1> DEFINE i == IdentityOf(p)
           x == cache[i].answer
<1>1. /\ KeyOf[p] # NoKey /\ cache[i] # Nothing
      /\ served' = [to |-> p, answer |-> x] /\ dlq' = dlq
  BY DEF AnswerFromCache, Hit, Live
<1>2. i \in Identity
  BY <1>1, IdentityType
<1>3. x \in Answer /\ x.ok /\ IdentityOf(x.by) = i /\ KeyOf[x.by] # NoKey
  BY <1>1, <1>2 DEF CacheInv, CacheIsOwn, Entry
<1>4. x.by \in Packet
  BY <1>3 DEF Answer
<1>5. TenantOf[p] = TenantOf[x.by] /\ ActionOf[p] = ActionOf[x.by] /\ KeyOf[p] = KeyOf[x.by]
  BY <1>3 DEF IdentityOf
<1> HIDE DEF x
<1>6. served'.to = p /\ served'.answer = x /\ served' \in [to : Packet, answer : Answer]
  BY <1>1, <1>3
<1> QED
  BY <1>1, <1>3, <1>5, <1>6 DEF SinkInv, CachedAnswerIsOwn

-----------------------------------------------------------------------------
(* The steps *)

LEMMA AdmissionPreserves ==
  ASSUME Inv, NEW p \in Packet,
         AnswerFromCache(p) \/ RefuseReplay(p) \/ (\E r \in Request : Start(r, p))
  PROVE  Inv'
<1>1. BreakerInv'
  BY BreakerKeeps DEF Inv, AnswerFromCache, RefuseReplay, Start, Admitted
<1>2. CASE AnswerFromCache(p)
  <2>1. UNCHANGED <<running, seen, inFlight, cache, answered>>
    BY <1>2 DEF AnswerFromCache
  <2> QED
    BY <1>1, <1>2, <2>1, RunStutters, CacheStutters, ServedIsOwn DEF Inv
<1>3. CASE RefuseReplay(p)
  <2>1. RunInv'
    BY <1>3, ForgetKeepsRun DEF Inv, RefuseReplay
  <2>2. CacheInv'
    BY <1>3, LookUpKeeps DEF Inv, RefuseReplay
  <2>3. SinkInv'
    BY <1>3, NothingServed DEF Inv, SinkInv, RefuseReplay
  <2> QED
    BY <1>1, <2>1, <2>2, <2>3 DEF Inv
<1>4. CASE \E r \in Request : Start(r, p)
  <2>1. RunInv'
    BY <1>4, StartKeepsRun DEF Inv
  <2>2. CacheInv'
    BY <1>4, LookUpKeeps DEF Inv, Start
  <2>3. SinkInv'
    BY <1>4, NothingServed DEF Inv, SinkInv, Start
  <2> QED
    BY <1>1, <2>1, <2>2, <2>3 DEF Inv
<1> QED
  BY <1>2, <1>3, <1>4

LEMMA EndPreserves ==
  ASSUME Inv, NEW r \in Request, Ends(r)
  PROVE  Inv'
<1>1. running[r] # Idle /\ Release(r)
  BY DEF Ends, Return, Raise, Cancel
<1>2. RunInv' /\ served' = Nothing
  BY <1>1, ReleaseKeepsRun DEF Inv, Release
<1>3. running[r].packet \in Packet
  BY <1>1 DEF Inv, RunInv, Running
<1>4. BreakerInv'
  BY BreakerKeeps DEF Inv, Ends, Return, Raise, Cancel
<1>5. CacheInv'
  <2>1. CASE \E ok \in BOOLEAN : Return(r, ok)
    BY <1>3, <2>1, StoreKeeps DEF Inv, Return
  <2>2. CASE Raise(r) \/ Cancel(r)
    BY <2>2, CacheStutters DEF Inv, Raise, Cancel
  <2> QED
    BY <2>1, <2>2 DEF Ends
<1>6. dlq' \in Seq(Packet) /\ Len(dlq') <= MaxEntries
  <2>1. CASE Raise(r)
    BY <1>3, <2>1, PutKeeps DEF Inv, SinkInv, Raise
  <2>2. CASE UNCHANGED dlq
    BY <2>2 DEF Inv, SinkInv
  <2> QED
    BY <2>1, <2>2 DEF Ends, Return, Cancel
<1> QED
  BY <1>2, <1>4, <1>5, <1>6, NothingServed DEF Inv

LEMMA TickPreserves ==
  ASSUME Inv, Tick
  PROVE  Inv'
<1>1. BreakerInv'
  BY BreakerKeeps DEF Inv, Tick
<1>2. SinkInv'
  BY NothingServed DEF Inv, SinkInv, Tick
<1> QED
  BY <1>1, <1>2, TickKeepsRun, TickKeepsCache DEF Inv

LEMMA InitEstablishes == Init => Inv
<1> SUFFICES ASSUME Init PROVE Inv
  OBVIOUS
<1>1. RunInv
  <2>1. Busy = {}
    BY DEF Init, Busy
  <2>2. Cardinality(Busy) = 0
    BY <2>1, FS_EmptySet
  <2> QED
    BY <2>1, <2>2, ExecuteAssumption
    DEF Init, RunInv, InFlightExact, WithinBudget, SeenWhileRunning, NoConcurrentDuplicate
<1>2. BreakerInv
  BY BreakerAssumption DEF Init, BreakerInit, BreakerInv, BreakerTypeOK, BreakerConsistent
<1>3. CacheInv
  BY ExecuteAssumption DEF Init, CacheInv, CacheIsOwn, AnsweredIsCached
<1>4. SinkInv
  BY ExecuteAssumption DEF Init, SinkInv, CachedAnswerIsOwn
<1> QED
  BY <1>1, <1>2, <1>3, <1>4 DEF Inv

LEMMA StepPreserves == Inv /\ [Next]_vars => Inv'
<1> SUFFICES ASSUME Inv, [Next]_vars PROVE Inv'
  OBVIOUS
<1>1. CASE \E p \in Packet : AnswerFromCache(p) \/ RefuseReplay(p)
  BY <1>1, AdmissionPreserves
<1>2. CASE \E p \in Packet, r \in Request : Start(r, p)
  BY <1>2, AdmissionPreserves
<1>3. CASE \E r \in Request : Ends(r)
  BY <1>3, EndPreserves
<1>4. CASE Tick
  BY <1>4, TickPreserves
<1>5. CASE UNCHANGED vars
  BY <1>5, RunStutters, CacheStutters, BreakerKeeps
  DEF vars, Inv, SinkInv, CachedAnswerIsOwn
<1> QED
  BY <1>1, <1>2, <1>3, <1>4, <1>5 DEF Next

THEOREM Invariance == Spec => []Inv
<1>1. Init => Inv
  BY InitEstablishes
<1>2. Inv /\ [Next]_vars => Inv'
  BY StepPreserves
<1> QED
  BY <1>1, <1>2, PTL DEF Spec

(* The execute model keeps its shape, the dead-letter queue its bound.        *)
THEOREM ExecuteTypeCorrect == Spec => []TypeOK
<1>1. Inv => TypeOK
  BY DEF Inv, RunInv, WithinBudget, BreakerInv, CacheInv, SinkInv, Entry, TypeOK
<1> QED
  BY <1>1, Invariance, PTL

(* The counter load shedding reads is the number of executions and within its *)
(* limit, whatever way the executions end.                                    *)
THEOREM InFlightAccounting == Spec => []InFlightExact
<1>1. Inv => InFlightExact
  BY DEF Inv, RunInv
<1> QED
  BY <1>1, Invariance, PTL

(* For every window, margin and timeout a packet may carry: no two deliveries *)
(* of a packet whose budget fits the window execute at the same time, and two *)
(* of any other packet are always more than a window apart.                   *)
THEOREM DuplicatesExcluded == Spec => []NoConcurrentDuplicate
<1>1. Inv => NoConcurrentDuplicate
  BY DEF Inv, RunInv
<1> QED
  BY <1>1, Invariance, PTL

(* No answer crosses tenants, actions or keys through the response cache, and *)
(* no failure is served from it.                                              *)
THEOREM CacheIsolation == Spec => []CachedAnswerIsOwn
<1>1. Inv => CachedAnswerIsOwn
  BY DEF Inv, SinkInv
<1> QED
  BY <1>1, Invariance, PTL

(* In every order of admissions, outcomes and ticks the breaker's state, its  *)
(* counter and the time of its trip agree.                                    *)
THEOREM BreakerCoherent == Spec => []BreakerConsistent
<1>1. Inv => BreakerConsistent
  BY DEF Inv, BreakerInv
<1> QED
  BY <1>1, Invariance, PTL

(* Only Start occupies a slot, and only after the lookup found nothing live.  *)
LEMMA StepStartsUnanswered == Inv /\ [Next]_vars => [StartsUnanswered]_vars
<1> SUFFICES ASSUME Inv, Next PROVE StartsUnanswered
  OBVIOUS
<1>1. ASSUME NEW p \in Packet, NEW r \in Request, Start(r, p)
      PROVE  StartsUnanswered
  <2> DEFINE e == [packet |-> p, elapsed |-> 0]
  <2>1. /\ running' = [running EXCEPT ![r] = e] /\ running \in [Request -> Running \cup {Idle}]
        /\ e.packet = p /\ ~Hit(p)
    BY <1>1 DEF Start, Inv, RunInv
  <2>2. KeyOf[p] # NoKey => answered[IdentityOf(p)] = Ttl
    <3> SUFFICES ASSUME KeyOf[p] # NoKey PROVE answered[IdentityOf(p)] = Ttl
      OBVIOUS
    <3> DEFINE i == IdentityOf(p)
    <3>1. i \in Identity /\ ~Live(i)
      BY <2>1, IdentityType DEF Hit
    <3> HIDE DEF i
    <3>2. answered[i] \in 0 .. Ttl /\ ~(answered[i] < Ttl)
      BY <3>1 DEF Inv, CacheInv, AnsweredIsCached, Live
    <3>3. answered[i] = Ttl
      BY <3>2, ExecuteAssumption
    <3> QED
      BY <3>3 DEF i
  <2> HIDE DEF e
  <2>3. \A s \in Request : running[s] = Idle /\ running'[s] # Idle => running'[s].packet = p
    BY <2>1
  <2> QED
    BY <2>2, <2>3 DEF StartsUnanswered
<1>2. CASE \A s \in Request : running[s] = Idle => running'[s] = Idle
  BY <1>2 DEF StartsUnanswered
<1>3. ASSUME NEW r \in Request, Ends(r)
      PROVE  \A s \in Request : running[s] = Idle => running'[s] = Idle
  <2>1. running' = [running EXCEPT ![r] = Idle]
    BY <1>3 DEF Ends, Return, Raise, Cancel, Release
  <2> QED
    BY <2>1 DEF Inv, RunInv
<1>4. ASSUME Tick
      PROVE  \A s \in Request : running[s] = Idle => running'[s] = Idle
  BY <1>4 DEF Tick, Busy
<1>5. ASSUME NEW p \in Packet, AnswerFromCache(p) \/ RefuseReplay(p)
      PROVE  \A s \in Request : running[s] = Idle => running'[s] = Idle
  BY <1>5 DEF AnswerFromCache, RefuseReplay
<1> QED
  BY <1>1, <1>2, <1>3, <1>4, <1>5 DEF Next

(* While the success of an operation lives in the cache, no packet of its     *)
(* tenant, action and key executes it again.                                  *)
THEOREM AnswersReused == Spec => AnswerIsReused
<1>1. Inv /\ [Next]_vars => [StartsUnanswered]_vars
  BY StepStartsUnanswered
<1> QED
  BY <1>1, Invariance, PTL DEF Spec, AnswerIsReused

=============================================================================
