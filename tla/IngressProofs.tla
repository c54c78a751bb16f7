--------------------------- MODULE IngressProofs ---------------------------
(***************************************************************************)
(* For any keys, policies, nodes and quotas: what the settings validators  *)
(* and the packet validator promise together.                              *)
(***************************************************************************)
EXTENDS Ingress, FiniteSetTheorems, TLAPS

(* The settings never change, and the last packet let through passed them. *)
Inv ==
  /\ settings \in Settings
  /\ Starts(settings)
  /\ last # NoPacket => last \in Packet /\ Validates(last)

-----------------------------------------------------------------------------

(* Settings that start with a policy require signatures, and can verify those *)
(* of its key.                                                                *)
LEMMA PoliciesAreProven ==
  ASSUME settings \in Settings, Starts(settings), settings.caller_policies # {}
  PROVE settings.require_signature /\ settings.caller_policies \subseteq settings.verifying_keys
  BY DEF Starts, PoliciesAreProvable

(* A packet that passes while a policy is in force is scoped: its key has a   *)
(* policy, so signatures are required, so this one was verified.              *)
LEMMA ValidatedIsScoped ==
  ASSUME settings \in Settings, Starts(settings), PolicyInForce,
         NEW p \in Packet, Validates(p)
  PROVE Scoped(p)
  <1>1. PolicyAdmits(p, TRUE) /\ PacketHolds(p, settings.allowed_actions)
    BY DEF Validates
  <1>2. /\ p.key \in settings.caller_policies
        /\ p.source = PolicyOf[p.key].node
        /\ p.tenant \in PolicyOf[p.key].tenants
        /\ p.action \in PolicyOf[p.key].actions
    BY <1>1 DEF PolicyAdmits
  <1>3. settings.require_signature /\ p.key \in settings.verifying_keys
    BY <1>2, PoliciesAreProven
  <1>4. p.genuine
    BY <1>1, <1>3 DEF PacketHolds, SignatureHolds
  <1> QED
    BY <1>2, <1>3, <1>4 DEF Scoped

(* The invariant holds throughout: validation reads the settings only. *)
THEOREM Invariance == Spec => []Inv
  <1>1. Init => Inv
    BY DEF Init, Inv
  <1>2. Inv /\ [Next]_vars => Inv'
    <2> SUFFICES ASSUME Inv, [Next]_vars PROVE Inv'
      OBVIOUS
    <2> USE DEF Inv
    <2>1. ASSUME NEW p \in Packet, Ingest(p) PROVE Inv'
      <3>1. settings' = settings /\ last' = p /\ Validates(p)
        BY <2>1 DEF Ingest
      <3>2. Validates(p)'
        BY <3>1 DEF Validates, PacketHolds, SignatureHolds, Resolvable, PolicyAdmits, PolicyInForce
      <3> QED
        BY <3>1, <3>2 DEF Validates, PacketHolds, SignatureHolds, Resolvable, PolicyAdmits, PolicyInForce
    <2>2. CASE UNCHANGED <<settings, last>>
      BY <2>2 DEF Validates, PacketHolds, SignatureHolds, Resolvable, PolicyAdmits, PolicyInForce
    <2> QED
      BY <2>1, <2>2 DEF Next, Tick, vars
  <1> QED
    BY <1>1, <1>2, PTL DEF Spec

(* In staging and prod, and wherever policies are configured, only packets    *)
(* that a proven key's policy covers pass.                                    *)
THEOREM ScopeHolds == Spec => []OnlyScopedPackets
  <1>1. Inv => OnlyScopedPackets
    BY ValidatedIsScoped DEF Inv, OnlyScopedPackets
  <1> QED
    BY <1>1, Invariance, PTL

(* A source node's quota is spent by the keys bound to it: the limiter is     *)
(* asked only after the packet has passed.                                    *)
THEOREM QuotaHolds == Spec => QuotaIsOwn
  <1>1. Inv /\ [Next]_vars => [SpentByOwner]_vars
    <2> SUFFICES ASSUME Inv, Next, NEW n \in Key, counters'[n] # counters[n], settings.trusted
        PROVE /\ last' # NoPacket
              /\ last'.source = n
              /\ last'.key \in settings.caller_policies
              /\ PolicyOf[last'.key].node = n
      BY DEF SpentByOwner
    <2>1. PICK p \in Packet : Ingest(p)
      BY DEF Next, Tick, TimePasses
    <2>2. last' = p /\ Validates(p) /\ Allow(p.source)
      BY <2>1 DEF Ingest
    <2>3. p.source = n
      BY <2>2 DEF Allow
    <2>4. Scoped(p)
      BY <2>2, ValidatedIsScoped DEF Inv, PolicyInForce
    <2> QED
      BY <2>2, <2>3, <2>4, NoPacketAssumption DEF Scoped
  <1> QED
    BY <1>1, Invariance, PTL DEF Spec, QuotaIsOwn

(* The receipt of an admission probe tells its caller exactly what it may     *)
(* invoke among the actions that are routable, as long as no list of allowed  *)
(* actions is configured.                                                     *)
THEOREM ProbeIsAuthoritative == Spec => []ProbeIsExact
  <1>1. Inv => ProbeIsExact
    <2> SUFFICES ASSUME Inv, settings.allowed_actions = {},
                        NEW p \in Packet, ValidatesAdmission(p),
                        NEW routable \in SUBSET Action, NEW act \in routable
        PROVE act \in GrantedActions(p, routable) <=> Validates([p EXCEPT !.action = act])
      <3>1. ASSUME NEW p \in Packet, NEW routable \in SUBSET Action
            PROVE GrantedActions(p, routable) \subseteq routable
        BY DEF GrantedActions
      <3> QED
        BY <3>1 DEF ProbeIsExact
    <2> DEFINE q == [p EXCEPT !.action = act]
    <2>1. /\ q.key = p.key /\ q.genuine = p.genuine /\ q.source = p.source
          /\ q.tenant = p.tenant /\ q.strays = p.strays /\ q.action = act
      BY DEF Packet
    <2>2. SignatureHolds(p) /\ ~p.strays /\ PolicyAdmits(p, FALSE)
      BY DEF ValidatesAdmission, PacketHolds
    <2>3. act # Admission
      BY IngressAssumption
    <2>4. PacketHolds(q, settings.allowed_actions)
      BY <2>1, <2>2 DEF PacketHolds, SignatureHolds
    <2>5. PolicyAdmits(q, TRUE) <=> (PolicyInForce => act \in PolicyOf[p.key].actions)
      BY <2>1, <2>2 DEF PolicyAdmits
    <2>6. Validates(q) <=> (PolicyInForce => act \in PolicyOf[p.key].actions)
      BY <2>1, <2>3, <2>4, <2>5 DEF Validates
    <2> QED
      BY <2>6 DEF GrantedActions
  <1> QED
    BY <1>1, Invariance, PTL
-----------------------------------------------------------------------------
(* The limiter *)

(* A tick never takes the clock back to an earlier window. *)
LEMMA WindowsAdvance ==
  ASSUME NEW w \in Nat \ {0}, NEW a \in Nat
  PROVE  a \div w \in Nat /\ a \div w <= (a + 1) \div w
<1> DEFINE q == a \div w
           r == (a + 1) \div w
<1>1. q \in Int /\ r \in Int /\ 0 <= q
  OBVIOUS
<1>2. w * q <= a /\ a + 1 < w * r + w
  OBVIOUS
<1> HIDE DEF q, r
<1>3. CASE r < q
  <2>1. r + 1 <= q
    BY <1>1, <1>3
  <2>2. w * (r + 1) <= w * q
    BY <1>1, <2>1
  <2>3. w * (r + 1) = w * r + w
    BY <1>1
  <2> QED  BY <1>1, <1>2, <2>2, <2>3
<1> QED  BY <1>1, <1>3 DEF q, r

(* A request let through leaves a counter of the current window that is not   *)
(* over max_requests.                                                         *)
LEMMA AllowKeepsTypes ==
  ASSUME LimiterTypeOK, NEW k \in Key, Allow(k)
  PROVE  LimiterTypeOK'
<1> DEFINE w == WindowIndex(now)
           c == [window |-> w, count |-> CountFor(k, w) + 1]
           C == [window : 0 .. w, count : 1 .. MaxRequests]
<1>1. now \in 0 .. Horizon /\ now' = now /\ w \in Nat /\ now \in Nat
  BY RateLimiterAssumption, WindowsAdvance DEF LimiterTypeOK, Allow, WindowIndex
<1>2. CountFor(k, w) \in 0 .. MaxRequests
  BY RateLimiterAssumption DEF LimiterTypeOK, CountFor
<1>3. CountFor(k, w) < MaxRequests
  BY <1>2, RateLimiterAssumption DEF Allow, Exhausted
<1>4. w \in 0 .. w /\ CountFor(k, w) + 1 \in 1 .. MaxRequests
  <2> HIDE DEF w
  <2> QED  BY <1>1, <1>2, <1>3, RateLimiterAssumption
<1>5. c \in C
  <2> HIDE DEF w
  <2> QED  BY <1>4
<1>6. counters' = [counters EXCEPT ![k] = c] /\ counters \in [Key -> C \cup {NoCounter}]
  BY DEF Allow, LimiterTypeOK
<1>7. counters' \in [Key -> C \cup {NoCounter}]
  <2> HIDE DEF c, C
  <2> QED  BY <1>5, <1>6
<1>8. granted' \in [Key -> Seq(0 .. now)]
  <2>1. granted \in [Key -> Seq(0 .. now)] /\ now \in 0 .. now
    BY <1>1 DEF LimiterTypeOK
  <2>2. Append(granted[k], now) \in Seq(0 .. now)
    BY <2>1
  <2> QED  BY <2>1, <2>2 DEF Allow
<1> QED  BY <1>1, <1>7, <1>8 DEF LimiterTypeOK, WindowIndex

(* The clock moves on; counters of earlier windows stay behind it. *)
LEMMA TimeKeepsTypes ==
  ASSUME LimiterTypeOK, TimePasses
  PROVE  LimiterTypeOK'
<1>1. now \in Nat /\ now' = now + 1 /\ now' \in 0 .. Horizon
  BY RateLimiterAssumption DEF LimiterTypeOK, TimePasses
<1>2. WindowIndex(now) \in Nat /\ WindowIndex(now') \in Nat /\ WindowIndex(now) <= WindowIndex(now')
  BY <1>1, RateLimiterAssumption, WindowsAdvance DEF WindowIndex
<1>3. 0 .. WindowIndex(now) \subseteq 0 .. WindowIndex(now')
  BY <1>2
<1> DEFINE C == [window : 0 .. WindowIndex(now), count : 1 .. MaxRequests]
           D == [window : 0 .. WindowIndex(now'), count : 1 .. MaxRequests]
<1>4. C \subseteq D
  BY <1>3
<1>5. counters \in [Key -> C \cup {NoCounter}]
  BY DEF LimiterTypeOK
<1>6. counters \in [Key -> D \cup {NoCounter}]
  <2> HIDE DEF C, D
  <2> QED  BY <1>4, <1>5
<1>7. granted' \in [Key -> Seq(0 .. now')]
  <2>1. granted \in [Key -> Seq(0 .. now)] /\ granted' = granted
    BY DEF LimiterTypeOK, TimePasses
  <2>2. Seq(0 .. now) \subseteq Seq(0 .. now')
    BY <1>1
  <2> QED  BY <2>1, <2>2
<1> QED  BY <1>1, <1>6, <1>7 DEF LimiterTypeOK, TimePasses, WindowIndex

(* Whatever packets come and when: no counter passes max_requests or belongs  *)
(* to a window that is still to come.                                         *)
THEOREM IngressTypeCorrect == Spec => []TypeOK
<1>1. Init => TypeOK
  <2>1. Init => LimiterTypeOK
    BY RateLimiterAssumption DEF Init, LimiterInit, LimiterTypeOK
  <2> QED  BY <2>1 DEF Init, TypeOK
<1>2. TypeOK /\ [Next]_vars => TypeOK'
  <2> SUFFICES ASSUME TypeOK, [Next]_vars PROVE TypeOK'
    OBVIOUS
  <2>1. ASSUME NEW p \in Packet, Ingest(p) PROVE TypeOK'
    <3>1. p.source \in Key
      BY DEF Packet
    <3>2. LimiterTypeOK'
      BY <2>1, <3>1, AllowKeepsTypes DEF Ingest, TypeOK
    <3> QED  BY <2>1, <3>2 DEF Ingest, TypeOK
  <2>2. CASE Tick
    BY <2>2, TimeKeepsTypes DEF Tick, TypeOK
  <2>3. CASE UNCHANGED vars
    BY <2>3 DEF vars, limiterVars, TypeOK, LimiterTypeOK, WindowIndex
  <2> QED  BY <2>1, <2>2, <2>3 DEF Next
<1> QED  BY <1>1, <1>2, PTL DEF Spec

-----------------------------------------------------------------------------
(* What the limiter promises of the requests it has let through.             *)

(* The window of a tick is the one whose bounds contain it. *)
LEMMA WindowBounds ==
  ASSUME NEW w \in Nat \ {0}, NEW t \in Nat, NEW q \in Int
  PROVE  t \div w = q <=> w * q <= t /\ t < w * q + w
<1> DEFINE d == t \div w
<1>1. d \in Int /\ w * d <= t /\ t < w * d + w
  OBVIOUS
<1> HIDE DEF d
<1>2. CASE d < q
  <2>1. d + 1 <= q
    BY <1>1, <1>2
  <2>2. w * (d + 1) <= w * q
    BY <1>1, <2>1
  <2>3. w * (d + 1) = w * d + w
    BY <1>1
  <2>4. ~ (w * q <= t)
    BY <1>1, <2>2, <2>3
  <2> QED  BY <1>2, <2>4, <1>1 DEF d
<1>3. CASE q < d
  <2>1. q + 1 <= d
    BY <1>1, <1>3
  <2>2. w * (q + 1) <= w * d
    BY <1>1, <2>1
  <2>3. w * (q + 1) = w * q + w
    BY <1>1
  <2>4. ~ (t < w * q + w)
    BY <1>1, <2>2, <2>3
  <2> QED  BY <1>3, <2>4, <1>1 DEF d
<1>4. CASE d = q
  BY <1>1, <1>4 DEF d
<1> QED  BY <1>1, <1>2, <1>3, <1>4

(* Ticks in order are in windows in order. *)
LEMMA WindowsOrdered ==
  ASSUME NEW t \in Nat, NEW u \in Nat, t <= u
  PROVE  WindowIndex(t) \in Nat /\ WindowIndex(t) <= WindowIndex(u)
<1> DEFINE q == t \div Window
           r == u \div Window
<1>1. Window \in Nat \ {0}
  BY RateLimiterAssumption
<1>2. q \in Nat /\ r \in Nat
  BY <1>1, WindowsAdvance
<1>3. Window * q <= t /\ u < Window * r + Window
  BY <1>1, <1>2, WindowBounds
<1> HIDE DEF q, r
<1>4. CASE r < q
  <2>1. r + 1 <= q
    BY <1>2, <1>4
  <2>2. Window * (r + 1) <= Window * q
    BY <1>1, <1>2, <2>1
  <2>3. Window * (r + 1) = Window * r + Window
    BY <1>1, <1>2
  <2> QED  BY <1>1, <1>2, <1>3, <2>2, <2>3
<1> QED  BY <1>2, <1>4 DEF q, r, WindowIndex

(* The requests of k that fell into window w, and how many they are. *)
InWindow(k, w) == {i \in DOMAIN granted[k] : WindowIndex(granted[k][i]) = w}

SpentIn(k, w) == Cardinality(InWindow(k, w))

(* The one counter a key has says how many of its requests fell into the      *)
(* current window, and no window ever held more than max_requests.            *)
QuotaKept ==
  \A k \in Key :
    /\ SpentIn(k, WindowIndex(now)) = CountFor(k, WindowIndex(now))
    /\ \A w \in Nat : SpentIn(k, w) <= MaxRequests

(* Requests are finitely many, in any window. *)
LEMMA FinitelyMany ==
  ASSUME LimiterTypeOK, NEW k \in Key
  PROVE  /\ DOMAIN granted[k] = 1 .. Len(granted[k]) /\ Len(granted[k]) \in Nat
         /\ IsFiniteSet(DOMAIN granted[k])
         /\ \A w : IsFiniteSet(InWindow(k, w)) /\ SpentIn(k, w) \in Nat
<1>1. granted[k] \in Seq(0 .. now)
  BY DEF LimiterTypeOK
<1>2. DOMAIN granted[k] = 1 .. Len(granted[k]) /\ Len(granted[k]) \in Nat
  BY <1>1
<1>3. IsFiniteSet(1 .. Len(granted[k]))
  BY <1>2, FS_Interval
<1>4. ASSUME NEW w PROVE IsFiniteSet(InWindow(k, w)) /\ SpentIn(k, w) \in Nat
  <2>1. InWindow(k, w) \in SUBSET DOMAIN granted[k]
    BY DEF InWindow
  <2>2. IsFiniteSet(InWindow(k, w))
    BY <1>2, <1>3, <2>1, FS_Subset
  <2> QED  BY <2>2, FS_CardinalityType DEF SpentIn
<1> QED  BY <1>2, <1>3, <1>4

(* A request let through is one more of its key in the current window. *)
LEMMA AllowSpends ==
  ASSUME LimiterTypeOK, NEW k \in Key, Allow(k)
  PROVE  /\ \A j \in Key \ {k} : \A w : SpentIn(j, w)' = SpentIn(j, w)
         /\ \A w : w # WindowIndex(now) => SpentIn(k, w)' = SpentIn(k, w)
         /\ \A w : w = WindowIndex(now) => SpentIn(k, w)' = SpentIn(k, w) + 1
<1> DEFINE g == granted[k]
           h == granted'[k]
           n == Len(g)
<1>1. granted \in [Key -> Seq(0 .. now)] /\ now \in Nat /\ now \in 0 .. now /\ now' = now
  BY RateLimiterAssumption DEF LimiterTypeOK, Allow
<1>2. /\ granted' = [granted EXCEPT ![k] = Append(g, now)]
      /\ h = Append(g, now) /\ g \in Seq(0 .. now)
  BY <1>1 DEF Allow
<1>3. /\ DOMAIN g = 1 .. n /\ DOMAIN h = 1 .. n + 1 /\ n \in Nat
      /\ \A i \in 1 .. n : h[i] = g[i]
      /\ h[n + 1] = now
  <2> HIDE DEF g, h
  <2> QED  BY <1>1, <1>2
<1>4. ASSUME NEW j \in Key \ {k}, NEW w PROVE SpentIn(j, w)' = SpentIn(j, w)
  <2>1. granted'[j] = granted[j]
    BY <1>1, <1>2
  <2> QED  BY <2>1 DEF SpentIn, InWindow, WindowIndex
<1>5. ASSUME NEW w, w # WindowIndex(now) PROVE SpentIn(k, w)' = SpentIn(k, w)
  <2>1. InWindow(k, w)' = {i \in 1 .. n + 1 : WindowIndex(h[i]) = w}
    BY <1>3 DEF InWindow, WindowIndex
  <2>2. InWindow(k, w) = {i \in 1 .. n : WindowIndex(g[i]) = w}
    BY <1>3 DEF InWindow
  <2> HIDE DEF g, h, n
  <2>3. InWindow(k, w)' = InWindow(k, w)
    BY <1>3, <1>5, <2>1, <2>2
  <2> QED  BY <2>3 DEF SpentIn
<1>6. ASSUME NEW w, w = WindowIndex(now) PROVE SpentIn(k, w)' = SpentIn(k, w) + 1
  <2>1. InWindow(k, w)' = {i \in 1 .. n + 1 : WindowIndex(h[i]) = w}
    BY <1>1, <1>3 DEF InWindow, WindowIndex
  <2>2. InWindow(k, w) = {i \in 1 .. n : WindowIndex(g[i]) = w}
    BY <1>3 DEF InWindow
  <2>3. WindowIndex(h[n + 1]) = w
    BY <1>3, <1>6
  <2>4. IsFiniteSet(InWindow(k, w))
    BY FinitelyMany
  <2> HIDE DEF g, h, n
  <2>5. InWindow(k, w)' = InWindow(k, w) \cup {n + 1} /\ n + 1 \notin InWindow(k, w)
    BY <1>3, <2>1, <2>2, <2>3
  <2>6. Cardinality(InWindow(k, w) \cup {n + 1}) = Cardinality(InWindow(k, w)) + 1
    BY <2>4, <2>5, FS_AddElement
  <2> QED  BY <2>5, <2>6 DEF SpentIn
<1> QED  BY <1>4, <1>5, <1>6

(* A request let through is counted, and was below max_requests. *)
LEMMA AllowKeepsQuota ==
  ASSUME LimiterTypeOK, QuotaKept, NEW k \in Key, Allow(k)
  PROVE  QuotaKept'
<1>1. now' = now /\ now \in Nat /\ WindowIndex(now) \in Nat
  BY RateLimiterAssumption, WindowsOrdered DEF LimiterTypeOK, Allow
<1>2. PICK w \in Nat : w = WindowIndex(now)
  BY <1>1
<1>3. WindowIndex(now)' = w
  BY <1>1, <1>2 DEF WindowIndex
<1>4. CountFor(k, w) \in 0 .. MaxRequests /\ MaxRequests \in Nat
  BY RateLimiterAssumption DEF LimiterTypeOK, CountFor
<1>5. CountFor(k, w) < MaxRequests /\ SpentIn(k, w) = CountFor(k, w)
  BY <1>2, <1>4 DEF Allow, Exhausted, QuotaKept
<1>6. SpentIn(k, w)' = CountFor(k, w) + 1
  BY <1>2, <1>5, AllowSpends
<1> DEFINE c == CountFor(k, w) + 1
           r == [window |-> w, count |-> c]
<1>7. counters' = [counters EXCEPT ![k] = r]
  BY <1>2 DEF Allow
<1>8. CountFor(k, w)' = CountFor(k, w) + 1
  <2>1. counters'[k] = r
    BY <1>7 DEF LimiterTypeOK
  <2>2. r.window = w /\ r.count = c
    OBVIOUS
  <2>3. c \in Nat
    BY <1>4
  <2> HIDE DEF c
  <2>4. r # NoCounter
    BY <2>3, RateLimiterAssumption
  <2> HIDE DEF r
  <2> QED  BY <2>1, <2>2, <2>4 DEF CountFor, c
<1>9. ASSUME NEW j \in Key \ {k} PROVE CountFor(j, w)' = CountFor(j, w)
  <2> HIDE DEF r
  <2>1. counters'[j] = counters[j]
    BY <1>7 DEF LimiterTypeOK
  <2> QED  BY <2>1 DEF CountFor
<1>10. ASSUME NEW j \in Key
       PROVE  (SpentIn(j, WindowIndex(now)) = CountFor(j, WindowIndex(now)))'
  <2>1. SpentIn(j, w)' = CountFor(j, w)'
    <3>1. CASE j = k
      BY <1>6, <1>8, <3>1
    <3>2. CASE j # k
      BY <1>2, <1>9, <3>2, AllowSpends DEF QuotaKept
    <3> QED  BY <3>1, <3>2
  <2> QED  BY <1>3, <2>1 DEF SpentIn, InWindow, CountFor
<1>11. ASSUME NEW j \in Key, NEW v \in Nat PROVE SpentIn(j, v)' <= MaxRequests
  <2>1. CASE j = k /\ v = w
    BY <1>4, <1>5, <1>6, <2>1
  <2>2. CASE ~ (j = k /\ v = w)
    <3>1. SpentIn(j, v)' = SpentIn(j, v)
      BY <1>2, <2>2, AllowSpends
    <3> QED  BY <3>1 DEF QuotaKept
  <2> QED  BY <2>1, <2>2
<1> QED  BY <1>10, <1>11 DEF QuotaKept

(* A new window starts empty: whatever was let through, and the counter, are  *)
(* of earlier ones.                                                           *)
LEMMA TimeKeepsQuota ==
  ASSUME LimiterTypeOK, QuotaKept, TimePasses
  PROVE  QuotaKept'
<1> DEFINE w == WindowIndex(now)
           v == WindowIndex(now + 1)
<1>1. now \in Nat /\ now' = now + 1 /\ counters' = counters /\ granted' = granted
  BY RateLimiterAssumption DEF LimiterTypeOK, TimePasses
<1>2. w \in Nat /\ v \in Nat /\ w <= v
  BY <1>1, WindowsOrdered
<1>3. \A k \in Key : \A x : SpentIn(k, x)' = SpentIn(k, x)
  BY <1>1 DEF SpentIn, InWindow, WindowIndex
<1>4. ASSUME NEW k \in Key PROVE SpentIn(k, v) = CountFor(k, v)
  <2>1. CASE v = w
    BY <2>1 DEF QuotaKept
  <2>2. CASE v # w
    <3>1. \A i \in DOMAIN granted[k] : granted[k][i] \in 0 .. now
      BY DEF LimiterTypeOK
    <3>2. \A i \in DOMAIN granted[k] : /\ WindowIndex(granted[k][i]) \in Nat
                                       /\ WindowIndex(granted[k][i]) <= w
      BY <1>1, <3>1, WindowsOrdered
    <3>3. counters[k] \in [window : 0 .. w, count : 1 .. MaxRequests] \cup {NoCounter}
      BY DEF LimiterTypeOK
    <3> HIDE DEF w, v
    <3>4. InWindow(k, v) = {}
      BY <1>2, <2>2, <3>2 DEF InWindow
    <3>5. SpentIn(k, v) = 0
      BY <3>4, FS_EmptySet DEF SpentIn
    <3>6. CountFor(k, v) = 0
      BY <1>2, <2>2, <3>3 DEF CountFor
    <3> QED  BY <3>5, <3>6
  <2> QED  BY <2>1, <2>2
<1>5. ASSUME NEW k \in Key
      PROVE  (SpentIn(k, WindowIndex(now)) = CountFor(k, WindowIndex(now)))'
  <2>1. WindowIndex(now)' = v
    BY <1>1 DEF WindowIndex
  <2>2. SpentIn(k, WindowIndex(now))' = SpentIn(k, v)
    BY <1>1, <2>1 DEF SpentIn, InWindow, WindowIndex
  <2>3. CountFor(k, WindowIndex(now))' = CountFor(k, v)
    BY <1>1, <2>1 DEF CountFor
  <2> QED  BY <1>4, <2>2, <2>3
<1> QED  BY <1>3, <1>5 DEF QuotaKept

(* The limiter's books are right whatever packets come and when. *)
THEOREM QuotaInvariance == Spec => []QuotaKept
<1>1. Init => QuotaKept
  <2> SUFFICES ASSUME Init, NEW k \in Key
               PROVE  /\ SpentIn(k, WindowIndex(now)) = CountFor(k, WindowIndex(now))
                      /\ \A w \in Nat : SpentIn(k, w) <= MaxRequests
    BY DEF QuotaKept
  <2>1. granted[k] = << >> /\ counters[k] = NoCounter
    BY DEF Init, LimiterInit
  <2>2. \A w : InWindow(k, w) = {}
    BY <2>1 DEF InWindow
  <2>3. \A w : SpentIn(k, w) = 0
    BY <2>2, FS_EmptySet DEF SpentIn
  <2>4. CountFor(k, WindowIndex(now)) = 0
    BY <2>1 DEF CountFor
  <2> QED  BY <2>3, <2>4, RateLimiterAssumption
<1>2. TypeOK /\ QuotaKept /\ [Next]_vars => QuotaKept'
  <2> SUFFICES ASSUME TypeOK, QuotaKept, [Next]_vars PROVE QuotaKept'
    OBVIOUS
  <2>1. ASSUME NEW p \in Packet, Ingest(p) PROVE QuotaKept'
    <3>1. p.source \in Key
      BY DEF Packet
    <3> QED  BY <2>1, <3>1, AllowKeepsQuota DEF Ingest, TypeOK
  <2>2. CASE Tick
    BY <2>2, TimeKeepsQuota DEF Tick, TypeOK
  <2>3. CASE UNCHANGED vars
    BY <2>3 DEF vars, limiterVars, QuotaKept, SpentIn, InWindow, CountFor, WindowIndex
  <2> QED  BY <2>1, <2>2, <2>3 DEF Next
<1> QED  BY <1>1, <1>2, IngressTypeCorrect, PTL DEF Spec

(* A key is refused exactly when it has had max_requests in the current       *)
(* window: the ticks of that window so far are those from its first on.       *)
THEOREM RefusalsAreDeserved == Spec => []RefusedIffExhausted
<1>1. TypeOK /\ QuotaKept => RefusedIffExhausted
  <2> SUFFICES ASSUME LimiterTypeOK, QuotaKept, NEW k \in Key
               PROVE  Exhausted(k) <=> GrantedIn(k, WindowIndex(now) * Window, now) >= MaxRequests
    BY DEF TypeOK, RefusedIffExhausted
  <2> DEFINE w == WindowIndex(now)
  <2>1. now \in Nat /\ Window \in Nat \ {0} /\ MaxRequests \in Nat
    BY RateLimiterAssumption DEF LimiterTypeOK
  <2>2. w \in Nat
    BY <2>1, WindowsOrdered
  <2>3. w * Window = Window * w /\ now < Window * w + Window /\ w * Window \in Nat
    <3>1. now < Window * w + Window
      BY <2>1, <2>2, WindowBounds DEF WindowIndex
    <3> HIDE DEF w
    <3> QED  BY <2>1, <2>2, <3>1
  <2>4. ASSUME NEW t \in 0 .. now PROVE t \in w * Window .. now <=> WindowIndex(t) = w
    <3>1. t \in Nat /\ (WindowIndex(t) = w <=> Window * w <= t /\ t < Window * w + Window)
      BY <2>1, <2>2, WindowBounds DEF WindowIndex
    <3> DEFINE m == Window * w
    <3>2. m \in Nat
      BY <2>3
    <3> HIDE DEF w, m
    <3>3. t \in m .. now <=> m <= t /\ t < m + Window
      BY <2>1, <2>3, <3>2 DEF m
    <3> QED  BY <2>3, <3>1, <3>3 DEF m
  <2>5. \A i \in DOMAIN granted[k] : granted[k][i] \in 0 .. now
    BY DEF LimiterTypeOK
  <2>6. {i \in DOMAIN granted[k] : granted[k][i] \in w * Window .. now} = InWindow(k, w)
    <3> HIDE DEF w
    <3> QED  BY <2>4, <2>5 DEF InWindow
  <2>7. GrantedIn(k, w * Window, now) = CountFor(k, w)
    BY <2>6 DEF GrantedIn, SpentIn, QuotaKept
  <2> QED  BY <2>7 DEF Exhausted
<1> QED  BY <1>1, IngressTypeCorrect, QuotaInvariance, PTL

(* No stretch of time as long as a window holds more than twice max_requests  *)
(* of a key: it meets two windows at most.                                    *)
THEOREM BurstsAreBounded == Spec => []BurstBounded
<1>1. TypeOK /\ QuotaKept => BurstBounded
  <2> SUFFICES ASSUME LimiterTypeOK, QuotaKept, NEW k \in Key, NEW t \in 0 .. now
               PROVE  GrantedIn(k, t, IF t + Window - 1 < now THEN t + Window - 1 ELSE now) <= 2 * MaxRequests
    BY DEF TypeOK, BurstBounded
  <2> DEFINE last0 == IF t + Window - 1 < now THEN t + Window - 1 ELSE now
             w == WindowIndex(t)
             S == {i \in DOMAIN granted[k] : granted[k][i] \in t .. last0}
             A == InWindow(k, w)
             B == InWindow(k, w + 1)
  <2>1. now \in Nat /\ t \in Nat /\ Window \in Nat \ {0} /\ MaxRequests \in Nat
    BY RateLimiterAssumption DEF LimiterTypeOK
  <2>2. w \in Nat
    BY <2>1, WindowsOrdered
  <2>3. Window * w <= t /\ t < Window * w + Window
    BY <2>1, <2>2, WindowBounds DEF WindowIndex
  <2>4. ASSUME NEW u \in t .. last0 PROVE WindowIndex(u) \in {w, w + 1}
    <3>1. u \in Nat /\ t <= u /\ u < t + Window
      BY <2>1
    <3>2. WindowIndex(u) = w <=> Window * w <= u /\ u < Window * w + Window
      BY <2>1, <2>2, <3>1, WindowBounds DEF WindowIndex
    <3>3. WindowIndex(u) = w + 1 <=> Window * (w + 1) <= u /\ u < Window * (w + 1) + Window
      <4>1. w + 1 \in Int
        BY <2>2
      <4> QED  BY <2>1, <3>1, <4>1, WindowBounds DEF WindowIndex
    <3> HIDE DEF w, last0
    <3>4. Window * (w + 1) = Window * w + Window /\ Window * w \in Nat
      BY <2>1, <2>2
    <3> QED  BY <2>1, <2>3, <3>1, <3>2, <3>3, <3>4
  <2>5. S \subseteq A \cup B
    <3> HIDE DEF w, last0
    <3> QED  BY <2>4 DEF InWindow
  <2>6. /\ IsFiniteSet(A) /\ IsFiniteSet(B)
        /\ Cardinality(A) \in Nat /\ Cardinality(B) \in Nat
    BY FinitelyMany DEF SpentIn
  <2>7. Cardinality(A) <= MaxRequests /\ Cardinality(B) <= MaxRequests
    <3>1. w + 1 \in Nat
      BY <2>2
    <3> HIDE DEF w
    <3> QED  BY <2>2, <3>1 DEF QuotaKept, SpentIn
  <2> HIDE DEF A, B, S
  <2>8. /\ IsFiniteSet(A \cup B) /\ Cardinality(A \cap B) \in Nat
        /\ Cardinality(A \cup B) = Cardinality(A) + Cardinality(B) - Cardinality(A \cap B)
    <3>1. IsFiniteSet(A \cap B)
      BY <2>6, FS_Subset
    <3> QED  BY <2>6, <3>1, FS_Union, FS_CardinalityType
  <2>9. Cardinality(S) <= Cardinality(A \cup B) /\ Cardinality(S) \in Nat
    BY <2>5, <2>8, FS_Subset, FS_CardinalityType
  <2>10. Cardinality(S) <= 2 * MaxRequests
    BY <2>1, <2>6, <2>7, <2>8, <2>9
  <2> QED  BY <2>10 DEF S, GrantedIn
<1> QED  BY <1>1, IngressTypeCorrect, QuotaInvariance, PTL
=============================================================================
