------------------------- MODULE NodeRegistryProofs -------------------------
(***************************************************************************)
(* What the registry guarantees for every set of nodes, actions, owners,   *)
(* aliases, tokens and batches, to its callers inside Gate and over HTTP.  *)
(***************************************************************************)
EXTENDS AdminApi, Extremes, TLAPS

-----------------------------------------------------------------------------
(* The table stays well-formed under every sequence of method calls.         *)

(* A fresh registration is a registration. *)
LEMMA FreshIsRegistration == Fresh \subseteq Registration
<1> SUFFICES ASSUME NEW r \in Fresh PROVE r \in Registration
  OBVIOUS
<1>1. 0 \in Nat /\ TRUE \in BOOLEAN
  OBVIOUS
<1> QED
  BY <1>1 DEF Fresh, Registration

(* The floored counter is a natural number. *)
LEMMA OneLessIsNat == ASSUME NEW k \in Nat PROVE OneLess(k) \in Nat
BY DEF OneLess

(* One method call keeps the table well-formed. *)
LEMMA TypeStep == RegistryTypeOK /\ [RegistryNext]_registryVars => RegistryTypeOK'
<1> SUFFICES ASSUME RegistryTypeOK, [RegistryNext]_registryVars PROVE RegistryTypeOK'
  OBVIOUS
<1>1. ASSUME NEW n \in Node, NEW r \in Fresh, NEW overwrite \in BOOLEAN,
             RegisterNode(n, r, overwrite)
      PROVE  RegistryTypeOK'
  BY <1>1, FreshIsRegistration DEF RegistryTypeOK, Registry, RegisterNode
<1>2. ASSUME NEW n \in Node, NEW value \in BOOLEAN, SetHealth(n, value)
      PROVE  RegistryTypeOK'
  <2>1. nodes[n] \in Registration
    BY <1>2 DEF SetHealth, Known, KnownIn, RegistryTypeOK, Registry
  <2>2. [nodes[n] EXCEPT !.healthy = value] \in Registration
    BY <2>1 DEF Registration
  <2> QED
    BY <1>2, <2>2 DEF SetHealth, RegistryTypeOK, Registry
<1>3. ASSUME NEW n \in Node, IncrementActive(n)
      PROVE  RegistryTypeOK'
  <2>1. nodes[n] \in Registration
    BY <1>3 DEF IncrementActive, Known, KnownIn, RegistryTypeOK, Registry
  <2>2. [nodes[n] EXCEPT !.active = @ + 1] \in Registration
    BY <2>1 DEF Registration
  <2> QED
    BY <1>3, <2>2 DEF IncrementActive, RegistryTypeOK, Registry
<1>4. ASSUME NEW n \in Node, DecrementActive(n)
      PROVE  RegistryTypeOK'
  <2>1. nodes[n] \in Registration
    BY <1>4 DEF DecrementActive, Known, KnownIn, RegistryTypeOK, Registry
  <2>2. OneLess(nodes[n].active) \in Nat
    BY <2>1, OneLessIsNat DEF Registration
  <2>3. [nodes[n] EXCEPT !.active = OneLess(@)] \in Registration
    BY <2>1, <2>2 DEF Registration
  <2> QED
    BY <1>4, <2>3 DEF DecrementActive, RegistryTypeOK, Registry
<1>5. CASE UNCHANGED registryVars
  BY <1>5 DEF registryVars, RegistryTypeOK
<1> QED
  BY <1>1, <1>2, <1>3, <1>4, <1>5 DEF RegistryNext

-----------------------------------------------------------------------------
(* Batches: a sequence of registrations, cut short by the first refusal.     *)

(* What a batch holds. *)
LEMMA BatchEntry ==
  ASSUME NEW batch \in Batch
  PROVE  /\ Len(batch) \in Nat /\ DOMAIN batch = 1 .. Len(batch)
         /\ \A i \in 1 .. Len(batch) : batch[i][1] \in Node /\ batch[i][2] \in Fresh \cup {Malformed}
<1>1. batch \in Seq(Node \X (Fresh \cup {Malformed}))
  BY AdminAssumption
<1> QED  BY <1>1

(* A name that none of the first i entries carries keeps its entry. *)
LEMMA Unnamed ==
  ASSUME NEW reg, NEW batch \in Batch, NEW i \in 0 .. Len(batch), NEW n \in Node,
         \A j \in 1 .. i : batch[j][1] # n
  PROVE  TableAfter(reg, batch, i)[n] = reg[n]
<1>1. {j \in 1 .. i : batch[j][1] = n} = {}
  OBVIOUS
<1> QED  BY <1>1 DEF TableAfter

(* A name has the entry after which no other of the first i entries has it. *)
LEMMA LastNamed ==
  ASSUME NEW reg, NEW batch \in Batch, NEW i \in 0 .. Len(batch), NEW j \in 1 .. i,
         \A l \in 1 .. i : batch[l][1] = batch[j][1] => l <= j
  PROVE  TableAfter(reg, batch, i)[batch[j][1]] = batch[j][2]
<1> DEFINE n == batch[j][1]
           mine == {l \in 1 .. i : batch[l][1] = n}
<1>1. Len(batch) \in Nat /\ i \in Nat /\ j \in Nat /\ n \in Node
  BY BatchEntry
<1>2. mine \subseteq 0 .. i /\ mine # {} /\ j \in mine /\ \A l \in mine : l <= j
  BY <1>1
<1>3. TableAfter(reg, batch, i)[n] = batch[Max(mine)][2]
  BY <1>1, <1>2 DEF TableAfter
<1> HIDE DEF mine
<1>4. Max(mine) \in mine /\ \A l \in mine : Max(mine) >= l
  BY <1>1, <1>2, GreatestOf
<1>5. Max(mine) <= j /\ Max(mine) >= j /\ Max(mine) \in 0 .. i
  BY <1>2, <1>4
<1>6. Max(mine) = j
  BY <1>1, <1>5
<1> QED  BY <1>3, <1>6

(* Every name that is carried by one of the first i entries is so last. *)
LEMMA NamedLast ==
  ASSUME NEW batch \in Batch, NEW i \in 0 .. Len(batch), NEW n,
         \E j \in 1 .. i : batch[j][1] = n
  PROVE  \E j \in 1 .. i : batch[j][1] = n /\ \A l \in 1 .. i : batch[l][1] = n => l <= j
<1> DEFINE mine == {l \in 1 .. i : batch[l][1] = n}
<1>1. i \in Nat /\ mine \subseteq 0 .. i /\ mine # {}
  BY BatchEntry
<1>2. mine \subseteq 1 .. i /\ \A l \in mine : batch[l][1] = n
  OBVIOUS
<1>3. \A l \in 1 .. i : batch[l][1] = n => l \in mine
  OBVIOUS
<1> HIDE DEF mine
<1>4. Max(mine) \in mine /\ \A l \in mine : Max(mine) >= l
  BY <1>1, GreatestOf
<1>5. Max(mine) \in 1 .. i /\ batch[Max(mine)][1] = n
  BY <1>2, <1>4
<1>6. \A l \in 1 .. i : batch[l][1] = n => l <= Max(mine)
  BY <1>3, <1>4, <1>5
<1> QED  BY <1>5, <1>6

(* Before its first entry a batch has changed nothing. *)
LEMMA NothingYet ==
  ASSUME NEW reg \in Registry, NEW batch \in Batch
  PROVE  TableAfter(reg, batch, 0) = reg
<1>1. \A n \in Node : TableAfter(reg, batch, 0)[n] = reg[n]
  BY BatchEntry, Unnamed
<1>2. TableAfter(reg, batch, 0) = [n \in Node |-> TableAfter(reg, batch, 0)[n]]
  BY DEF TableAfter
<1>3. reg = [n \in Node |-> reg[n]]
  BY DEF Registry
<1> QED  BY <1>1, <1>2, <1>3

(* Each accepted entry is one register_node call on the table so far. *)
LEMMA OneMoreEntry ==
  ASSUME NEW reg, NEW batch \in Batch, NEW i \in 1 .. Len(batch)
  PROVE  TableAfter(reg, batch, i) =
           [TableAfter(reg, batch, i - 1) EXCEPT ![batch[i][1]] = batch[i][2]]
<1> DEFINE T == TableAfter(reg, batch, i)
           U == TableAfter(reg, batch, i - 1)
<1>1. i \in Nat /\ i - 1 \in Nat /\ i \in 0 .. Len(batch) /\ i - 1 \in 0 .. Len(batch) /\ i \in 1 .. i
  BY BatchEntry
<1>2. T[batch[i][1]] = batch[i][2]
  BY <1>1, LastNamed
<1>3. ASSUME NEW n \in Node, n # batch[i][1] PROVE T[n] = U[n]
  <2>1. CASE \E j \in 1 .. i - 1 : batch[j][1] = n
    <3>1. PICK j \in 1 .. i - 1 :
            batch[j][1] = n /\ \A l \in 1 .. i - 1 : batch[l][1] = n => l <= j
      BY <1>1, <2>1, NamedLast
    <3>2. U[n] = batch[j][2]
      BY <1>1, <3>1, LastNamed
    <3>3. j \in 1 .. i /\ \A l \in 1 .. i : batch[l][1] = batch[j][1] => l <= j
      BY <1>1, <1>3, <3>1
    <3>4. T[batch[j][1]] = batch[j][2]
      BY <1>1, <3>3, LastNamed
    <3> QED  BY <3>1, <3>2, <3>4
  <2>2. CASE \A j \in 1 .. i - 1 : batch[j][1] # n
    <3>1. \A j \in 1 .. i : batch[j][1] # n
      BY <1>1, <1>3, <2>2
    <3>2. T[n] = reg[n]
      BY <1>1, <3>1, Unnamed
    <3>3. U[n] = reg[n]
      BY <1>1, <2>2, Unnamed
    <3> QED  BY <3>2, <3>3
  <2> QED  BY <2>1, <2>2
<1>4. T = [n \in Node |-> T[n]] /\ U = [n \in Node |-> U[n]]
  BY DEF TableAfter
<1>5. batch[i][1] \in Node
  BY BatchEntry
<1> HIDE DEF T, U
<1>6. T = [U EXCEPT ![batch[i][1]] = batch[i][2]]
  BY <1>2, <1>3, <1>4, <1>5
<1> QED  BY <1>6 DEF T, U

(* The entries up to the one that is refused are registered, and no other. *)
LEMMA RegisteredPrefix ==
  ASSUME NEW reg, NEW batch \in Batch, NEW overwrite,
         NEW k, k = Registered(reg, batch, overwrite)
  PROVE  /\ k \in 0 .. Len(batch)
         /\ \A i \in 1 .. k : EntryAccepted(reg, batch, i, overwrite)
         /\ \A l \in 0 .. Len(batch) :
              (\A i \in 1 .. l : EntryAccepted(reg, batch, i, overwrite)) => l <= k
<1> DEFINE S == {l \in 0 .. Len(batch) : \A i \in 1 .. l : EntryAccepted(reg, batch, i, overwrite)}
<1>1. Len(batch) \in Nat
  BY BatchEntry
<1>2. S \subseteq 0 .. Len(batch) /\ 0 \in S
  BY <1>1
<1>3. k = Max(S)
  BY DEF Registered
<1>4. k \in S /\ \A l \in S : k >= l
  <2> HIDE DEF S
  <2> QED  BY <1>1, <1>2, <1>3, GreatestOf
<1>5. ASSUME NEW l \in S PROVE l <= k
  <2>1. k \in 0 .. Len(batch) /\ l \in 0 .. Len(batch) /\ k >= l
    BY <1>4, <1>5
  <2> QED  BY <1>1, <2>1
<1> QED  BY <1>4, <1>5

(* An entry of the table is as old as the batch, or one the batch brought. *)
LEMMA OldOrFresh ==
  ASSUME NEW reg, NEW batch \in Batch, NEW i \in 0 .. Len(batch), NEW n \in Node,
         \A j \in 1 .. i : batch[j][2] # Malformed
  PROVE  TableAfter(reg, batch, i)[n] \in Fresh \cup {reg[n]}
<1>1. Len(batch) \in Nat
  BY BatchEntry
<1>2. CASE \E j \in 1 .. i : batch[j][1] = n
  <2>1. PICK j \in 1 .. i : batch[j][1] = n /\ \A l \in 1 .. i : batch[l][1] = n => l <= j
    BY <1>2, NamedLast
  <2>2. TableAfter(reg, batch, i)[batch[j][1]] = batch[j][2]
    BY <2>1, LastNamed
  <2>3. batch[j][2] \in Fresh
    BY <1>1, BatchEntry
  <2> QED  BY <2>1, <2>2, <2>3
<1>3. CASE \A j \in 1 .. i : batch[j][1] # n
  BY <1>3, Unnamed
<1> QED  BY <1>2, <1>3

(* What a batch leaves, complete or cut short, is a well-formed table. *)
LEMMA BatchKeepsTypes ==
  ASSUME NEW reg \in Registry, NEW batch \in Batch, NEW overwrite
  PROVE  /\ AfterBatch(reg, batch, overwrite) \in Registry
         /\ \A n \in Node : AfterBatch(reg, batch, overwrite)[n] \in Fresh \cup {reg[n]}
<1> DEFINE k == Registered(reg, batch, overwrite)
           T == TableAfter(reg, batch, k)
<1>1. k \in 0 .. Len(batch) /\ \A i \in 1 .. k : batch[i][2] # Malformed
  BY RegisteredPrefix DEF EntryAccepted
<1>2. T = [n \in Node |-> T[n]]
  BY DEF TableAfter
<1>3. \A n \in Node : T[n] \in Fresh \cup {reg[n]}
  <2> HIDE DEF k
  <2> QED  BY <1>1, OldOrFresh
<1> HIDE DEF T
<1>4. \A n \in Node : T[n] \in Registration \cup {Absent}
  BY <1>3, FreshIsRegistration DEF Registry
<1>5. T \in Registry
  BY <1>2, <1>4 DEF Registry
<1> QED  BY <1>3, <1>5 DEF AfterBatch, T

(* Type correctness of the registry, under its methods and batches alike.    *)
THEOREM TypeCorrect == AdminSpec => []RegistryTypeOK
<1>1. RegistryInit => RegistryTypeOK
  BY RegistryAssumption DEF RegistryInit, LoadFromYaml, RegistryTypeOK
<1>2. RegistryTypeOK /\ [AdminNext]_registryVars => RegistryTypeOK'
  <2>1. ASSUME RegistryTypeOK, NEW batch \in Batch, NEW overwrite \in BOOLEAN,
               NEW presented, RegisterBatch(batch, overwrite, presented)
        PROVE  RegistryTypeOK'
    BY <2>1, BatchKeepsTypes DEF RegisterBatch, RegistryTypeOK
  <2> QED  BY <2>1, TypeStep DEF AdminNext
<1> QED
  BY <1>1, <1>2, PTL DEF AdminSpec

-----------------------------------------------------------------------------
(* Ownership *)

OwnershipIn(reg) == CanonicalActionsOwnedIn(reg) /\ NoMixedReplicasIn(reg)

(* Calls that change neither who serves what nor under which tag keep the    *)
(* ownership rules.                                                          *)
LEMMA OwnershipUnaffected ==
  ASSUME NEW reg, NEW new, OwnershipIn(reg), KnownIn(new) = KnownIn(reg),
         \A n \in KnownIn(reg) : new[n].actions = reg[n].actions /\ new[n].tag = reg[n].tag
  PROVE  OwnershipIn(new)
BY DEF OwnershipIn, CanonicalActionsOwnedIn, NoMixedReplicasIn, OwnerOf

(* A registration the ownership check admits keeps the ownership rules, also *)
(* when it replaces an entry of another owner.                               *)
LEMMA OwnershipRegister ==
  ASSUME NEW reg \in Registry, OwnershipIn(reg), NEW n \in Node, NEW r \in Registration,
         OwnershipAdmits(reg, n, r), NEW new, new = [reg EXCEPT ![n] = r]
  PROVE  OwnershipIn(new)
<1>1. new[n] = r /\ \A m \in Node \ {n} : new[m] = reg[m]
  BY DEF Registry
<1>2. KnownIn(new) \ {n} = KnownIn(reg) \ {n}
  BY <1>1 DEF KnownIn
<1>3. \A a \in r.actions : RequiredOwner[a] # NoOwner => OwnerOf(n, r) = RequiredOwner[a]
  BY DEF OwnershipAdmits, ClaimAllowed
<1>4. ASSUME NEW m \in KnownIn(new), m # n
      PROVE  m \in KnownIn(reg) \ {n} /\ new[m] = reg[m]
  BY <1>1, <1>2, <1>4 DEF KnownIn
<1>5. CanonicalActionsOwnedIn(new)
  <2> SUFFICES ASSUME NEW m \in KnownIn(new), NEW a \in new[m].actions,
                      RequiredOwner[a] # NoOwner
               PROVE  OwnerOf(m, new[m]) = RequiredOwner[a]
    BY DEF CanonicalActionsOwnedIn
  <2>1. CASE m = n
    BY <1>1, <1>3, <2>1
  <2>2. CASE m # n
    BY <1>4, <2>2 DEF OwnershipIn, CanonicalActionsOwnedIn
  <2> QED
    BY <2>1, <2>2
<1>6. ASSUME NEW m \in KnownIn(reg) \ {n}, NEW a \in r.actions, a \in reg[m].actions
      PROVE  \/ OwnerOf(n, r) = NoOwner
             \/ OwnerOf(m, reg[m]) = NoOwner
             \/ OwnerOf(n, r) = OwnerOf(m, reg[m])
  <2>1. MayShare(a, OwnerOf(n, r), OwnerOf(m, reg[m]))
    BY <1>6 DEF OwnershipAdmits
  <2> QED
    BY <2>1 DEF MayShare
<1>7. NoMixedReplicasIn(new)
  <2> SUFFICES ASSUME NEW m1 \in KnownIn(new), NEW m2 \in KnownIn(new),
                      NEW a \in new[m1].actions \cap new[m2].actions
               PROVE  \/ OwnerOf(m1, new[m1]) = NoOwner
                      \/ OwnerOf(m2, new[m2]) = NoOwner
                      \/ OwnerOf(m1, new[m1]) = OwnerOf(m2, new[m2])
    BY DEF NoMixedReplicasIn
  <2>1. CASE m1 = n /\ m2 = n
    BY <2>1
  <2>2. CASE m1 = n /\ m2 # n
    BY <1>1, <1>4, <1>6, <2>2
  <2>3. CASE m1 # n /\ m2 = n
    BY <1>1, <1>4, <1>6, <2>3
  <2>4. CASE m1 # n /\ m2 # n
    BY <1>4, <2>4 DEF OwnershipIn, NoMixedReplicasIn
  <2> QED
    BY <2>1, <2>2, <2>3, <2>4
<1> QED
  BY <1>5, <1>7 DEF OwnershipIn

(* So does a batch: the first entry that broke them would have been admitted *)
(* against a table that still kept them.                                     *)
LEMMA OwnershipBatch ==
  ASSUME NEW reg \in Registry, OwnershipIn(reg), NEW batch \in Batch, NEW overwrite
  PROVE  OwnershipIn(AfterBatch(reg, batch, overwrite))
<1>1. PICK k : k = Registered(reg, batch, overwrite)
  OBVIOUS
<1>2. /\ k \in 0 .. Len(batch) /\ Len(batch) \in Nat
      /\ \A i \in 1 .. k : EntryAccepted(reg, batch, i, overwrite)
  BY <1>1, RegisteredPrefix, BatchEntry
<1> DEFINE Good(i) == TableAfter(reg, batch, i) \in Registry /\ OwnershipIn(TableAfter(reg, batch, i))
           Bad == {i \in 0 .. k : ~Good(i)}
<1>3. Bad = {}
  <2> SUFFICES ASSUME Bad # {} PROVE FALSE
    OBVIOUS
  <2>1. Bad \subseteq Nat
    BY <1>2
  <2>2. PICK i \in Bad : \A j \in Bad : i <= j
    <3> HIDE DEF Bad
    <3> QED  BY <2>1, LeastOf
  <2>3. i \in 0 .. k /\ ~Good(i) /\ \A j \in 0 .. k : j < i => Good(j)
    <3>1. i \in 0 .. k /\ ~Good(i)
      BY <2>2
    <3>2. ASSUME NEW j \in 0 .. k, ~Good(j) PROVE ~ (j < i)
      <4>1. j \in Bad
        BY <3>2
      <4> HIDE DEF Bad
      <4> QED  BY <1>2, <2>2, <3>1, <4>1
    <3> HIDE DEF Bad, Good
    <3> QED  BY <3>1, <3>2
  <2>4. Good(0)
    BY NothingYet
  <2>5. CASE i = 0
    BY <2>3, <2>4, <2>5
  <2>6. CASE i # 0
    <3> DEFINE T == TableAfter(reg, batch, i - 1)
               U == TableAfter(reg, batch, i)
    <3>1. i \in 1 .. k /\ i \in 1 .. Len(batch) /\ i - 1 \in 0 .. k /\ i - 1 < i
      BY <1>2, <2>3, <2>6
    <3>2. T \in Registry /\ OwnershipIn(T)
      <4>1. Good(i - 1)
        <5> HIDE DEF Good
        <5> QED  BY <2>3, <3>1
      <4> QED  BY <4>1
    <3>3. OwnershipAdmits(T, batch[i][1], batch[i][2]) /\ batch[i][2] # Malformed
      BY <1>2, <3>1 DEF EntryAccepted, Accepts
    <3>4. batch[i][1] \in Node /\ batch[i][2] \in Registration
      BY <3>1, <3>3, BatchEntry, FreshIsRegistration
    <3>5. U = [T EXCEPT ![batch[i][1]] = batch[i][2]]
      BY <3>1, OneMoreEntry
    <3> HIDE DEF T, U
    <3>6. OwnershipIn(U)
      BY <3>2, <3>3, <3>4, <3>5, OwnershipRegister
    <3>7. U \in Registry
      BY <3>2, <3>4, <3>5 DEF Registry
    <3> QED  BY <2>3, <3>6, <3>7 DEF U
  <2> QED  BY <2>5, <2>6
<1>4. Good(k)
  <2>1. k \in 0 .. k
    BY <1>2
  <2> HIDE DEF Good
  <2> QED  BY <1>3, <2>1
<1> QED  BY <1>1, <1>4 DEF AfterBatch

(* Replacing an entry by one with the same actions and tag, whatever becomes  *)
(* of its health and its load, keeps the ownership rules.                     *)
LEMMA OwnershipSameClaims ==
  ASSUME RegistryTypeOK, OwnershipIn(nodes), NEW n \in Known, NEW r \in Registration,
         nodes' = [nodes EXCEPT ![n] = r],
         r.actions = nodes[n].actions, r.tag = nodes[n].tag
  PROVE  OwnershipIn(nodes')
<1>1. KnownIn(nodes') = KnownIn(nodes)
  BY RegistryAssumption DEF RegistryTypeOK, Registry, Known, KnownIn
<1>2. \A m \in KnownIn(nodes) : /\ nodes'[m].actions = nodes[m].actions
                                /\ nodes'[m].tag = nodes[m].tag
  BY DEF RegistryTypeOK, Registry, Known, KnownIn
<1> QED
  BY <1>1, <1>2, OwnershipUnaffected

(* Every method call keeps the ownership rules. *)
LEMMA OwnershipStep ==
  RegistryTypeOK /\ OwnershipIn(nodes) /\ [RegistryNext]_registryVars => OwnershipIn(nodes')
<1> SUFFICES ASSUME RegistryTypeOK, OwnershipIn(nodes), [RegistryNext]_registryVars
             PROVE  OwnershipIn(nodes')
  OBVIOUS
<1>1. ASSUME NEW n \in Node, NEW r \in Fresh, NEW overwrite \in BOOLEAN,
             RegisterNode(n, r, overwrite)
      PROVE  OwnershipIn(nodes')
  BY <1>1, FreshIsRegistration, OwnershipRegister DEF RegisterNode, Accepts, RegistryTypeOK
<1>2. \A n \in Known : n \in Node /\ nodes[n] \in Registration
  BY DEF Known, KnownIn, RegistryTypeOK, Registry
<1>3. ASSUME NEW n \in Node, NEW value \in BOOLEAN, SetHealth(n, value)
      PROVE  OwnershipIn(nodes')
  <2> DEFINE r == [nodes[n] EXCEPT !.healthy = value]
  <2>1. r \in Registration /\ r.actions = nodes[n].actions /\ r.tag = nodes[n].tag
    BY <1>2, <1>3 DEF SetHealth, Registration
  <2> QED
    BY <1>3, <2>1, OwnershipSameClaims DEF SetHealth
<1>4. ASSUME NEW n \in Node, IncrementActive(n)
      PROVE  OwnershipIn(nodes')
  <2> DEFINE r == [nodes[n] EXCEPT !.active = @ + 1]
  <2>1. r \in Registration /\ r.actions = nodes[n].actions /\ r.tag = nodes[n].tag
    BY <1>2, <1>4 DEF IncrementActive, Registration
  <2> QED
    BY <1>4, <2>1, OwnershipSameClaims DEF IncrementActive
<1>5. ASSUME NEW n \in Node, DecrementActive(n)
      PROVE  OwnershipIn(nodes')
  <2> DEFINE r == [nodes[n] EXCEPT !.active = OneLess(@)]
  <2>1. OneLess(nodes[n].active) \in Nat
    BY <1>2, <1>5, OneLessIsNat DEF DecrementActive, Registration
  <2>2. r \in Registration /\ r.actions = nodes[n].actions /\ r.tag = nodes[n].tag
    BY <1>2, <1>5, <2>1 DEF DecrementActive, Registration
  <2> QED
    BY <1>5, <2>2, OwnershipSameClaims DEF DecrementActive
<1>6. CASE UNCHANGED registryVars
  BY <1>6 DEF registryVars
<1> QED
  BY <1>1, <1>3, <1>4, <1>5, <1>6 DEF RegistryNext

(* If the seed file respects the ownership table, every reachable registry   *)
(* does: canonical actions stay with their owner and no route ever mixes two *)
(* owners, for any number of nodes, tags and overwrites.                     *)
THEOREM OwnershipHolds ==
  ASSUME \A file \in YamlFile : CanonicalActionsOwnedIn(file) /\ NoMixedReplicasIn(file)
  PROVE  AdminSpec => [](CanonicalActionsOwned /\ NoMixedReplicas)
<1> DEFINE Ownership == OwnershipIn(nodes)
<1>1. RegistryInit => Ownership
  BY DEF RegistryInit, LoadFromYaml, OwnershipIn
<1>2. RegistryTypeOK /\ Ownership /\ [AdminNext]_registryVars => Ownership'
  <2>1. ASSUME RegistryTypeOK, Ownership, NEW batch \in Batch, NEW overwrite \in BOOLEAN,
               NEW presented, RegisterBatch(batch, overwrite, presented)
        PROVE  Ownership'
    BY <2>1, OwnershipBatch DEF RegisterBatch, RegistryTypeOK
  <2> QED  BY <2>1, OwnershipStep DEF AdminNext
<1>3. Ownership => CanonicalActionsOwned /\ NoMixedReplicas
  BY DEF OwnershipIn, CanonicalActionsOwned, NoMixedReplicas
<1> QED
  BY <1>1, <1>2, <1>3, TypeCorrect, PTL DEF AdminSpec

(* The same seed files: no action is ever served for two different owners.   *)
THEOREM ReplicasUnmixed ==
  ASSUME \A file \in YamlFile : CanonicalActionsOwnedIn(file) /\ NoMixedReplicasIn(file)
  PROVE  AdminSpec => []NoMixedReplicas
BY OwnershipHolds, PTL

(* The sort of resolve_action has a first element whenever there is any.     *)
LEMMA FirstCandidate ==
  ASSUME RegistryTypeOK, NEW a \in Action, Candidates(a) # {}
  PROVE  \E n \in Candidates(a) : Resolves(a, n)
<1>1. \A n \in Candidates(a) : n \in Nat /\ nodes[n].active \in Nat /\ nodes[n].max \in Nat
  BY RegistryAssumption
     DEF Candidates, CandidatesIn, KnownIn, RegistryTypeOK, Registry, Registration
<1> DEFINE Loads == {nodes[n].active : n \in Candidates(a)}
<1>2. PICK load \in Loads : \A l \in Loads : load <= l
  <2>1. Loads \subseteq Nat /\ Loads # {}
    BY <1>1
  <2> HIDE DEF Loads
  <2> QED  BY <2>1, LeastOf
<1> DEFINE Idlest == {n \in Candidates(a) : nodes[n].active = load}
           Ceilings == {nodes[n].max : n \in Idlest}
<1>3. Idlest # {} /\ \A n \in Candidates(a) \ Idlest : load < nodes[n].active
  <2>1. PICK n \in Candidates(a) : nodes[n].active = load
    BY <1>2
  <2>2. \A m \in Candidates(a) : nodes[m].active \in Loads
    OBVIOUS
  <2>3. \A m \in Candidates(a) : load <= nodes[m].active
    BY <1>2, <2>2
  <2> QED  BY <1>1, <2>1, <2>3
<1>4. Ceilings \subseteq Nat /\ Ceilings # {}
  BY <1>1, <1>3
<1>5. PICK ceiling \in Ceilings : \A c \in Ceilings : ceiling <= c
  <2> HIDE DEF Ceilings
  <2> QED  BY <1>4, LeastOf
<1> DEFINE Smallest == {n \in Idlest : nodes[n].max = ceiling}
<1>6. Smallest # {} /\ \A n \in Idlest \ Smallest : ceiling < nodes[n].max
  <2>1. PICK n \in Idlest : nodes[n].max = ceiling
    BY <1>5
  <2>2. \A m \in Idlest : nodes[m].max \in Ceilings
    OBVIOUS
  <2>3. \A m \in Idlest : ceiling <= nodes[m].max
    BY <1>5, <2>2
  <2> QED  BY <1>1, <2>1, <2>3
<1>7. Smallest \subseteq Nat
  BY <1>1
<1>8. PICK n \in Smallest : \A m \in Smallest : n <= m
  BY <1>6, <1>7, LeastOf
<1>9. ASSUME NEW m \in Candidates(a) \ {n} PROVE SortsBefore(nodes, n, m)
  <2>1. nodes[n].active = load /\ nodes[n].max = ceiling
    BY <1>8
  <2>2. CASE m \notin Idlest
    BY <1>3, <2>1, <2>2 DEF SortsBefore
  <2>3. CASE m \in Idlest \ Smallest
    BY <1>6, <2>1, <2>3 DEF SortsBefore
  <2>4. CASE m \in Smallest
    BY <1>1, <1>8, <2>1, <2>4 DEF SortsBefore
  <2> QED  BY <2>2, <2>3, <2>4
<1> QED  BY <1>8, <1>9 DEF Resolves, ResolvesIn, Candidates

(* Whatever resolves in a table that respects the owners is of the right one. *)
LEMMA OwnedIsReady ==
  ASSUME RegistryTypeOK, CanonicalActionsOwned
  PROVE  ReadinessIsRouting
<1> SUFFICES ASSUME NEW a \in Action
             PROVE  Routable(a) <=> Candidates(a) # {}
  BY DEF ReadinessIsRouting
<1>1. Routable(a) => Candidates(a) # {}
  BY DEF Routable, RoutableIn, ResolvesIn, Candidates
<1>2. ASSUME Candidates(a) # {} PROVE Routable(a)
  <2>1. PICK n \in Candidates(a) : Resolves(a, n)
    BY <1>2, FirstCandidate
  <2>2. n \in Known /\ a \in nodes[n].actions /\ n \in Node
    BY <2>1 DEF Candidates, CandidatesIn, Known, KnownIn
  <2>3. RequiredOwner[a] # NoOwner => OwnerOf(n, nodes[n]) = RequiredOwner[a]
    BY <2>2 DEF CanonicalActionsOwned, CanonicalActionsOwnedIn, Known
  <2> QED  BY <2>1, <2>2, <2>3 DEF Routable, RoutableIn, Resolves
<1> QED  BY <1>1, <1>2

(* The same seed files: /v1/ready calls an action routable exactly when a    *)
(* request for it finds a node.                                              *)
THEOREM ReadinessAgrees ==
  ASSUME \A file \in YamlFile : CanonicalActionsOwnedIn(file) /\ NoMixedReplicasIn(file)
  PROVE  AdminSpec => []ReadinessIsRouting
<1>1. RegistryTypeOK /\ CanonicalActionsOwned => ReadinessIsRouting
  BY OwnedIsReady
<1> QED
  BY <1>1, TypeCorrect, OwnershipHolds, PTL

-----------------------------------------------------------------------------
(* If no seed entry starts above its ceiling, no load counter ever passes    *)
(* the ceiling of its node (increment_active refuses at the ceiling, an      *)
(* overwrite starts over at zero).                                           *)
THEOREM ActiveBounded ==
  ASSUME \A file \in YamlFile : ActiveWithinCeilingIn(file)
  PROVE  AdminSpec => []ActiveWithinCeiling
<1> USE DEF ActiveWithinCeiling, ActiveWithinCeilingIn, Known, KnownIn
<1>1. RegistryInit => ActiveWithinCeiling
  BY DEF RegistryInit, LoadFromYaml
<1>2. RegistryTypeOK /\ ActiveWithinCeiling /\ [AdminNext]_registryVars => ActiveWithinCeiling'
  <2> SUFFICES ASSUME RegistryTypeOK, ActiveWithinCeiling, [AdminNext]_registryVars
               PROVE  ActiveWithinCeiling'
    OBVIOUS
  <2> USE DEF RegistryTypeOK, Registry, Registration
  <2>1. ASSUME NEW n \in Node, NEW r \in Fresh, NEW overwrite \in BOOLEAN,
               RegisterNode(n, r, overwrite)
        PROVE  ActiveWithinCeiling'
    BY <2>1, RegistryAssumption DEF RegisterNode, Fresh
  <2>2. ASSUME NEW n \in Node, NEW value \in BOOLEAN, SetHealth(n, value)
        PROVE  ActiveWithinCeiling'
    BY <2>2 DEF SetHealth
  <2>3. ASSUME NEW n \in Node, IncrementActive(n)
        PROVE  ActiveWithinCeiling'
    BY <2>3 DEF IncrementActive, AtCeiling
  <2>4. ASSUME NEW n \in Node, DecrementActive(n)
        PROVE  ActiveWithinCeiling'
    BY <2>4 DEF DecrementActive, OneLess
  <2>5. CASE UNCHANGED registryVars
    BY <2>5 DEF registryVars
  <2>6. ASSUME NEW batch \in Batch, NEW overwrite \in BOOLEAN, NEW presented,
               RegisterBatch(batch, overwrite, presented)
        PROVE  ActiveWithinCeiling'
    <3>1. \A n \in Node : nodes'[n] \in Fresh \cup {nodes[n]}
      BY <2>6, BatchKeepsTypes DEF RegisterBatch
    <3>2. \A r \in Fresh : r.active <= r.max
      BY RegistryAssumption DEF Fresh
    <3> QED  BY <3>1, <3>2
  <2> QED
    BY <2>1, <2>2, <2>3, <2>4, <2>5, <2>6 DEF RegistryNext, AdminNext
<1> QED
  BY <1>1, <1>2, TypeCorrect, PTL DEF AdminSpec

-----------------------------------------------------------------------------
(* A batch that is delivered twice *)

Distinct(batch) == \A i, j \in DOMAIN batch : batch[i][1] = batch[j][1] => i = j

(* With distinct names every registered entry is in the table as it was sent. *)
LEMMA EntryStands ==
  ASSUME NEW reg, NEW batch \in Batch, Distinct(batch), NEW k \in 0 .. Len(batch), NEW j \in 1 .. k
  PROVE  TableAfter(reg, batch, k)[batch[j][1]] = batch[j][2]
<1>1. DOMAIN batch = 1 .. Len(batch) /\ Len(batch) \in Nat
  BY BatchEntry
<1>2. \A l \in 1 .. k : batch[l][1] = batch[j][1] => l = j
  BY <1>1 DEF Distinct
<1>3. \A l \in 1 .. k : batch[l][1] = batch[j][1] => l <= j
  BY <1>2
<1> QED  BY <1>3, LastNamed

(* Registering again what the table already holds does not change it. *)
LEMMA ReplayedPrefix ==
  ASSUME NEW reg, NEW batch \in Batch, Distinct(batch),
         NEW k \in 0 .. Len(batch), NEW i \in 0 .. k,
         NEW once, once = TableAfter(reg, batch, k)
  PROVE  TableAfter(once, batch, i) = once
<1>1. Len(batch) \in Nat /\ i \in 0 .. Len(batch)
  BY BatchEntry
<1>2. ASSUME NEW n \in Node PROVE TableAfter(once, batch, i)[n] = once[n]
  <2>1. CASE \E j \in 1 .. i : batch[j][1] = n
    <3>1. PICK j \in 1 .. i : batch[j][1] = n
      BY <2>1
    <3>2. j \in 1 .. k
      BY <1>1
    <3>3. TableAfter(once, batch, i)[batch[j][1]] = batch[j][2]
      BY <1>1, EntryStands
    <3>4. once[batch[j][1]] = batch[j][2]
      BY <3>2, EntryStands
    <3> QED  BY <3>1, <3>3, <3>4
  <2>2. CASE \A j \in 1 .. i : batch[j][1] # n
    BY <1>1, <2>2, Unnamed
  <2> QED  BY <2>1, <2>2
<1>3. TableAfter(once, batch, i) = [n \in Node |-> TableAfter(once, batch, i)[n]]
  BY DEF TableAfter
<1>4. once = [n \in Node |-> once[n]]
  BY DEF TableAfter
<1> QED  BY <1>2, <1>3, <1>4

(* Two claims that the ownership table allows may share an action in either   *)
(* order or in none.                                                          *)
LEMMA SharingIsMutual ==
  ASSUME NEW a, NEW o1, NEW o2, ClaimAllowed(a, o1), ClaimAllowed(a, o2), MayShare(a, o1, o2)
  PROVE  MayShare(a, o2, o1)
BY DEF ClaimAllowed, MayShare

(* The entries of a batch that was registered completely agree with the       *)
(* resulting table, the entries after them included.                          *)
LEMMA AdmittedAgain ==
  ASSUME NEW reg, NEW batch \in Batch, Distinct(batch), NEW overwrite,
         \A j \in 1 .. Len(batch) : EntryAccepted(reg, batch, j, overwrite),
         NEW once, once = TableAfter(reg, batch, Len(batch)),
         NEW i \in 1 .. Len(batch)
  PROVE  OwnershipAdmits(once, batch[i][1], batch[i][2])
<1> DEFINE n == batch[i][1]
           r == batch[i][2]
           T(j) == TableAfter(reg, batch, j - 1)
<1>1. /\ Len(batch) \in Nat /\ DOMAIN batch = 1 .. Len(batch)
      /\ \A j \in 1 .. Len(batch) : batch[j][1] \in Node /\ batch[j][2] \in Fresh \cup {Malformed}
  BY BatchEntry
<1>2. \A j \in 1 .. Len(batch) : /\ batch[j][2] \in Registration
                                 /\ OwnershipAdmits(T(j), batch[j][1], batch[j][2])
  BY <1>1, FreshIsRegistration DEF EntryAccepted, Accepts
<1>3. \A j \in 1 .. Len(batch) : \A a \in batch[j][2].actions : ClaimAllowed(a, OwnerOf(batch[j][1], batch[j][2]))
  BY <1>2 DEF OwnershipAdmits
<1> SUFFICES ASSUME NEW a \in r.actions, NEW m \in KnownIn(once) \ {n}, a \in once[m].actions
             PROVE  MayShare(a, OwnerOf(n, r), OwnerOf(m, once[m]))
  BY <1>3 DEF OwnershipAdmits
<1>4. m \in Node /\ m # n /\ once[m] # Absent
  BY DEF KnownIn
<1>5. ASSUME T(i)[m] = once[m] PROVE MayShare(a, OwnerOf(n, r), OwnerOf(m, once[m]))
  <2>1. m \in KnownIn(T(i)) \ {n}
    BY <1>4, <1>5 DEF KnownIn
  <2>2. OwnershipAdmits(T(i), n, r)
    BY <1>2
  <2> HIDE DEF T, n, r
  <2> QED  BY <1>5, <2>1, <2>2 DEF OwnershipAdmits
<1>6. CASE \A j \in 1 .. Len(batch) : batch[j][1] # m
  <2>1. once[m] = reg[m]
    <3>1. Len(batch) \in 0 .. Len(batch)
      BY <1>1
    <3> QED  BY <1>4, <1>6, <3>1, Unnamed
  <2>2. i - 1 \in 0 .. Len(batch) /\ \A j \in 1 .. i - 1 : batch[j][1] # m
    BY <1>1, <1>6
  <2>3. T(i)[m] = reg[m]
    BY <1>4, <2>2, Unnamed
  <2> QED  BY <1>5, <2>1, <2>3
<1>7. CASE \E j \in 1 .. Len(batch) : batch[j][1] = m
  <2>1. PICK j \in 1 .. Len(batch) : batch[j][1] = m
    BY <1>7
  <2>2. once[m] = batch[j][2]
    <3>1. Len(batch) \in 0 .. Len(batch)
      BY <1>1
    <3> QED  BY <2>1, <3>1, EntryStands
  <2>3. CASE j < i
    <3>1. i - 1 \in 0 .. Len(batch) /\ j \in 1 .. i - 1
      BY <1>1, <2>3
    <3>2. T(i)[m] = batch[j][2]
      BY <2>1, <3>1, EntryStands
    <3> QED  BY <1>5, <2>2, <3>2
  <2>4. CASE i < j
    <3>1. j - 1 \in 0 .. Len(batch) /\ i \in 1 .. j - 1
      BY <1>1, <2>4
    <3>2. T(j)[n] = r
      BY <3>1, EntryStands
    <3>3. n \in KnownIn(T(j)) \ {m}
      BY <1>1, <1>2, <1>4, <3>2, RegistryAssumption DEF KnownIn
    <3>4. OwnershipAdmits(T(j), m, once[m])
      BY <1>2, <2>1, <2>2
    <3>5. MayShare(a, OwnerOf(m, once[m]), OwnerOf(n, T(j)[n]))
      <4> HIDE DEF T, n, r
      <4> QED  BY <3>2, <3>3, <3>4 DEF OwnershipAdmits
    <3>6. ClaimAllowed(a, OwnerOf(n, r)) /\ ClaimAllowed(a, OwnerOf(m, once[m]))
      BY <1>3, <2>1, <2>2
    <3> QED  BY <3>2, <3>5, <3>6, SharingIsMutual
  <2>5. CASE i = j
    BY <1>4, <2>1, <2>5
  <2> QED  BY <1>1, <2>3, <2>4, <2>5
<1> QED  BY <1>6, <1>7

(* A batch may be sent again, whatever became of its first delivery and       *)
(* whatever is registered: the second one stops no later than the first, on   *)
(* a table that its entries leave as it is.                                   *)
THEOREM RepeatHolds == AdminSpec => []RepeatIsHarmless
<1>1. RepeatIsHarmless
  <2> SUFFICES ASSUME NEW batch \in Batch, NEW overwrite \in BOOLEAN, Distinct(batch),
                      NEW once, once = AfterBatch(nodes, batch, overwrite)
               PROVE  /\ AfterBatch(once, batch, overwrite) = once
                      /\ overwrite => (Succeeds(once, batch, overwrite) <=> Succeeds(nodes, batch, overwrite))
    BY DEF RepeatIsHarmless, Distinct
  <2>1. PICK k : k = Registered(nodes, batch, overwrite)
    OBVIOUS
  <2>2. PICK l : l = Registered(once, batch, overwrite)
    OBVIOUS
  <2>3. Len(batch) \in Nat /\ k \in 0 .. Len(batch) /\ l \in 0 .. Len(batch)
    BY <2>1, <2>2, RegisteredPrefix, BatchEntry
  <2>4. once = TableAfter(nodes, batch, k)
    BY <2>1 DEF AfterBatch
  <2>5. \A i \in 0 .. k : TableAfter(once, batch, i) = once
    BY <2>3, <2>4, ReplayedPrefix
  <2>6. \A i \in 1 .. k : EntryAccepted(nodes, batch, i, overwrite)
    BY <2>1, RegisteredPrefix
  <2>7. l <= k
    <3> SUFFICES ASSUME k < l PROVE FALSE
      BY <2>3
    <3>1. k + 1 \in 1 .. l /\ k + 1 \in 0 .. Len(batch) /\ k \in 0 .. k /\ (k + 1) - 1 = k
      BY <2>3
    <3>2. EntryAccepted(once, batch, k + 1, overwrite)
      BY <2>2, <3>1, RegisteredPrefix
    <3>3. TableAfter(once, batch, k) = TableAfter(nodes, batch, k)
      BY <2>4, <2>5, <3>1
    <3>4. EntryAccepted(nodes, batch, k + 1, overwrite)
      BY <3>1, <3>2, <3>3 DEF EntryAccepted
    <3>5. \A i \in 1 .. k + 1 : EntryAccepted(nodes, batch, i, overwrite)
      BY <2>3, <2>6, <3>4
    <3>6. k + 1 <= k
      BY <2>1, <3>1, <3>5, RegisteredPrefix
    <3> QED  BY <2>3, <3>6
  <2>8. AfterBatch(once, batch, overwrite) = once
    BY <2>2, <2>3, <2>5, <2>7 DEF AfterBatch
  <2>9. Succeeds(once, batch, overwrite) => Succeeds(nodes, batch, overwrite)
    BY <2>1, <2>2, <2>3, <2>7 DEF Succeeds
  <2>10. ASSUME overwrite, k = Len(batch) PROVE l = Len(batch)
    <3>1. ASSUME NEW i \in 1 .. Len(batch) PROVE EntryAccepted(once, batch, i, overwrite)
      <4>1. i - 1 \in 0 .. k
        BY <2>3, <2>10
      <4>2. TableAfter(once, batch, i - 1) = once
        BY <2>5, <4>1
      <4>3. OwnershipAdmits(once, batch[i][1], batch[i][2])
        BY <2>4, <2>6, <2>10, AdmittedAgain
      <4>4. batch[i][2] # Malformed
        BY <2>6, <2>10 DEF EntryAccepted
      <4> QED  BY <2>10, <4>2, <4>3, <4>4 DEF EntryAccepted, Accepts
    <3>2. Len(batch) <= l
      BY <2>2, <2>3, <3>1, RegisteredPrefix
    <3> QED  BY <2>3, <3>2
  <2> QED  BY <2>1, <2>2, <2>8, <2>9, <2>10 DEF Succeeds
<1> QED  BY <1>1, PTL

-----------------------------------------------------------------------------
(* What callers without the token learn *)

(* Hiding the canonical actions of a registration changes neither its other   *)
(* actions nor its owner.                                                     *)
LEMMA RedactedEntry ==
  ASSUME NEW reg \in Registry, NEW n \in Node, NEW a \in Action, ~Protected(a)
  PROVE  /\ n \in KnownIn(reg) /\ a \in reg[n].actions <=>
              n \in KnownIn(Redacted(reg)) /\ a \in Redacted(reg)[n].actions
         /\ n \in KnownIn(reg) => OwnerOf(n, Redacted(reg)[n]) = OwnerOf(n, reg[n])
<1>1. CASE reg[n] = Absent
  BY <1>1 DEF KnownIn, Redacted
<1>2. CASE reg[n] # Absent
  <2> DEFINE r == reg[n]
             shown == {b \in r.actions : ~Protected(b)}
             s == [r EXCEPT !.actions = shown]
  <2>1. r \in Registration
    BY <1>2 DEF Registry
  <2>2. Redacted(reg)[n] = s
    BY <1>2 DEF Redacted
  <2>3. s.actions = shown /\ s.tag = r.tag
    BY <2>1 DEF Registration
  <2>4. ASSUME a \in shown PROVE s # Absent
    <3>1. shown \in Actions
      BY <2>1, <2>4 DEF Registration, Actions
    <3> HIDE DEF shown, r
    <3>2. s \in Registration
      BY <2>1, <3>1 DEF Registration
    <3> QED  BY <3>2, RegistryAssumption
  <2>5. a \in shown <=> a \in r.actions
    OBVIOUS
  <2> HIDE DEF s, shown
  <2> QED  BY <1>2, <2>2, <2>3, <2>4, <2>5 DEF KnownIn, OwnerOf
<1> QED  BY <1>1, <1>2

(* So descriptors of other actions are the same. *)
LEMMA RedactedDescriptors ==
  ASSUME NEW reg \in Registry, NEW A \in SUBSET Action, \A a \in A : ~Protected(a)
  PROVE  Descriptors(Redacted(reg), A) = Descriptors(reg, A)
<1>1. ASSUME NEW a \in A
      PROVE  /\ Advertised(Redacted(reg), a) = Advertised(reg, a)
             /\ OwnersShown(Redacted(reg), a) = OwnersShown(reg, a)
  <2>1. a \in Action /\ ~Protected(a)
    OBVIOUS
  <2>2. Advertised(Redacted(reg), a) <=> Advertised(reg, a)
    BY <2>1, RedactedEntry DEF Advertised, KnownIn
  <2>3. Advertised(Redacted(reg), a) = Advertised(reg, a)
    BY <2>2 DEF Advertised
  <2> DEFINE M == {m \in KnownIn(reg) : a \in reg[m].actions}
             N == {m \in KnownIn(Redacted(reg)) : a \in Redacted(reg)[m].actions}
  <2>4. M = N
    BY <2>1, RedactedEntry DEF KnownIn
  <2>5. \A m \in M : OwnerOf(m, Redacted(reg)[m]) = OwnerOf(m, reg[m])
    BY <2>1, RedactedEntry DEF KnownIn
  <2>6. {OwnerOf(m, Redacted(reg)[m]) : m \in N} = {OwnerOf(m, reg[m]) : m \in M}
    <3> HIDE DEF M, N
    <3> QED  BY <2>4, <2>5
  <2>7. OwnersShown(Redacted(reg), a) = OwnersShown(reg, a)
    BY <2>1, <2>6 DEF OwnersShown
  <2> QED  BY <2>3, <2>7
<1> QED  BY <1>1 DEF Descriptors

(* An entry that serves an action of the seam keeps, without its address and  *)
(* its other actions, all that routing reads.                                 *)
LEMMA SeamEntry ==
  ASSUME NEW reg \in Registry, NEW n \in Node, NEW a \in SeamActions
  PROVE  /\ n \in KnownIn(reg) /\ a \in reg[n].actions <=>
              n \in KnownIn(SeamOnly(reg)) /\ a \in SeamOnly(reg)[n].actions
         /\ n \in KnownIn(reg) /\ a \in reg[n].actions =>
              /\ OwnerOf(n, SeamOnly(reg)[n]) = OwnerOf(n, reg[n])
              /\ SeamOnly(reg)[n].healthy = reg[n].healthy
              /\ SeamOnly(reg)[n].active = reg[n].active
              /\ SeamOnly(reg)[n].max = reg[n].max
<1>1. CASE reg[n] = Absent \/ reg[n].actions \cap SeamActions = {}
  <2>1. SeamOnly(reg)[n] = Absent
    BY <1>1 DEF SeamOnly
  <2>2. ~ (n \in KnownIn(reg) /\ a \in reg[n].actions)
    BY <1>1 DEF KnownIn
  <2> QED  BY <2>1, <2>2 DEF KnownIn
<1>2. CASE ~ (reg[n] = Absent \/ reg[n].actions \cap SeamActions = {})
  <2> DEFINE r == reg[n]
             seam == r.actions \cap SeamActions
             s == [r EXCEPT !.actions = seam, !.url = Withheld]
  <2>1. r \in Registration
    BY <1>2 DEF Registry
  <2>2. SeamOnly(reg)[n] = s
    BY <1>2 DEF SeamOnly
  <2>3. seam \in Actions
    BY <1>2, <2>1 DEF Registration, Actions
  <2>4. a \in seam <=> a \in r.actions
    OBVIOUS
  <2> HIDE DEF seam, r
  <2>5. /\ s.actions = seam /\ s.tag = r.tag /\ s.healthy = r.healthy
        /\ s.active = r.active /\ s.max = r.max
    BY <2>1 DEF Registration
  <2>6. s \in [actions : Actions, tag : Tag \cup {NoTag}, url : {Withheld},
               max : 1 .. MaxCeiling, healthy : BOOLEAN, active : Nat]
    BY <2>1, <2>3 DEF Registration
  <2>7. s # Absent /\ r # Absent
    BY <2>1, <2>6, AdminAssumption, RegistryAssumption
  <2> HIDE DEF s
  <2> QED  BY <2>2, <2>4, <2>5, <2>7 DEF KnownIn, OwnerOf, r
<1> QED  BY <1>1, <1>2

(* So the readiness report of an action of the seam is the same. *)
LEMMA SeamRoutability ==
  ASSUME NEW reg \in Registry, NEW a \in SeamActions
  PROVE  /\ ActionRoutability(SeamOnly(reg), a) = ActionRoutability(reg, a)
         /\ RoutableIn(SeamOnly(reg), a) <=> RoutableIn(reg, a)
<1>1. PICK seen : seen = SeamOnly(reg)
  OBVIOUS
<1> DEFINE serving == {n \in KnownIn(reg) : a \in reg[n].actions}
<1>2. {n \in KnownIn(seen) : a \in seen[n].actions} = serving
  BY <1>1, SeamEntry DEF KnownIn
<1>3. \A n \in serving : /\ n \in Node
                         /\ OwnerOf(n, seen[n]) = OwnerOf(n, reg[n]) /\ seen[n].healthy = reg[n].healthy
                         /\ seen[n].active = reg[n].active /\ seen[n].max = reg[n].max
  BY <1>1, SeamEntry DEF KnownIn
<1>4. CandidatesIn(seen, a) = {n \in serving : seen[n].healthy}
  BY <1>2 DEF CandidatesIn
<1>5. CandidatesIn(reg, a) = {n \in serving : reg[n].healthy}
  BY DEF CandidatesIn
<1> HIDE DEF serving
<1>6. CandidatesIn(seen, a) = CandidatesIn(reg, a) /\ CandidatesIn(reg, a) \subseteq serving
  BY <1>3, <1>4, <1>5
<1>7. \A n, m \in CandidatesIn(reg, a) : SortsBefore(seen, n, m) <=> SortsBefore(reg, n, m)
  BY <1>3, <1>6 DEF SortsBefore
<1>8. \A n : ResolvesIn(seen, a, n) <=> ResolvesIn(reg, a, n)
  BY <1>6, <1>7 DEF ResolvesIn
<1>9. \A n : ResolvesIn(reg, a, n) => n \in serving
  BY <1>6 DEF ResolvesIn
<1>10. RoutableIn(seen, a) <=> RoutableIn(reg, a)
  BY <1>3, <1>8, <1>9 DEF RoutableIn
<1>11. RoutableIn(seen, a) = RoutableIn(reg, a)
  BY <1>10 DEF RoutableIn
<1>12. {n \in Node : ResolvesIn(seen, a, n)} = {n \in Node : ResolvesIn(reg, a, n)}
  BY <1>8
<1>13. [n \in serving |-> OwnerOf(n, seen[n])] = [n \in serving |-> OwnerOf(n, reg[n])]
  BY <1>3
<1>14. ActionRoutability(seen, a) = ActionRoutability(reg, a)
  BY <1>2, <1>6, <1>11, <1>12, <1>13 DEF ActionRoutability, serving
<1> QED  BY <1>1, <1>10, <1>14

(* And so is the whole report of /v1/ready. *)
LEMMA SeamReport ==
  ASSUME NEW reg \in Registry
  PROVE  RoutingReadiness(reg) = RoutingReadiness(SeamOnly(reg))
<1>1. [a \in SeamActions |-> ActionRoutability(SeamOnly(reg), a)]
        = [a \in SeamActions |-> ActionRoutability(reg, a)]
  BY SeamRoutability
<1>2. (\A a \in SeamActions : RoutableIn(SeamOnly(reg), a)) = (\A a \in SeamActions : RoutableIn(reg, a))
  BY SeamRoutability
<1> QED  BY <1>1, <1>2 DEF RoutingReadiness

(* For any registry, seam and tokens: the registry and capability routes tell *)
(* a caller without the token what a registry without canonical actions would *)
(* tell, and /v1/ready tells anyone what a registry of the seam's actions     *)
(* alone would, with no address in it.                                        *)
THEOREM PublicViewHolds == AdminSpec => []PublicViewIsBounded
<1>1. RegistryTypeOK => PublicViewIsBounded
  <2> SUFFICES ASSUME nodes \in Registry
               PROVE  PublicViewIsBounded
    BY DEF RegistryTypeOK
  <2>0. RoutingReadiness(nodes) = RoutingReadiness(SeamOnly(nodes))
    BY SeamReport
  <2> SUFFICES ASSUME NEW presented \in Token \cup {NoToken}, ~Authorized(presented)
               PROVE  /\ RegistrySnapshot(nodes, presented) = RegistrySnapshot(Redacted(nodes), presented)
                      /\ \A include \in BOOLEAN :
                           ListCapabilities(nodes, presented, include) =
                             ListCapabilities(Redacted(nodes), presented, include)
                      /\ \A a \in Action :
                           GetCapability(nodes, a, presented) = GetCapability(Redacted(nodes), a, presented)
    BY <2>0 DEF PublicViewIsBounded
  <2>1. RegistrySnapshot(nodes, presented) = RegistrySnapshot(Redacted(nodes), presented)
    BY DEF RegistrySnapshot, Authorized
  <2>2. \A a \in Action : ~Protected(a) => (Advertised(Redacted(nodes), a) <=> Advertised(nodes, a))
    BY RedactedEntry DEF Advertised, KnownIn
  <2>3. \A a \in Action : ~Protected(a) => Descriptors(Redacted(nodes), {a}) = Descriptors(nodes, {a})
    BY RedactedDescriptors
  <2>4. ASSUME NEW include \in BOOLEAN
        PROVE  ListCapabilities(nodes, presented, include) =
                 ListCapabilities(Redacted(nodes), presented, include)
    <3>1. CASE include
      BY <3>1 DEF ListCapabilities
    <3>2. CASE ~include
      <4> DEFINE A == Projected(nodes, FALSE)
      <4>1. A \in SUBSET Action /\ \A a \in A : ~Protected(a)
        BY DEF Projected
      <4>2. Projected(Redacted(nodes), FALSE) = A
        BY <2>2 DEF Projected
      <4>3. Descriptors(Redacted(nodes), A) = Descriptors(nodes, A)
        <5> HIDE DEF A
        <5> QED  BY <4>1, RedactedDescriptors
      <4>4. (Authorized(presented) \/ include) = FALSE
        BY <3>2 DEF Authorized
      <4> QED  BY <3>2, <4>2, <4>3, <4>4 DEF ListCapabilities
    <3> QED  BY <3>1, <3>2
  <2>5. ASSUME NEW a \in Action
        PROVE  GetCapability(nodes, a, presented) = GetCapability(Redacted(nodes), a, presented)
    <3>1. CASE Protected(a)
      BY <3>1 DEF GetCapability
    <3>2. CASE ~Protected(a)
      <4>1. a \in Projected(nodes, TRUE) <=> a \in Projected(Redacted(nodes), TRUE)
        BY <2>2, <3>2 DEF Projected
      <4> QED  BY <2>3, <3>2, <4>1 DEF GetCapability
    <3> QED  BY <3>1, <3>2
  <2> QED  BY <2>1, <2>4, <2>5
<1> QED  BY <1>1, TypeCorrect, PTL
=============================================================================
