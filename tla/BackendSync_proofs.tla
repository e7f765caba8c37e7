------------------------- MODULE BackendSync_proofs -------------------------
(***************************************************************************)
(* Theorems about BackendSync: types, and that no change is missed.        *)
(***************************************************************************)
EXTENDS BackendSync, WorkerQueue_proofs, FunctionTheorems, WellFoundedInduction

-----------------------------------------------------------------------------
(* Numbers and sequences.                                                  *)

Below == {p \in Nat \X Nat : p[1] < p[2]}

LEMMA Least == ASSUME NEW T \in SUBSET Nat, T # {} PROVE \E n \in T : \A k \in T : n <= k
<1>1. IsWellFoundedOn(Below, Nat)
  BY NatLessThanWellFounded DEF OpToRel, Below
<1>2. \E n \in T : \A k \in T : ~(<<k, n>> \in Below)
  BY <1>1, WFMin
<1>3. PICK n \in T : \A k \in T : ~(<<k, n>> \in Below)
  BY <1>2
<1>4. ASSUME NEW k \in T PROVE n <= k
  <2>1. k \in Nat /\ n \in Nat /\ ~(<<k, n>> \in Below)
    BY <1>3
  <2>2. ~(k < n)
    BY <2>1 DEF Below
  <2> QED BY <2>1, <2>2
<1> QED BY <1>4

\* The items for the members of a set, in any order.
LEMMA ItemsInOrder ==
    ASSUME NEW S, IsFiniteSet(S), NEW order \in SetToSeqs(S), NEW I, NEW g \in [S -> I],
           NEW items \in [DOMAIN order -> I], \A n \in DOMAIN order : items[n] = g[order[n]]
    PROVE  items \in Seq(I) /\ \A x \in S : g[x] \in ToSet(items)
<1> DEFINE D == 1 .. Cardinality(S)
<1>1. Cardinality(S) \in Nat
  BY FS_CardinalityType
<1>2. order \in [D -> S] /\ \A i, j \in D : i # j => order[i] # order[j]
  BY DEF SetToSeqs
<1>3. order \in Injection(D, S)
  BY <1>2 DEF Injection, IsInjective
<1>4. IsFiniteSet(D) /\ Cardinality(D) = Cardinality(S)
  BY <1>1, FS_Interval
<1>5. order \in Surjection(D, S)
  BY <1>3, <1>4, FS_Injection
<1>6. items \in [D -> I]
  BY <1>2
<1>7. items \in Seq(I) /\ DOMAIN items = D
  BY <1>1, <1>6
<1>8. ASSUME NEW x \in S PROVE g[x] \in ToSet(items)
  <2>1. PICK n \in D : order[n] = x
    BY <1>5 DEF Surjection
  <2>2. items[n] = g[x]
    BY <1>2, <2>1
  <2> QED BY <1>7, <2>1, <2>2 DEF ToSet
<1> QED BY <1>7, <1>8

-----------------------------------------------------------------------------
(* Types.                                                                  *)

ClusterOK ==
    /\ DOMAIN ing = Ingresses
    /\ \A i \in Ingresses : ing[i] \in Defs[i] \cup {Absent}
    /\ svc \in [Backends -> SvcDefs \cup {Absent}]
    /\ pods \in [Backends -> Rollouts]
    /\ bcfg \in [Bcfgs -> BcfgDefs \cup {Absent}]
WorkOK == queue \in Seq(Items) /\ retries \in Seq(Items)
ConfigOK == config \in [VarnishSvcs -> Configs \cup {NotReady}]
BoundsOK == changes \in 0 .. MaxChanges /\ faults \in 0 .. MaxFaults

LEMMA TypeParts == TypeOK <=> ClusterOK /\ WorkOK /\ ConfigOK /\ BoundsOK
  BY DEF TypeOK, ClusterOK, WorkOK, ConfigOK, BoundsOK

LEMMA TypePartsNext == ClusterOK' /\ WorkOK' /\ ConfigOK' /\ BoundsOK' => TypeOK'
  BY DEF TypeOK, ClusterOK, WorkOK, ConfigOK, BoundsOK

LEMMA ItemTypes ==
    /\ \A i \in Ingresses : Ing(i) \in Items /\ IngDeleted(i) \in Items
    /\ \A b \in Backends : Svc(b) \in Items /\ SvcDeleted(b) \in Items /\ Endp(b) \in Items
    /\ \A c \in Bcfgs : Bcfg(c) \in Items
    /\ \A def \in BcfgDefs : BcfgDeleted(def.services) \in Items
    /\ Tombstone \in Items
  BY DEF Items

\* The item of a handler's step.
LEMMA HandledItem ==
    ASSUME WorkOK, NEW kind, Handles(kind)
    PROVE  /\ queue # <<>> /\ Head(queue) \in Items /\ Head(queue).kind = kind
           /\ kind = "ing" => \E i \in Ingresses : i = Head(queue).key /\ Head(queue) = Ing(i)
           /\ kind = "ingDeleted" =>
                \E i \in Ingresses : i = Head(queue).key /\ Head(queue) = IngDeleted(i)
           /\ kind = "svc" => \E b \in Backends : b = Head(queue).key /\ Head(queue) = Svc(b)
           /\ kind = "svcDeleted" =>
                \E b \in Backends : b = Head(queue).key /\ Head(queue) = SvcDeleted(b)
           /\ kind = "endp" => \E b \in Backends : b = Head(queue).key /\ Head(queue) = Endp(b)
           /\ kind = "bcfg" => \E c \in Bcfgs : c = Head(queue).key /\ Head(queue) = Bcfg(c)
           /\ kind = "bcfgDeleted" =>
                \E def \in BcfgDefs :
                    def.services = Head(queue).key /\ Head(queue) = BcfgDeleted(def.services)
           /\ kind = "tombstone" => Head(queue) = Tombstone
<1>1. Takes(kind) /\ queue # <<>>
  BY DEF Handles, Takes
<1>2. PICK x \in Items : x = Head(queue) /\ x.kind = kind
  BY <1>1, TakesItem DEF WorkOK
<1> HIDE DEF Handles
<1>3. \/ \E i \in Ingresses : x = Ing(i) \/ x = IngDeleted(i)
      \/ \E b \in Backends : x = Svc(b) \/ x = SvcDeleted(b) \/ x = Endp(b)
      \/ \E c \in Bcfgs : x = Bcfg(c)
      \/ \E def \in BcfgDefs : x = BcfgDeleted(def.services)
      \/ x = Tombstone
  BY <1>2 DEF Items
<1>4. CASE \E i \in Ingresses : x = Ing(i) \/ x = IngDeleted(i)
  BY <1>1, <1>2, <1>4 DEF Ing, IngDeleted
<1>5. CASE \E b \in Backends : x = Svc(b) \/ x = SvcDeleted(b) \/ x = Endp(b)
  BY <1>1, <1>2, <1>5 DEF Svc, SvcDeleted, Endp
<1>6. CASE \E c \in Bcfgs : x = Bcfg(c)
  BY <1>1, <1>2, <1>6 DEF Bcfg
<1>7. CASE \E def \in BcfgDefs : x = BcfgDeleted(def.services)
  BY <1>1, <1>2, <1>7 DEF BcfgDeleted
<1>8. CASE x = Tombstone
  BY <1>1, <1>2, <1>8 DEF Tombstone
<1> QED BY <1>3, <1>4, <1>5, <1>6, <1>7, <1>8

\* An Ingress has backends at its places.
LEMMA IngType ==
    ASSUME ClusterOK, NEW i \in Ingresses, ing[i] # Absent
    PROVE  /\ ing[i] \in Defs[i]
           /\ \E P \in SUBSET Places : ing[i] \in [P -> Backends]
           /\ \A p \in DOMAIN ing[i] : p \in Places /\ ing[i][p] \in Backends
<1>1. ing[i] \in Defs[i]
  BY DEF ClusterOK
<1>2. PICK d : d = ing[i] /\ d \in UNION {[P -> Backends] : P \in SUBSET Places}
  BY <1>1, DefsAssumption
<1>3. PICK P \in SUBSET Places : d \in [P -> Backends]
  BY <1>2
<1> QED BY <1>1, <1>2, <1>3

LEMMA ServingType ==
    ASSUME ClusterOK, NEW b \in Backends, Resolves(b)
    PROVE  /\ TargetPort(b) \in Ports
           /\ \E n \in Serving(b) : Addresses(b) = pods[b].subsets[n].ips
           /\ Addresses(b) \in SUBSET IPs
<1>0. PICK r \in Rollouts : r = pods[b]
  BY DEF ClusterOK
<1>1. PICK X, s : /\ X = [ports : SUBSET Ports, ips : SUBSET IPs]
                  /\ s = pods[b].subsets /\ s \in Seq(X)
  BY <1>0, RolloutsAssumption
<1>2. PICK T : T = Serving(b) /\ T # {} /\ T \subseteq DOMAIN s
  BY <1>1 DEF Resolves, Serving
<1>3. T \in SUBSET Nat
  BY <1>1, <1>2
<1>4. PICK n \in T : n = CHOOSE m \in T : \A k \in T : m <= k
  BY <1>2, <1>3, Least
<1>5. Addresses(b) = s[n].ips
  BY <1>1, <1>2, <1>4 DEF Addresses
<1>6. s[n] \in X
  <2>1. s \in Seq(X) /\ n \in DOMAIN s
    BY <1>1, <1>2, <1>4
  <2> QED BY <2>1
<1>7. Addresses(b) \in SUBSET IPs
  BY <1>1, <1>5, <1>6
<1>8. \E k \in Serving(b) : Addresses(b) = pods[b].subsets[k].ips
  BY <1>1, <1>2, <1>4, <1>5
<1> QED BY <1>7, <1>8 DEF Resolves

\* What is merged for a Service is a configuration.
LEMMA MergedType ==
    ASSUME ClusterOK, NEW v, CanMerge(v), NEW f \in BcfgChoices
    PROVE  /\ Merged(v, f) \in Configs \cup {NotReady}
           /\ IngsOf(v) # {} => Merged(v, f) \in Configs
<1>1. PICK I \in SUBSET Ingresses : I = IngsOf(v)
  BY DEF IngsOf
<1>2. ASSUME NEW i \in I
      PROVE  [p \in DOMAIN ing[i] |-> VclSvc(ing[i][p], Addresses(ing[i][p]), f)] \in VclIngs
  <2>1. ing[i] # Absent /\ i \in Ingresses
    BY <1>1, <1>2 DEF IngsOf
  <2>2. PICK P \in SUBSET Places : ing[i] \in [P -> Backends]
    BY <2>1, IngType
  <2>3. ASSUME NEW p \in P PROVE VclSvc(ing[i][p], Addresses(ing[i][p]), f) \in VclSvcs
    <3>1. PICK b \in Backends : b = ing[i][p]
      BY <2>2
    <3>2. b \in UsedBy(v)
      BY <1>1, <1>2, <2>1, <2>2, <3>1 DEF UsedBy, NamesAt
    <3>3. TargetPort(b) \in Ports /\ Addresses(b) \in SUBSET IPs
      BY <3>2, ServingType DEF CanMerge
    <3>4. f[b] \in BcfgDefs \cup {Absent}
      BY DEF BcfgChoices
    <3> QED BY <3>1, <3>3, <3>4 DEF VclSvc, VclSvcs
  <2>4. [p \in P |-> VclSvc(ing[i][p], Addresses(ing[i][p]), f)] \in [P -> VclSvcs]
    BY <2>3
  <2> QED BY <2>2, <2>4 DEF VclIngs
<1>3. [i \in I |-> [p \in DOMAIN ing[i] |-> VclSvc(ing[i][p], Addresses(ing[i][p]), f)]]
        \in [I -> VclIngs]
  BY <1>2
<1> QED BY <1>1, <1>3 DEF Merged, Configs

LEMMA UpdateTypes ==
    ASSUME ClusterOK, ConfigOK, NEW U, AddOrUpdateIngs(U)
    PROVE  ConfigOK' /\ (Synced(<<>>) \/ Failed(<<>>)) /\ (Fault \/ NoFault)
<1>1. PICK D : UpdateConfigs(D) /\ \A v \in D : CanMerge(v)
  BY DEF AddOrUpdateIngs
<1>2. PICK f \in BcfgChoices :
        config' = [v \in VarnishSvcs |-> IF v \in D THEN Merged(v, f) ELSE config[v]]
  BY <1>1 DEF UpdateConfigs
<1>3. \A v \in D : Merged(v, f) \in Configs \cup {NotReady}
  BY <1>1, MergedType
<1>4. ConfigOK'
  BY <1>2, <1>3 DEF ConfigOK
<1> QED BY <1>4 DEF AddOrUpdateIngs

\* The items that lead on to the Ingresses.
LEMMA MentionsFinite ==
    ASSUME NEW b
    PROVE  /\ IsFiniteSet(Mentions(b))
           /\ \A m \in Mentions(b) : m[1] \in Ingresses \ Foreign /\ NamesAt(m[1], m[2], b)
<1>1. IsFiniteSet((Ingresses \ Foreign) \X Places)
  BY FiniteAssumption, FS_Product, FS_Subset
<1>2. PICK M : M = Mentions(b) /\ M \subseteq (Ingresses \ Foreign) \X Places
  BY DEF Mentions
<1>3. IsFiniteSet(M)
  BY <1>1, <1>2, FS_Subset
<1> QED BY <1>2, <1>3 DEF Mentions

LEMMA IngressItems ==
    ASSUME NEW b, EnqueueIngressForService(b)
    PROVE  \E items \in Seq(Items) :
               ReturnsNil(items) /\ \A m \in Mentions(b) : Ing(m[1]) \in ToSet(items)
<1>1. PICK M : M = Mentions(b) /\ IsFiniteSet(M) /\ \A m \in M : m[1] \in Ingresses
  BY MentionsFinite
<1>2. PICK order \in SetToSeqs(M) : ReturnsNil([n \in DOMAIN order |-> Ing(order[n][1])])
  BY <1>1 DEF EnqueueIngressForService
<1>3. PICK g : g = [m \in M |-> Ing(m[1])] /\ g \in [M -> Items]
  <2>1. \A m \in M : Ing(m[1]) \in Items
    BY <1>1, ItemTypes
  <2>2. [m \in M |-> Ing(m[1])] \in [M -> Items]
    BY <2>1, Zenon
  <2> QED BY <2>2
<1>4. order \in [1 .. Cardinality(M) -> M]
  BY DEF SetToSeqs
<1>5. PICK items : items = [n \in DOMAIN order |-> Ing(order[n][1])]
  OBVIOUS
<1>6. items = [n \in DOMAIN order |-> g[order[n]]]
  BY <1>3, <1>4, <1>5
<1>7. items \in Seq(Items) /\ \A m \in M : g[m] \in ToSet(items)
  <2>1. IsFiniteSet(M) /\ order \in SetToSeqs(M) /\ g \in [M -> Items]
    BY <1>1, <1>2, <1>3
  <2>2. items \in [DOMAIN order -> Items] /\ \A n \in DOMAIN order : items[n] = g[order[n]]
    BY <1>3, <1>4, <1>6
  <2> QED BY <2>1, <2>2, ItemsInOrder
<1> QED BY <1>1, <1>2, <1>3, <1>5, <1>7

LEMMA BackendItems ==
    ASSUME NEW S \in SUBSET Backends, EnqueueIngsForBackendSvcs(S)
    PROVE  \E items \in Seq(Items) :
              /\ ReturnsNil(items)
              /\ \A b \in S : (\E i \in Ingresses, p \in Places : NamesAt(i, p, b)) =>
                     \E i \in Ingresses, p \in Places : NamesAt(i, p, b) /\ Ing(i) \in ToSet(items)
<1>1. PICK N : N = {b \in S : \E i \in Ingresses, p \in Places : NamesAt(i, p, b)}
  OBVIOUS
<1>2. IsFiniteSet(N)
  BY <1>1, FiniteAssumption, FS_Subset
<1>3. PICK svc2ing \in [N -> Ingresses], order \in SetToSeqs(N) :
        /\ \A b \in N : \E p \in Places : NamesAt(svc2ing[b], p, b)
        /\ ReturnsNil([n \in DOMAIN order |-> Ing(svc2ing[order[n]])])
  BY <1>1 DEF EnqueueIngsForBackendSvcs
<1>4. PICK g : g = [b \in N |-> Ing(svc2ing[b])] /\ g \in [N -> Items]
  <2>1. \A b \in N : Ing(svc2ing[b]) \in Items
    BY <1>3, ItemTypes
  <2>2. [b \in N |-> Ing(svc2ing[b])] \in [N -> Items]
    BY <2>1, Zenon
  <2> QED BY <2>2
<1>5. order \in [1 .. Cardinality(N) -> N]
  BY DEF SetToSeqs
<1>6. PICK items : items = [n \in DOMAIN order |-> Ing(svc2ing[order[n]])]
  OBVIOUS
<1>7. items = [n \in DOMAIN order |-> g[order[n]]]
  BY <1>4, <1>5, <1>6
<1>8. items \in Seq(Items) /\ \A b \in N : g[b] \in ToSet(items)
  <2>1. IsFiniteSet(N) /\ order \in SetToSeqs(N) /\ g \in [N -> Items]
    BY <1>2, <1>3, <1>4
  <2>2. items \in [DOMAIN order -> Items] /\ \A n \in DOMAIN order : items[n] = g[order[n]]
    BY <1>4, <1>5, <1>7
  <2> QED BY <2>1, <2>2, ItemsInOrder
<1>9. ASSUME NEW b \in N
      PROVE  \E i \in Ingresses, p \in Places : NamesAt(i, p, b) /\ Ing(i) \in ToSet(items)
  <2>1. PICK i \in Ingresses : i = svc2ing[b]
    BY <1>3
  <2> QED BY <1>3, <1>4, <1>8, <1>9, <2>1
<1> QED BY <1>1, <1>3, <1>6, <1>8, <1>9

\* The queue at the start.
LEMMA InitialWork ==
    ASSUME Init
    PROVE  WorkOK /\ \A i \in Ingresses : ing[i] # Absent => Ing(i) \in Waiting
<1> DEFINE A == {i \in Ingresses : ing[i] # Absent}
           B == {b \in Backends : svc[b] # Absent}
           E == {b \in Backends : pods[b].subsets # <<>>}
           C == {c \in Bcfgs : bcfg[c] # Absent}
           S == {Ing(i) : i \in A} \cup {Svc(b) : b \in B} \cup {Endp(b) : b \in E}
                \cup {Bcfg(c) : c \in C}
<1>1. IsFiniteSet({Ing(i) : i \in A})
  <2>1. PICK T \in SUBSET Ingresses : T = A
    OBVIOUS
  <2>2. IsFiniteSet(T)
    BY FiniteAssumption, FS_Subset
  <2>3. [i \in T |-> Ing(i)] \in Surjection(T, {Ing(i) : i \in T})
    BY DEF Surjection
  <2> QED BY <2>1, <2>2, <2>3, FS_Surjection
<1>2. IsFiniteSet({Svc(b) : b \in B})
  <2>1. PICK T \in SUBSET Backends : T = B
    OBVIOUS
  <2>2. IsFiniteSet(T)
    BY FiniteAssumption, FS_Subset
  <2>3. [b \in T |-> Svc(b)] \in Surjection(T, {Svc(b) : b \in T})
    BY DEF Surjection
  <2> QED BY <2>1, <2>2, <2>3, FS_Surjection
<1>3. IsFiniteSet({Endp(b) : b \in E})
  <2>1. PICK T \in SUBSET Backends : T = E
    OBVIOUS
  <2>2. IsFiniteSet(T)
    BY FiniteAssumption, FS_Subset
  <2>3. [b \in T |-> Endp(b)] \in Surjection(T, {Endp(b) : b \in T})
    BY DEF Surjection
  <2> QED BY <2>1, <2>2, <2>3, FS_Surjection
<1>4. IsFiniteSet({Bcfg(c) : c \in C})
  <2>1. PICK T \in SUBSET Bcfgs : T = C
    OBVIOUS
  <2>2. IsFiniteSet(T)
    BY FiniteAssumption, FS_Subset
  <2>3. [c \in T |-> Bcfg(c)] \in Surjection(T, {Bcfg(c) : c \in T})
    BY DEF Surjection
  <2> QED BY <2>1, <2>2, <2>3, FS_Surjection
<1>5. IsFiniteSet(S)
  BY <1>1, <1>2, <1>3, <1>4, FS_Union
<1>6. S \subseteq Items
  BY ItemTypes
<1>7. queue = SetToSeq(S) /\ retries = <<>>
  BY DEF Init
<1>8. \A i \in A : Ing(i) \in S
  OBVIOUS
<1> HIDE DEF S
<1>9. queue \in Seq(S) /\ ToSet(queue) = S
  BY <1>5, <1>7, SequenceOfSet
<1>10. queue \in Seq(Items)
  BY <1>6, <1>9
<1> QED BY <1>7, <1>8, <1>9, <1>10 DEF WorkOK, Waiting

LEMMA TypeInit == Init => TypeOK
<1> SUFFICES ASSUME Init PROVE TypeOK
  OBVIOUS
<1>1. ClusterOK
  BY DEF Init, ClusterOK
<1>2. ConfigOK
  BY DEF Init, ConfigOK
<1>3. BoundsOK
  BY BoundsAssumption DEF Init, BoundsOK
<1> QED BY <1>1, <1>2, <1>3, InitialWork, TypeParts

LEMMA ChangedTypes ==
    ASSUME TypeOK, NEW kind, NEW item \in Items, Changed(kind, item)
    PROVE  /\ WorkOK' /\ ConfigOK' /\ BoundsOK' /\ UNCHANGED config
           /\ Waiting' = Waiting \cup {item}
<1>1. WorkOK /\ ConfigOK /\ BoundsOK
  BY TypeParts
<1>2. <<item>> \in Seq(Items) /\ ToSet(<<item>>) = {item} /\ Enqueue(<<item>>)
  BY DEF Changed, ToSet
<1>3. WorkOK' /\ Waiting' = Waiting \cup {item}
  BY <1>1, <1>2, EnqueueWaits DEF WorkOK
<1>4. ConfigOK' /\ UNCHANGED config
  BY <1>1 DEF Changed, ConfigOK
<1>5. BoundsOK'
  BY <1>1, BoundsAssumption DEF Changed, BoundsOK
<1> QED BY <1>3, <1>4, <1>5

\* What each change does to the cluster, and the item that it adds.
LEMMA ChangeParts ==
    ASSUME ClusterOK, Change
    PROVE  \/ \E i \in Ingresses : \E def \in Defs[i] : SetIng(i, def)
           \/ \E i \in Ingresses : DeleteIng(i)
           \/ \E b \in Backends, def \in SvcDefs : SetSvc(b, def)
           \/ \E b \in Backends : DeleteSvc(b)
           \/ \E b \in Backends, new \in Rollouts : Rollout(b, new)
           \/ \E c \in Bcfgs, def \in BcfgDefs : SetBcfg(c, def)
           \/ \E c \in Bcfgs : DeleteBcfg(c)
  BY DEF Change

LEMMA ChangeTypes == ASSUME TypeOK, Change PROVE TypeOK'
<1>0. ClusterOK
  BY TypeParts
<1>1. ASSUME NEW item \in Items, NEW kind, Changed(kind, item), ClusterOK' PROVE TypeOK'
  BY <1>1, ChangedTypes, TypePartsNext
<1>2. ASSUME NEW item \in Items, NEW kind, Deleted(kind, item), ClusterOK' PROVE TypeOK'
  BY <1>1, <1>2, ItemTypes DEF Deleted
<1>3. ASSUME NEW i \in Ingresses, NEW def \in Defs[i], SetIng(i, def) PROVE TypeOK'
  <2>1. ClusterOK'
    BY <1>0, <1>3 DEF ClusterOK, SetIng
  <2> QED BY <1>1, <1>3, <2>1, ItemTypes DEF SetIng
<1>4. ASSUME NEW i \in Ingresses, DeleteIng(i) PROVE TypeOK'
  <2>1. ClusterOK'
    BY <1>0, <1>4 DEF ClusterOK, DeleteIng
  <2> QED BY <1>2, <1>4, <2>1, ItemTypes DEF DeleteIng
<1>5. ASSUME NEW b \in Backends, NEW def \in SvcDefs, SetSvc(b, def) PROVE TypeOK'
  <2>1. ClusterOK'
    BY <1>0, <1>5 DEF ClusterOK, SetSvc
  <2> QED BY <1>1, <1>5, <2>1, ItemTypes DEF SetSvc
<1>6. ASSUME NEW b \in Backends, DeleteSvc(b) PROVE TypeOK'
  <2>1. ClusterOK'
    BY <1>0, <1>6 DEF ClusterOK, DeleteSvc
  <2> QED BY <1>2, <1>6, <2>1, ItemTypes DEF DeleteSvc
<1>7. ASSUME NEW b \in Backends, NEW new \in Rollouts, Rollout(b, new) PROVE TypeOK'
  <2>1. ClusterOK'
    BY <1>0, <1>7 DEF ClusterOK, Rollout
  <2> QED BY <1>1, <1>7, <2>1, ItemTypes DEF Rollout
<1>8. ASSUME NEW c \in Bcfgs, NEW def \in BcfgDefs, SetBcfg(c, def) PROVE TypeOK'
  <2>1. ClusterOK'
    BY <1>0, <1>8 DEF ClusterOK, SetBcfg
  <2> QED BY <1>1, <1>8, <2>1, ItemTypes DEF SetBcfg
<1>9. ASSUME NEW c \in Bcfgs, DeleteBcfg(c) PROVE TypeOK'
  <2>1. ClusterOK'
    BY <1>0, <1>9 DEF ClusterOK, DeleteBcfg
  <2>2. bcfg[c] \in BcfgDefs
    BY <1>0, <1>9 DEF ClusterOK, DeleteBcfg
  <2> QED BY <1>2, <1>9, <2>1, <2>2, ItemTypes DEF DeleteBcfg
<1> QED BY <1>0, <1>3, <1>4, <1>5, <1>6, <1>7, <1>8, <1>9, ChangeParts

LEMMA WorkerTypes == ASSUME TypeOK, Worker PROVE TypeOK'
<1>0. ClusterOK /\ WorkOK /\ ConfigOK /\ BoundsOK
  BY TypeParts
<1>1. ASSUME NEW kind, Handles(kind) PROVE ClusterOK' /\ UNCHANGED changes /\ queue # <<>>
  BY <1>0, <1>1 DEF Handles, Takes, cluster, ClusterOK
<1>2. ASSUME NEW kind, Handles(kind), NEW items \in Seq(Items), ReturnsNil(items) PROVE TypeOK'
  <2>1. WorkOK'
    BY <1>0, <1>1, <1>2, SyncedWaits DEF WorkOK, ReturnsNil
  <2>2. ConfigOK' /\ BoundsOK'
    BY <1>0, <1>1, <1>2 DEF ReturnsNil, ConfigOK, BoundsOK
  <2> QED BY <1>1, <1>2, <2>1, <2>2, TypePartsNext
<1>3. ASSUME NEW kind, Handles(kind), ReturnsError PROVE TypeOK'
  <2>1. <<>> \in Seq(Items)
    OBVIOUS
  <2>2. WorkOK'
    BY <1>0, <1>1, <1>3, <2>1, FailedWaits DEF WorkOK, ReturnsError
  <2>3. ConfigOK' /\ BoundsOK'
    BY <1>0, <1>1, <1>3 DEF ReturnsError, ConfigOK, BoundsOK
  <2> QED BY <1>1, <1>3, <2>2, <2>3, TypePartsNext
<1>4. ASSUME NEW kind, Handles(kind), NEW U, AddOrUpdateIngs(U) PROVE TypeOK'
  <2>1. ConfigOK' /\ (Synced(<<>>) \/ Failed(<<>>)) /\ (Fault \/ NoFault)
    BY <1>0, <1>4, UpdateTypes
  <2>2. <<>> \in Seq(Items)
    OBVIOUS
  <2>3. WorkOK'
    BY <1>0, <1>1, <1>4, <2>1, <2>2, SyncedWaits, FailedWaits DEF WorkOK
  <2>4. BoundsOK'
    BY <1>0, <1>1, <1>4, <2>1, BoundsAssumption DEF BoundsOK, Fault, NoFault
  <2> QED BY <1>1, <1>4, <2>1, <2>3, <2>4, TypePartsNext
<1>5. <<>> \in Seq(Items)
  OBVIOUS
<1>6. ASSUME NEW kind, Handles(kind), NEW b, EnqueueIngressForService(b) PROVE TypeOK'
  BY <1>2, <1>6, IngressItems
<1>7. ASSUME NEW kind, Handles(kind), NEW S \in SUBSET Backends, EnqueueIngsForBackendSvcs(S)
      PROVE  TypeOK'
  BY <1>2, <1>7, BackendItems
<1>8. CASE SyncIng
  BY <1>2, <1>3, <1>4, <1>5, <1>8 DEF SyncIng
<1>9. CASE SyncIngDeleted
  BY <1>4, <1>9 DEF SyncIngDeleted
<1>10. CASE SyncSvc
  BY <1>3, <1>6, <1>10 DEF SyncSvc
<1>11. CASE SyncSvcDeleted
  BY <1>6, <1>11 DEF SyncSvcDeleted
<1>12. CASE SyncEndp
  BY <1>2, <1>4, <1>5, <1>12 DEF SyncEndp
<1>13. CASE SyncBcfg
  <2>1. Handles("bcfg")
    BY <1>13 DEF SyncBcfg
  <2>2. PICK c \in Bcfgs : c = Head(queue).key
    BY <1>0, <2>1, HandledItem
  <2>3. CASE bcfg[c] # Absent /\ EnqueueIngsForBackendSvcs(bcfg[c].services)
    <3>1. PICK S \in SUBSET Backends : S = bcfg[c].services
      BY <1>0, <2>3, BcfgsAssumption DEF ClusterOK
    <3> QED BY <1>7, <2>1, <2>3, <3>1
  <2> QED BY <1>2, <1>3, <1>5, <1>13, <2>1, <2>2, <2>3 DEF SyncBcfg
<1>14. CASE SyncBcfgDeleted
  <2>1. Handles("bcfgDeleted")
    BY <1>14 DEF SyncBcfgDeleted
  <2>2. PICK S \in SUBSET Backends : S = Head(queue).key
    BY <1>0, <2>1, HandledItem, BcfgsAssumption
  <2> QED BY <1>7, <1>14, <2>1, <2>2 DEF SyncBcfgDeleted
<1>15. CASE DropTombstone
  BY <1>2, <1>5, <1>15 DEF DropTombstone
<1> QED BY <1>8, <1>9, <1>10, <1>11, <1>12, <1>13, <1>14, <1>15 DEF Worker

LEMMA TypeStep == TypeOK /\ [Next]_vars => TypeOK'
<1> SUFFICES ASSUME TypeOK, [Next]_vars PROVE TypeOK'
  OBVIOUS
<1>0. ClusterOK /\ WorkOK /\ ConfigOK /\ BoundsOK
  BY TypeParts
<1>1. ASSUME NEW n \in DOMAIN retries, Retries(n) PROVE TypeOK'
  <2>1. WorkOK'
    BY <1>0, <1>1, RetryWaits DEF WorkOK, Retries
  <2>2. ClusterOK' /\ ConfigOK' /\ BoundsOK'
    BY <1>0, <1>1 DEF Retries, cluster, ClusterOK, ConfigOK, BoundsOK
  <2> QED BY <2>1, <2>2, TypePartsNext
<1>2. CASE UNCHANGED vars
  BY <1>2 DEF vars, TypeOK
<1> QED BY <1>1, <1>2, ChangeTypes, WorkerTypes DEF Next

\* Every variable keeps its type, for any Ingresses, Services and BackendConfigs.
THEOREM BackendTypeCorrect == Spec => []TypeOK
<1> QED BY TypeInit, TypeStep, PTL DEF Spec

-----------------------------------------------------------------------------
(* No change is missed, under three assumptions: a port of a Service's     *)
(* Pods is in one subset of its Endpoints, the Ingresses that use a Service *)
(* with a BackendConfig are of one Varnish Service, and a BackendConfig     *)
(* keeps its Services while no deletion but a Service's is missed.          *)

OneSubset ==
    \A r \in Rollouts, port \in Ports : \A m, n \in DOMAIN r.subsets :
        port \in r.subsets[m].ports \cap r.subsets[n].ports => m = n

MayName(i, b) == \E d \in Defs[i] : \E p \in DOMAIN d : d[p] = b
OneVarnish ==
    \A def \in BcfgDefs : \A b \in def.services, i, j \in Ingresses :
        i \notin Foreign /\ MayName(i, b) /\ MayName(j, b)
            => j \notin Foreign /\ VarnishOf[j] = VarnishOf[i]

Reported == "rename" \notin Changes /\ Missed \subseteq {"svc"}
Undivided == OneSubset /\ OneVarnish /\ Reported

\* conf is what UpToDate asks v's configuration to be.
Right(conf, v) ==
    IF IngsOf(v) = {} THEN conf = NotReady
    ELSE /\ conf # NotReady /\ DOMAIN conf = IngsOf(v)
         /\ \A i \in IngsOf(v) :
                /\ DOMAIN conf[i] = DOMAIN ing[i]
                /\ \A p \in DOMAIN ing[i] :
                       LET b == ing[i][p] IN
                           conf[i][p] \in [name : {b}, port : {TargetPort(b)},
                                           ips : {AllAddresses(b)}, bcfg : BcfgsNow(b)]

LEMMA RightMeans == \A v : UpToDate(v) <=> Right(config[v], v)
  BY Zenon DEF UpToDate, Right

LEMMA AddressesAll ==
    ASSUME OneSubset, ClusterOK, NEW b \in Backends, Resolves(b)
    PROVE  Addresses(b) = AllAddresses(b)
<1>0. PICK r \in Rollouts : r = pods[b]
  BY DEF ClusterOK
<1>1. PICK port \in Ports : port = TargetPort(b)
  BY ServingType
<1>2. PICK n \in Serving(b) : Addresses(b) = r.subsets[n].ips
  BY <1>0, ServingType
<1>3. n \in DOMAIN r.subsets /\ port \in r.subsets[n].ports
  BY <1>0, <1>1, <1>2 DEF Serving
<1>4. \A m \in DOMAIN r.subsets : port \in r.subsets[m].ports => m = n
  BY <1>3 DEF OneSubset
<1>5. {sub \in ToSet(r.subsets) : port \in sub.ports} = {r.subsets[n]}
  BY <1>3, <1>4 DEF ToSet
<1>6. AllAddresses(b) = UNION {sub.ips : sub \in {r.subsets[n]}}
  BY <1>0, <1>1, <1>5 DEF AllAddresses
<1> QED BY <1>2, <1>6

LEMMA MergedIsRight ==
    ASSUME OneSubset, ClusterOK, NEW v, CanMerge(v), NEW f \in BcfgChoices
    PROVE  Right(Merged(v, f), v)
<1>1. CASE IngsOf(v) = {}
  BY <1>1 DEF Merged, Right
<1>2. CASE IngsOf(v) # {}
  <2>1. Merged(v, f) # NotReady
    BY <1>2, MergedType, NotReadyAssumption
  <2>2. Merged(v, f) = [i \in IngsOf(v) |-> [p \in DOMAIN ing[i] |->
                            VclSvc(ing[i][p], Addresses(ing[i][p]), f)]]
    BY <1>2 DEF Merged
  <2>3. ASSUME NEW i \in IngsOf(v), NEW p \in DOMAIN ing[i]
        PROVE  VclSvc(ing[i][p], Addresses(ing[i][p]), f)
                   \in [name : {ing[i][p]}, port : {TargetPort(ing[i][p])},
                        ips : {AllAddresses(ing[i][p])}, bcfg : BcfgsNow(ing[i][p])]
    <3>1. i \in Ingresses /\ ing[i] # Absent
      BY <2>3 DEF IngsOf
    <3>2. p \in Places
      BY <3>1, IngType
    <3>3. PICK b \in Backends : b = ing[i][p]
      BY <3>1, IngType
    <3>4. b \in UsedBy(v)
      BY <3>1, <3>2, <3>3 DEF UsedBy, NamesAt
    <3>5. Addresses(b) = AllAddresses(b)
      BY <3>4, AddressesAll DEF CanMerge
    <3>6. f[b] \in BcfgsNow(b)
      BY DEF BcfgChoices
    <3>7. VclSvc(b, Addresses(b), f)
             \in [name : {b}, port : {TargetPort(b)}, ips : {AllAddresses(b)}, bcfg : BcfgsNow(b)]
      BY <3>5, <3>6 DEF VclSvc
    <3> QED BY <3>3, <3>7
  <2>4. PICK c : c = Merged(v, f)
    OBVIOUS
  <2>5. /\ DOMAIN c = IngsOf(v)
        /\ \A i \in IngsOf(v) : /\ DOMAIN c[i] = DOMAIN ing[i]
                                /\ \A p \in DOMAIN ing[i] :
                                    c[i][p] = VclSvc(ing[i][p], Addresses(ing[i][p]), f)
    BY <2>2, <2>4
  <2> QED BY <1>2, <2>1, <2>3, <2>4, <2>5 DEF Right
<1> QED BY <1>1, <1>2

\* A step that leaves alone whatever v's configuration is made from.
Untouched(v) ==
    /\ IngsOf(v)' = IngsOf(v) /\ \A i \in IngsOf(v) : ing'[i] = ing[i]
    /\ \A b \in UsedBy(v) : /\ svc'[b] = svc[b] /\ pods'[b] = pods[b]
                            /\ BcfgsFor(b)' = BcfgsFor(b)
                            /\ \A c \in BcfgsFor(b) : bcfg'[c] = bcfg[c]

LEMMA UntouchedUses == ASSUME NEW v, Untouched(v) PROVE UsedBy(v)' = UsedBy(v)
<1>1. \A i \in IngsOf(v) : \A p, b : NamesAt(i, p, b)' <=> NamesAt(i, p, b)
  BY DEF Untouched, NamesAt
<1> QED BY <1>1 DEF Untouched, UsedBy

LEMMA UntouchedBackend ==
    ASSUME NEW v, Untouched(v), NEW b \in UsedBy(v)
    PROVE  /\ Resolves(b)' <=> Resolves(b)
           /\ TargetPort(b)' = TargetPort(b) /\ AllAddresses(b)' = AllAddresses(b)
           /\ BcfgsNow(b)' = BcfgsNow(b)
<1>1. svc'[b] = svc[b] /\ pods'[b] = pods[b]
  BY DEF Untouched
<1>2. TargetPort(b)' = TargetPort(b)
  BY <1>1 DEF TargetPort
<1>3. Serving(b)' = Serving(b)
  BY <1>1, <1>2 DEF Serving
<1>4. Resolves(b)' <=> Resolves(b)
  BY <1>1, <1>2, <1>3 DEF Resolves
<1>5. AllAddresses(b)' = AllAddresses(b)
  BY <1>1, <1>2 DEF AllAddresses
<1>6. BcfgsFor(b)' = BcfgsFor(b) /\ \A c \in BcfgsFor(b) : bcfg'[c] = bcfg[c]
  BY DEF Untouched
<1>7. BcfgsNow(b)' = BcfgsNow(b)
  BY <1>6 DEF BcfgsNow
<1> QED BY <1>2, <1>4, <1>5, <1>7

LEMMA UntouchedKeeps ==
    ASSUME ClusterOK, NEW v, Untouched(v)
    PROVE  /\ Feasible(v)' <=> Feasible(v)
           /\ UpToDate(v)' <=> Right(config'[v], v)
           /\ \A x : Brings(x, v) => Brings(x, v)'
<1>1. UsedBy(v)' = UsedBy(v)
  BY UntouchedUses
<1>2. Feasible(v)' <=> Feasible(v)
  <2>1. \A b \in UsedBy(v) : Resolves(b)' <=> Resolves(b)
    BY UntouchedBackend
  <2>2. \A b \in UsedBy(v) : (\A c \in BcfgsFor(b)' : bcfg'[c].valid)
                                 <=> (\A c \in BcfgsFor(b) : bcfg[c].valid)
    BY DEF Untouched
  <2> QED BY <1>1, <2>1, <2>2 DEF Feasible
<1>3. UpToDate(v)' <=> Right(config'[v], v)
  <2>1. IngsOf(v)' = IngsOf(v) /\ \A i \in IngsOf(v) : ing'[i] = ing[i]
    BY DEF Untouched
  <2>2. ASSUME NEW i \in IngsOf(v), NEW p \in DOMAIN ing[i], NEW b, b = ing[i][p]
        PROVE  /\ TargetPort(b)' = TargetPort(b) /\ AllAddresses(b)' = AllAddresses(b)
               /\ BcfgsNow(b)' = BcfgsNow(b)
    <3>1. b \in UsedBy(v)
      <4>1. i \in Ingresses /\ ing[i] # Absent
        BY DEF IngsOf
      <4>2. p \in Places /\ b \in Backends
        BY <2>2, <4>1, IngType
      <4> QED BY <2>2, <4>1, <4>2 DEF UsedBy, NamesAt
    <3> QED BY <3>1, UntouchedBackend
  <2> QED BY <2>1, <2>2 DEF UpToDate, Right
<1>4. ASSUME NEW x, Brings(x, v) PROVE Brings(x, v)'
  BY <1>1, <1>4 DEF Brings, Untouched
<1> QED BY <1>2, <1>3, <1>4

LEMMA SameClusterUntouched ==
    ASSUME UNCHANGED cluster, NEW v
    PROVE  Untouched(v)
  BY DEF Untouched, cluster, IngsOf, BcfgsFor

\* The items of each kind that bring v an update.
LEMMA BringsOf ==
    ASSUME NEW v
    PROVE  /\ \A i : Brings(Ing(i), v) => i \in IngsOf(v)
           /\ \A i : Brings(IngDeleted(i), v) => VarnishOf[i] = v
           /\ \A b : Brings(Svc(b), v) \/ Brings(Endp(b), v) => b \in UsedBy(v) /\ svc[b] # Absent
           /\ \A b : Brings(SvcDeleted(b), v) => b \in UsedBy(v)
           /\ \A c : Brings(Bcfg(c), v) => \E b \in UsedBy(v) : c \in BcfgsFor(b)
           /\ \A S : Brings(BcfgDeleted(S), v) => S \cap UsedBy(v) # {}
           /\ ~Brings(Tombstone, v)
  BY DEF Brings, Ing, IngDeleted, Svc, Endp, SvcDeleted, Bcfg, BcfgDeleted, Tombstone

\* A change adds an item that brings v an update, or it does not concern v.
LEMMA ChangedKeeps ==
    ASSUME TypeOK, NothingMissed, NEW kind, NEW item \in Items, Changed(kind, item),
           \A v \in VarnishSvcs : Feasible(v)' => Untouched(v) \/ Brings(item, v)'
    PROVE  NothingMissed'
<1>0. ClusterOK
  BY TypeParts
<1>1. UNCHANGED config /\ Waiting' = Waiting \cup {item}
  BY ChangedTypes
<1>2. ASSUME NEW v \in VarnishSvcs, Feasible(v)', Untouched(v)
      PROVE  UpToDate(v)' \/ \E x \in Waiting' : Brings(x, v)'
  <2>1. Feasible(v) /\ (Right(config[v], v) => UpToDate(v)')
    BY <1>0, <1>1, <1>2, UntouchedKeeps
  <2>2. CASE UpToDate(v)
    BY <2>1, <2>2, RightMeans
  <2>3. CASE \E x \in Waiting : Brings(x, v)
    BY <1>0, <1>1, <1>2, <2>3, UntouchedKeeps
  <2> QED BY <2>1, <2>2, <2>3 DEF NothingMissed
<1>3. ASSUME NEW v \in VarnishSvcs, Feasible(v)'
      PROVE  UpToDate(v)' \/ \E x \in Waiting' : Brings(x, v)'
  BY <1>1, <1>2, <1>3
<1> QED BY <1>3 DEF NothingMissed

LEMMA DeletedReports ==
    ASSUME Reported, NEW kind, kind # "svc", NEW item, Deleted(kind, item)
    PROVE  Changed(kind, item)
  BY DEF Reported, Deleted

LEMMA KeepsSetIng ==
    ASSUME TypeOK, NothingMissed, NEW i \in Ingresses, NEW def \in Defs[i], SetIng(i, def)
    PROVE  NothingMissed'
<1>0. ClusterOK
  BY TypeParts
<1>1. /\ ing' = [ing EXCEPT ![i] = def] /\ UNCHANGED <<svc, pods, bcfg>>
      /\ Changed("ing", Ing(i)) /\ Ing(i) \in Items
  BY ItemTypes DEF SetIng
<1>2. def # Absent /\ ing'[i] = def
  BY <1>0, <1>1, AbsentAssumption DEF ClusterOK
<1>3. ASSUME NEW v \in VarnishSvcs, i \notin Foreign, VarnishOf[i] = v PROVE Brings(Ing(i), v)'
  <2>1. i \in IngsOf(v)'
    BY <1>2, <1>3 DEF IngsOf
  <2> QED BY <2>1 DEF Brings
<1>4. ASSUME NEW v \in VarnishSvcs, ~(i \notin Foreign /\ VarnishOf[i] = v) PROVE Untouched(v)
  <2>1. IngsOf(v)' = IngsOf(v) /\ i \notin IngsOf(v)
    BY <1>0, <1>1, <1>4 DEF IngsOf, ClusterOK
  <2> QED BY <1>0, <1>1, <2>1 DEF Untouched, ClusterOK, IngsOf, BcfgsFor
<1> QED BY <1>1, <1>3, <1>4, ChangedKeeps

LEMMA KeepsDeleteIng ==
    ASSUME TypeOK, NothingMissed, Reported, NEW i \in Ingresses, DeleteIng(i)
    PROVE  NothingMissed'
<1>0. ClusterOK
  BY TypeParts
<1>1. /\ ing' = [ing EXCEPT ![i] = Absent] /\ UNCHANGED <<svc, pods, bcfg>>
      /\ Changed("ing", IngDeleted(i)) /\ IngDeleted(i) \in Items
  BY ItemTypes, DeletedReports DEF DeleteIng
<1>2. ASSUME NEW v \in VarnishSvcs, VarnishOf[i] = v PROVE Brings(IngDeleted(i), v)'
  BY <1>2 DEF Brings
<1>3. ASSUME NEW v \in VarnishSvcs, VarnishOf[i] # v PROVE Untouched(v)
  <2>1. IngsOf(v)' = IngsOf(v) /\ i \notin IngsOf(v)
    BY <1>0, <1>1, <1>3 DEF IngsOf, ClusterOK
  <2> QED BY <1>0, <1>1, <2>1 DEF Untouched, ClusterOK, IngsOf, BcfgsFor
<1> QED BY <1>1, <1>2, <1>3, ChangedKeeps

\* A change of the Service or the Pods behind b.
LEMMA OtherBackends ==
    ASSUME ClusterOK, NEW b \in Backends, NEW v, b \notin UsedBy(v), UNCHANGED <<ing, bcfg>>,
           \A d \in Backends \ {b} : svc'[d] = svc[d] /\ pods'[d] = pods[d]
    PROVE  Untouched(v)
  BY DEF Untouched, IngsOf, BcfgsFor, UsedBy

LEMMA SameUses == ASSUME UNCHANGED ing, NEW v PROVE UsedBy(v)' = UsedBy(v)
  BY DEF UsedBy, IngsOf, NamesAt

LEMMA KeepsSetSvc ==
    ASSUME TypeOK, NothingMissed, NEW b \in Backends, NEW def \in SvcDefs, SetSvc(b, def)
    PROVE  NothingMissed'
<1>0. ClusterOK
  BY TypeParts
<1>1. /\ svc' = [svc EXCEPT ![b] = def] /\ UNCHANGED <<ing, pods, bcfg>>
      /\ Changed("svc", Svc(b)) /\ Svc(b) \in Items
  BY ItemTypes DEF SetSvc
<1>2. svc'[b] = def /\ def # Absent
  BY <1>0, <1>1, PortsAssumption DEF ClusterOK, SvcDefs
<1>3. ASSUME NEW v \in VarnishSvcs, b \in UsedBy(v) PROVE Brings(Svc(b), v)'
  <2>1. b \in UsedBy(v)'
    BY <1>1, <1>3, SameUses
  <2> QED BY <1>2, <2>1 DEF Brings
<1>4. ASSUME NEW v \in VarnishSvcs, b \notin UsedBy(v) PROVE Untouched(v)
  <2>1. \A d \in Backends \ {b} : svc'[d] = svc[d] /\ pods'[d] = pods[d]
    BY <1>0, <1>1 DEF ClusterOK
  <2> QED BY <1>0, <1>1, <1>4, <2>1, OtherBackends
<1> QED BY <1>1, <1>3, <1>4, ChangedKeeps

LEMMA KeepsDeleteSvc ==
    ASSUME TypeOK, NothingMissed, NEW b \in Backends, DeleteSvc(b)
    PROVE  NothingMissed'
<1>0. ClusterOK
  BY TypeParts
<1>1. svc' = [svc EXCEPT ![b] = Absent] /\ UNCHANGED <<ing, pods, bcfg>>
  BY DEF DeleteSvc
<1>2. PICK item \in Items : Changed("svc", item)
  BY ItemTypes DEF DeleteSvc, Deleted
<1>3. svc'[b] = Absent
  BY <1>0, <1>1 DEF ClusterOK
<1>4. ASSUME NEW v \in VarnishSvcs, b \in UsedBy(v) PROVE ~Feasible(v)'
  <2>1. b \in UsedBy(v)'
    BY <1>1, <1>4, SameUses
  <2> QED BY <1>3, <2>1 DEF Feasible, Resolves
<1>5. ASSUME NEW v \in VarnishSvcs, b \notin UsedBy(v) PROVE Untouched(v)
  <2>1. \A d \in Backends \ {b} : svc'[d] = svc[d] /\ pods'[d] = pods[d]
    BY <1>0, <1>1 DEF ClusterOK
  <2> QED BY <1>0, <1>1, <1>5, <2>1, OtherBackends
<1> QED BY <1>2, <1>4, <1>5, ChangedKeeps

LEMMA KeepsRollout ==
    ASSUME TypeOK, NothingMissed, NEW b \in Backends, NEW new \in Rollouts, Rollout(b, new)
    PROVE  NothingMissed'
<1>0. ClusterOK
  BY TypeParts
<1>1. /\ pods' = [pods EXCEPT ![b] = new] /\ UNCHANGED <<ing, svc, bcfg>>
      /\ Changed("pods", Endp(b)) /\ Endp(b) \in Items
  BY ItemTypes DEF Rollout
<1>2. ASSUME NEW v \in VarnishSvcs, b \in UsedBy(v), Feasible(v)' PROVE Brings(Endp(b), v)'
  <2>1. b \in UsedBy(v)'
    BY <1>1, <1>2, SameUses
  <2>2. svc'[b] # Absent
    BY <1>2, <2>1 DEF Feasible, Resolves
  <2> QED BY <2>1, <2>2 DEF Brings
<1>3. ASSUME NEW v \in VarnishSvcs, b \notin UsedBy(v) PROVE Untouched(v)
  <2>1. \A d \in Backends \ {b} : svc'[d] = svc[d] /\ pods'[d] = pods[d]
    BY <1>0, <1>1 DEF ClusterOK
  <2> QED BY <1>0, <1>1, <1>3, <2>1, OtherBackends
<1> QED BY <1>1, <1>2, <1>3, ChangedKeeps

\* A change of a BackendConfig that is for none of v's backends.
LEMMA OtherBcfgs ==
    ASSUME ClusterOK, NEW c \in Bcfgs, NEW v, UNCHANGED <<ing, svc, pods>>,
           \A d \in Bcfgs \ {c} : bcfg'[d] = bcfg[d],
           \A b \in UsedBy(v) : c \notin BcfgsFor(b) /\ c \notin BcfgsFor(b)'
    PROVE  Untouched(v)
<1>1. \A b \in UsedBy(v) : /\ BcfgsFor(b)' = BcfgsFor(b)
                           /\ \A d \in BcfgsFor(b) : bcfg'[d] = bcfg[d]
  BY DEF BcfgsFor
<1> QED BY <1>1 DEF Untouched, IngsOf

LEMMA KeepsSetBcfg ==
    ASSUME TypeOK, NothingMissed, Reported, NEW c \in Bcfgs, NEW def \in BcfgDefs, SetBcfg(c, def)
    PROVE  NothingMissed'
<1>0. ClusterOK
  BY TypeParts
<1>1. /\ bcfg' = [bcfg EXCEPT ![c] = def] /\ UNCHANGED <<ing, svc, pods>>
      /\ Changed("bcfg", Bcfg(c)) /\ Bcfg(c) \in Items
      /\ bcfg[c] # Absent => bcfg[c].services = def.services
  BY ItemTypes DEF SetBcfg, Reported
<1>2. bcfg'[c] = def /\ def # Absent /\ \A d \in Bcfgs \ {c} : bcfg'[d] = bcfg[d]
  BY <1>0, <1>1, AbsentAssumption DEF ClusterOK
<1>3. ASSUME NEW v \in VarnishSvcs, NEW b \in UsedBy(v) \cap def.services, Feasible(v)'
      PROVE  Brings(Bcfg(c), v)'
  <2>1. b \in UsedBy(v)'
    BY <1>1, SameUses
  <2>2. c \in BcfgsFor(b)'
    BY <1>2 DEF BcfgsFor
  <2>3. bcfg'[c].valid
    BY <1>3, <2>1, <2>2 DEF Feasible
  <2> QED BY <2>1, <2>2, <2>3 DEF Brings
<1>4. ASSUME NEW v \in VarnishSvcs, UsedBy(v) \cap def.services = {} PROVE Untouched(v)
  <2>1. \A b \in UsedBy(v) : c \notin BcfgsFor(b) /\ c \notin BcfgsFor(b)'
    BY <1>1, <1>2, <1>4 DEF BcfgsFor
  <2> QED BY <1>0, <1>1, <1>2, <2>1, OtherBcfgs
<1> QED BY <1>1, <1>3, <1>4, ChangedKeeps

LEMMA KeepsDeleteBcfg ==
    ASSUME TypeOK, NothingMissed, Reported, NEW c \in Bcfgs, DeleteBcfg(c)
    PROVE  NothingMissed'
<1>0. ClusterOK
  BY TypeParts
<1>1. PICK def \in BcfgDefs : bcfg[c] = def
  BY <1>0 DEF ClusterOK, DeleteBcfg
<1>2. /\ bcfg' = [bcfg EXCEPT ![c] = Absent] /\ UNCHANGED <<ing, svc, pods>>
      /\ Changed("bcfg", BcfgDeleted(def.services)) /\ BcfgDeleted(def.services) \in Items
  BY <1>1, ItemTypes, DeletedReports DEF DeleteBcfg
<1>3. bcfg'[c] = Absent /\ \A d \in Bcfgs \ {c} : bcfg'[d] = bcfg[d]
  BY <1>0, <1>2 DEF ClusterOK
<1>4. ASSUME NEW v \in VarnishSvcs, UsedBy(v) \cap def.services # {}
      PROVE  Brings(BcfgDeleted(def.services), v)'
  <2>1. def.services \cap UsedBy(v)' # {}
    BY <1>2, <1>4, SameUses
  <2>2. def.services \in SUBSET Backends
    BY BcfgsAssumption
  <2> QED BY <2>1, <2>2 DEF Brings
<1>5. ASSUME NEW v \in VarnishSvcs, UsedBy(v) \cap def.services = {} PROVE Untouched(v)
  <2>1. \A b \in UsedBy(v) : c \notin BcfgsFor(b) /\ c \notin BcfgsFor(b)'
    BY <1>1, <1>3, <1>5 DEF BcfgsFor
  <2> QED BY <1>0, <1>2, <1>3, <2>1, OtherBcfgs
<1> QED BY <1>2, <1>4, <1>5, ChangedKeeps

LEMMA KeepsChange == ASSUME TypeOK, NothingMissed, Reported, Change PROVE NothingMissed'
<1>1. ClusterOK
  BY TypeParts
<1> QED BY <1>1, ChangeParts, KeepsSetIng, KeepsDeleteIng, KeepsSetSvc, KeepsDeleteSvc,
           KeepsRollout, KeepsSetBcfg, KeepsDeleteBcfg

-----------------------------------------------------------------------------
(* What handlers keep.  The item that was handled no longer waits, unless  *)
(* it failed: it has brought the update, or items that will.               *)

LEMMA UpdateKeeps ==
    ASSUME OneSubset, TypeOK, NothingMissed, NEW kind, Handles(kind), NEW U, AddOrUpdateIngs(U),
           \A v \in VarnishSvcs : Brings(Head(queue), v) => v \in U
    PROVE  NothingMissed'
<1>0. ClusterOK /\ WorkOK /\ UNCHANGED cluster /\ queue # <<>> /\ <<>> \in Seq(Items)
  BY TypeParts DEF Handles, Takes
<1>1. PICK D : /\ UpdateConfigs(D) /\ \A v \in D : CanMerge(v)
               /\ (Synced(<<>>) /\ D = U) \/ Failed(<<>>)
  BY DEF AddOrUpdateIngs
<1>2. PICK f \in BcfgChoices :
        config' = [v \in VarnishSvcs |-> IF v \in D THEN Merged(v, f) ELSE config[v]]
  BY <1>1 DEF UpdateConfigs
<1>3. /\ Waiting \subseteq Waiting' \cup {Head(queue)}
      /\ D = U \/ Waiting \subseteq Waiting'
  BY <1>0, <1>1, SyncedWaits, FailedWaits DEF WorkOK
<1>4. ASSUME NEW v \in VarnishSvcs, Feasible(v)'
      PROVE  UpToDate(v)' \/ \E x \in Waiting' : Brings(x, v)'
  <2>1. /\ Feasible(v) /\ (UpToDate(v)' <=> Right(config'[v], v))
        /\ \A x : Brings(x, v) => Brings(x, v)'
    BY <1>0, <1>4, SameClusterUntouched, UntouchedKeeps
  <2>2. CASE v \in D
    BY <1>0, <1>1, <1>2, <2>1, <2>2, MergedIsRight
  <2>3. CASE v \notin D /\ UpToDate(v)
    BY <1>2, <2>1, <2>3, RightMeans
  <2>4. CASE v \notin D /\ \E x \in Waiting : Brings(x, v)
    BY <1>3, <2>1, <2>4
  <2> QED BY <2>1, <2>2, <2>3, <2>4 DEF NothingMissed
<1> QED BY <1>4 DEF NothingMissed

LEMMA NilKeeps ==
    ASSUME TypeOK, NothingMissed, NEW kind, Handles(kind), NEW items \in Seq(Items),
           ReturnsNil(items),
           \A v \in VarnishSvcs : Brings(Head(queue), v) => \E y \in ToSet(items) : Brings(y, v)
    PROVE  NothingMissed'
<1>0. /\ ClusterOK /\ WorkOK /\ UNCHANGED cluster /\ queue # <<>>
      /\ Synced(items) /\ UNCHANGED config
  BY TypeParts DEF Handles, Takes, ReturnsNil
<1>1. Waiting \subseteq Waiting' \cup {Head(queue)} /\ ToSet(items) \subseteq Waiting'
  BY <1>0, SyncedWaits DEF WorkOK
<1>2. ASSUME NEW v \in VarnishSvcs, Feasible(v)'
      PROVE  UpToDate(v)' \/ \E x \in Waiting' : Brings(x, v)'
  <2>1. /\ Feasible(v) /\ (UpToDate(v)' <=> Right(config[v], v))
        /\ \A x : Brings(x, v) => Brings(x, v)'
    BY <1>0, <1>2, SameClusterUntouched, UntouchedKeeps
  <2>2. CASE UpToDate(v)
    BY <2>1, <2>2, RightMeans
  <2>3. CASE \E x \in Waiting : Brings(x, v)
    <3>1. PICK x \in Waiting : Brings(x, v)
      BY <2>3
    <3>2. \E y \in Waiting' : Brings(y, v)
      BY <1>1, <3>1
    <3> QED BY <2>1, <3>2
  <2> QED BY <2>1, <2>2, <2>3 DEF NothingMissed
<1> QED BY <1>2 DEF NothingMissed

\* Nothing gets lost, and nothing is updated: the item failed, or was put back.
LEMMA WaitingKeeps ==
    ASSUME TypeOK, NothingMissed, UNCHANGED cluster, UNCHANGED config, Waiting \subseteq Waiting'
    PROVE  NothingMissed'
<1>0. ClusterOK
  BY TypeParts
<1>1. ASSUME NEW v \in VarnishSvcs, Feasible(v)'
      PROVE  UpToDate(v)' \/ \E x \in Waiting' : Brings(x, v)'
  <2>1. /\ Feasible(v) /\ (UpToDate(v)' <=> Right(config[v], v))
        /\ \A x : Brings(x, v) => Brings(x, v)'
    BY <1>0, <1>1, SameClusterUntouched, UntouchedKeeps
  <2> QED BY <2>1, RightMeans DEF NothingMissed
<1> QED BY <1>1 DEF NothingMissed

LEMMA ErrorKeeps ==
    ASSUME TypeOK, NothingMissed, NEW kind, Handles(kind), ReturnsError
    PROVE  NothingMissed'
<1>1. /\ WorkOK /\ UNCHANGED cluster /\ queue # <<>> /\ <<>> \in Seq(Items)
      /\ Failed(<<>>) /\ UNCHANGED config
  BY TypeParts DEF Handles, Takes, ReturnsError
<1>2. Waiting \subseteq Waiting'
  BY <1>1, FailedWaits DEF WorkOK
<1> QED BY <1>1, <1>2, WaitingKeeps

\* The Ingresses of v that name one of its backends are enqueued.
LEMMA EnqueueKeeps ==
    ASSUME TypeOK, NothingMissed, NEW kind, Handles(kind), NEW b, EnqueueIngressForService(b),
           \A v \in VarnishSvcs : Brings(Head(queue), v) => b \in UsedBy(v)
    PROVE  NothingMissed'
<1>1. PICK items \in Seq(Items) : /\ ReturnsNil(items)
                                  /\ \A m \in Mentions(b) : Ing(m[1]) \in ToSet(items)
  BY IngressItems
<1>2. ASSUME NEW v \in VarnishSvcs, b \in UsedBy(v)
      PROVE  \E y \in ToSet(items) : Brings(y, v)
  <2>1. PICK i \in IngsOf(v), p \in Places : NamesAt(i, p, b)
    BY <1>2 DEF UsedBy
  <2>2. <<i, p>> \in Mentions(b)
    BY <2>1 DEF Mentions, IngsOf
  <2>3. Ing(i) \in ToSet(items)
    BY <1>1, <2>2
  <2>4. Brings(Ing(i), v)
    BY <2>1 DEF Brings
  <2> QED BY <2>3, <2>4
<1> QED BY <1>1, <1>2, NilKeeps

LEMMA NamedMayName ==
    ASSUME ClusterOK, NEW i \in Ingresses, NEW p, NEW b, NamesAt(i, p, b)
    PROVE  MayName(i, b)
  BY DEF NamesAt, MayName, ClusterOK

\* For each backend one Ingress that names it is enqueued: all that do are of
\* one Varnish Service.
LEMMA EnqueueForBackendsKeeps ==
    ASSUME OneVarnish, TypeOK, NothingMissed, NEW kind, Handles(kind), NEW def \in BcfgDefs,
           EnqueueIngsForBackendSvcs(def.services),
           \A v \in VarnishSvcs : Brings(Head(queue), v) => def.services \cap UsedBy(v) # {}
    PROVE  NothingMissed'
<1>0. ClusterOK
  BY TypeParts
<1>1. PICK S \in SUBSET Backends : S = def.services
  BY BcfgsAssumption
<1>2. PICK items \in Seq(Items) :
        /\ ReturnsNil(items)
        /\ \A b \in S : (\E i \in Ingresses, p \in Places : NamesAt(i, p, b)) =>
               \E i \in Ingresses, p \in Places : NamesAt(i, p, b) /\ Ing(i) \in ToSet(items)
  BY <1>1, BackendItems
<1>3. ASSUME NEW v \in VarnishSvcs, NEW b \in S \cap UsedBy(v)
      PROVE  \E y \in ToSet(items) : Brings(y, v)
  <2>1. PICK j \in IngsOf(v), q \in Places : NamesAt(j, q, b)
    BY <1>3 DEF UsedBy
  <2>2. j \in Ingresses /\ j \notin Foreign /\ VarnishOf[j] = v
    BY DEF IngsOf
  <2>3. PICK i \in Ingresses, p \in Places : NamesAt(i, p, b) /\ Ing(i) \in ToSet(items)
    BY <1>2, <1>3, <2>1, <2>2
  <2>4. MayName(i, b) /\ MayName(j, b)
    BY <1>0, <2>1, <2>2, <2>3, NamedMayName
  <2>5. i \notin Foreign /\ VarnishOf[i] = v
    BY <1>1, <1>3, <2>2, <2>4 DEF OneVarnish
  <2>6. i \in IngsOf(v)
    BY <2>3, <2>5 DEF IngsOf, NamesAt
  <2>7. Brings(Ing(i), v)
    BY <2>6 DEF Brings
  <2> QED BY <2>3, <2>7
<1> QED BY <1>1, <1>2, <1>3, NilKeeps

LEMMA KeepsWorker == ASSUME Undivided, TypeOK, NothingMissed, Worker PROVE NothingMissed'
<1>0. /\ ClusterOK /\ WorkOK /\ OneSubset /\ OneVarnish
      /\ <<>> \in Seq(Items) /\ ToSet(<<>>) = {}
  BY TypeParts DEF Undivided, ToSet
<1>1. CASE SyncIng
  <2>1. Handles("ing")
    BY <1>1 DEF SyncIng
  <2>2. PICK i \in Ingresses : i = Head(queue).key /\ Head(queue) = Ing(i)
    BY <1>0, <2>1, HandledItem
  <2>3. \A v : Brings(Head(queue), v) => ing[i] # Absent /\ i \notin Foreign /\ VarnishOf[i] = v
    BY <2>2, BringsOf DEF IngsOf
  <2>4. CASE ing[i] = Absent /\ ReturnsError
    BY <2>1, <2>4, ErrorKeeps
  <2>5. CASE i \in Foreign /\ ReturnsNil(<<>>)
    BY <1>0, <2>1, <2>3, <2>5, NilKeeps
  <2>6. CASE AddOrUpdateIngs({VarnishOf[i]})
    <3>1. \A v \in VarnishSvcs : Brings(Head(queue), v) => v \in {VarnishOf[i]}
      BY <2>3
    <3> QED BY <1>0, <2>1, <2>6, <3>1, UpdateKeeps
  <2> QED BY <1>1, <2>2, <2>4, <2>5, <2>6 DEF SyncIng
<1>2. CASE SyncIngDeleted
  <2>1. Handles("ingDeleted")
    BY <1>2 DEF SyncIngDeleted
  <2>2. PICK i \in Ingresses : i = Head(queue).key /\ Head(queue) = IngDeleted(i)
    BY <1>0, <2>1, HandledItem
  <2>3. \A v \in VarnishSvcs : Brings(Head(queue), v) => v \in {VarnishOf[i]}
    BY <2>2, BringsOf
  <2>4. AddOrUpdateIngs({VarnishOf[i]})
    BY <1>2, <2>2 DEF SyncIngDeleted
  <2> QED BY <1>0, <2>1, <2>3, <2>4, UpdateKeeps
<1>3. CASE SyncSvc
  <2>1. Handles("svc")
    BY <1>3 DEF SyncSvc
  <2>2. PICK b \in Backends : b = Head(queue).key /\ Head(queue) = Svc(b)
    BY <1>0, <2>1, HandledItem
  <2>3. \A v \in VarnishSvcs : Brings(Head(queue), v) => b \in UsedBy(v)
    BY <2>2, BringsOf
  <2> QED BY <1>3, <2>1, <2>2, <2>3, ErrorKeeps, EnqueueKeeps DEF SyncSvc
<1>4. CASE SyncSvcDeleted
  <2>1. Handles("svcDeleted")
    BY <1>4 DEF SyncSvcDeleted
  <2>2. PICK b \in Backends : b = Head(queue).key /\ Head(queue) = SvcDeleted(b)
    BY <1>0, <2>1, HandledItem
  <2>3. \A v \in VarnishSvcs : Brings(Head(queue), v) => b \in UsedBy(v)
    BY <2>2, BringsOf
  <2> QED BY <1>4, <2>1, <2>2, <2>3, EnqueueKeeps DEF SyncSvcDeleted
<1>5. CASE SyncEndp
  <2>1. Handles("endp")
    BY <1>5 DEF SyncEndp
  <2>2. PICK b \in Backends : b = Head(queue).key /\ Head(queue) = Endp(b)
    BY <1>0, <2>1, HandledItem
  <2>3. \A v \in VarnishSvcs : Brings(Head(queue), v) => b \in UsedBy(v) /\ svc[b] # Absent
    BY <2>2, BringsOf
  <2>4. CASE svc[b] = Absent /\ ReturnsNil(<<>>)
    BY <1>0, <2>1, <2>3, <2>4, NilKeeps
  <2>5. CASE AddOrUpdateIngs({VarnishOf[m[1]] : m \in Mentions(b)})
    <3>1. ASSUME NEW v \in VarnishSvcs, b \in UsedBy(v)
          PROVE  v \in {VarnishOf[m[1]] : m \in Mentions(b)}
      <4>1. PICK i \in IngsOf(v), p \in Places : NamesAt(i, p, b)
        BY <3>1 DEF UsedBy
      <4>2. <<i, p>> \in Mentions(b) /\ VarnishOf[i] = v
        BY <4>1 DEF Mentions, IngsOf
      <4> QED BY <4>2
    <3>2. \A v \in VarnishSvcs :
              Brings(Head(queue), v) => v \in {VarnishOf[m[1]] : m \in Mentions(b)}
      BY <2>3, <3>1
    <3> QED BY <1>0, <2>1, <2>5, <3>2, UpdateKeeps
  <2> QED BY <1>5, <2>2, <2>4, <2>5 DEF SyncEndp
<1>6. CASE SyncBcfg
  <2>1. Handles("bcfg")
    BY <1>6 DEF SyncBcfg
  <2>2. PICK c \in Bcfgs : c = Head(queue).key /\ Head(queue) = Bcfg(c)
    BY <1>0, <2>1, HandledItem
  <2>3. \A v : Brings(Head(queue), v) => bcfg[c].services \cap UsedBy(v) # {}
    BY <2>2, BringsOf DEF BcfgsFor
  <2>4. CASE ReturnsError
    BY <2>1, <2>4, ErrorKeeps
  <2>5. CASE bcfg[c].services = {} /\ ReturnsNil(<<>>)
    BY <1>0, <2>1, <2>3, <2>5, NilKeeps
  <2>6. CASE bcfg[c] # Absent /\ EnqueueIngsForBackendSvcs(bcfg[c].services)
    <3>1. bcfg[c] \in BcfgDefs
      BY <1>0, <2>6 DEF ClusterOK
    <3> QED BY <1>0, <2>1, <2>3, <2>6, <3>1, EnqueueForBackendsKeeps
  <2> QED BY <1>6, <2>2, <2>4, <2>5, <2>6 DEF SyncBcfg
<1>7. CASE SyncBcfgDeleted
  <2>1. Handles("bcfgDeleted")
    BY <1>7 DEF SyncBcfgDeleted
  <2>2. PICK def \in BcfgDefs :
          def.services = Head(queue).key /\ Head(queue) = BcfgDeleted(def.services)
    BY <1>0, <2>1, HandledItem
  <2>3. \A v \in VarnishSvcs : Brings(Head(queue), v) => def.services \cap UsedBy(v) # {}
    BY <2>2, BringsOf
  <2>4. EnqueueIngsForBackendSvcs(def.services)
    BY <1>7, <2>2 DEF SyncBcfgDeleted
  <2> QED BY <1>0, <2>1, <2>3, <2>4, EnqueueForBackendsKeeps
<1>8. CASE DropTombstone
  <2>1. Handles("tombstone") /\ ReturnsNil(<<>>)
    BY <1>8 DEF DropTombstone
  <2>2. Head(queue) = Tombstone
    BY <1>0, <2>1, HandledItem
  <2>3. \A v \in VarnishSvcs : ~Brings(Head(queue), v)
    BY <2>2, BringsOf
  <2> QED BY <1>0, <2>1, <2>3, NilKeeps
<1> QED BY <1>1, <1>2, <1>3, <1>4, <1>5, <1>6, <1>7, <1>8 DEF Worker

LEMMA NothingMissedInit == Init => NothingMissed
<1> SUFFICES ASSUME Init, NEW v \in VarnishSvcs
             PROVE  UpToDate(v) \/ \E x \in Waiting : Brings(x, v)
  BY DEF NothingMissed
<1>1. CASE IngsOf(v) = {}
  BY <1>1 DEF Init, UpToDate
<1>2. CASE IngsOf(v) # {}
  <2>1. PICK i \in IngsOf(v) : i \in Ingresses /\ ing[i] # Absent
    BY <1>2 DEF IngsOf
  <2>2. Ing(i) \in Waiting
    BY <2>1, InitialWork
  <2>3. Brings(Ing(i), v)
    BY <2>1 DEF Brings
  <2> QED BY <2>2, <2>3
<1> QED BY <1>1, <1>2

LEMMA NothingMissedStep ==
    ASSUME Undivided PROVE TypeOK /\ NothingMissed /\ [Next]_vars => NothingMissed'
<1> SUFFICES ASSUME TypeOK, NothingMissed, [Next]_vars PROVE NothingMissed'
  OBVIOUS
<1>1. CASE Change
  BY <1>1, KeepsChange DEF Undivided
<1>2. CASE Worker
  BY <1>2, KeepsWorker
<1>3. ASSUME NEW n \in DOMAIN retries, Retries(n) PROVE NothingMissed'
  <2>1. WorkOK /\ UNCHANGED cluster /\ UNCHANGED config
    BY <1>3, TypeParts DEF Retries
  <2>2. Waiting \subseteq Waiting'
    BY <1>3, <2>1, RetryWaits DEF WorkOK, Retries
  <2> QED BY <2>1, <2>2, WaitingKeeps
<1>4. CASE UNCHANGED vars
  <2>1. UNCHANGED cluster /\ UNCHANGED config /\ Waiting \subseteq Waiting'
    BY <1>4 DEF vars, cluster, Waiting
  <2> QED BY <2>1, WaitingKeeps
<1> QED BY <1>1, <1>2, <1>3, <1>4 DEF Next

\* Whatever changes and fails, and in whatever order what is listed comes: at any
\* time, a Varnish Service that can have a configuration has the one that the
\* cluster asks for, or an item waits that will bring it.
THEOREM NoChangeMissed == ASSUME Undivided PROVE Spec => []NothingMissed
<1>1. Init => TypeOK /\ NothingMissed
  BY TypeInit, NothingMissedInit
<1>2. TypeOK /\ NothingMissed /\ [Next]_vars => (TypeOK /\ NothingMissed)'
  BY TypeStep, NothingMissedStep
<1> QED BY <1>1, <1>2, PTL DEF Spec
=============================================================================
