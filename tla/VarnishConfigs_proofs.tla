------------------------ MODULE VarnishConfigs_proofs ------------------------
(***************************************************************************)
(* Theorems about VarnishConfigs: types, what the name of the              *)
(* configuration that is executed says of the resources, and that it does  *)
(* not depend on the order in which they are listed.                       *)
(***************************************************************************)
EXTENDS VarnishConfigs, VclSpec_proofs

-----------------------------------------------------------------------------
(* The inductive invariant.                                                *)

\* What Varnish has under a name was generated and given that name.
LoadedByName ==
    \A n \in DOMAIN loaded :
        \E c \in Clusters : \E g \in Generated[c] : g.name = n /\ g.spec = loaded[n]

\* The label is on what was generated from the resources of the last update.
LabelOfLast ==
    label # <<>> =>
        /\ label[1] \in DOMAIN loaded
        /\ \E c \in Clusters : done = <<c>> /\ \E g \in Generated[c] : label = <<g.name>>

\* An update is only not due if there is nothing new since the last one but a
\* VarnishConfig, which is due itself, or Pods that are not sharded.
NothingNewSince(c) ==
    /\ \A f \in DOMAIN res \ {"vcfg", "pods"} : c[f] = res[f]
    /\ ~vcfgDue => c.vcfg = res.vcfg /\ (c.pods = res.pods \/ ~Shards(res))

DueUnlessDone == ~ingDue => \E c \in Clusters : done = <<c>> /\ NothingNewSince(c)

ConfigsInv == TypeOK /\ LoadedByName /\ LabelOfLast /\ DueUnlessDone

LEMMA GeneratedIsSpec ==
    ASSUME NEW c \in Clusters, NEW g \in Generated[c]
    PROVE  /\ g.name = DeepHash(g.spec)
           /\ g.spec \in GeneratedFrom(c)
BY DEF Generated

-----------------------------------------------------------------------------
(* Types.                                                                  *)

LEMMA InitType == Init => TypeOK
<1> SUFFICES ASSUME Init PROVE TypeOK
  OBVIOUS
<1>1. res \in Clusters /\ ingDue \in BOOLEAN /\ label = <<>> /\ done = <<>>
  BY DEF Init
<1>2. vcfgDue \in BOOLEAN /\ (vcfgDue => res.vcfg # <<>>)
  BY DEF Init
<1>3. changes \in 0 .. MaxChanges /\ restarts \in 0 .. MaxRestarts
  BY BoundsAssumption DEF Init
<1> QED BY <1>1, <1>2, <1>3 DEF TypeOK

LEMMA UpdateDomain ==
    ASSUME NEW g, Update(g)
    PROVE  /\ DOMAIN loaded' = DOMAIN loaded \cup {g.name}
           /\ \A n \in DOMAIN loaded : loaded'[n] = loaded[n]
           /\ g.name \notin DOMAIN loaded => loaded'[g.name] = g.spec
           /\ label' = <<g.name>>
BY DEF Update

LEMMA NextType == TypeOK /\ [Next]_vars => TypeOK'
<1> SUFFICES ASSUME TypeOK, [Next]_vars PROVE TypeOK'
  OBVIOUS
<1> USE DEF TypeOK
<1>1. ASSUME NEW r \in Clusters, Change(r) PROVE TypeOK'
  <2>1. /\ res' = r /\ vcfgDue' = VcfgDue(r) /\ ingDue' = (ingDue \/ IngressesDue(r))
        /\ changes' = changes + 1 /\ changes < MaxChanges
        /\ loaded' = loaded /\ label' = label /\ done' = done /\ restarts' = restarts
    BY <1>1 DEF Change
  <2>2. vcfgDue' \in BOOLEAN /\ (vcfgDue' => r.vcfg # <<>>)
    BY <2>1 DEF VcfgDue
  <2>3. ingDue' \in BOOLEAN
    BY <2>1 DEF IngressesDue
  <2>4. changes' \in 0 .. MaxChanges
    BY <2>1, BoundsAssumption
  <2> QED BY <2>1, <2>2, <2>3, <2>4
<1>2. CASE syncVcfg
  BY <1>2 DEF syncVcfg
<1>3. CASE addOrUpdateIng
  <2>1. PICK g \in Generated[res] : Update(g)
    BY <1>3 DEF addOrUpdateIng
  <2>2. label' # <<>> /\ label'[1] \in DOMAIN loaded'
    <3>1. label' = <<g.name>>
      BY <2>1, UpdateDomain
    <3>2. g.name \in DOMAIN loaded'
      BY <2>1, UpdateDomain
    <3> QED BY <3>1, <3>2
  <2>3. /\ res' = res /\ vcfgDue' = vcfgDue /\ changes' = changes /\ restarts' = restarts
        /\ ingDue' = FALSE /\ done' # <<>>
    BY <1>3 DEF addOrUpdateIng
  <2> QED BY <2>2, <2>3
<1>4. CASE Restart
  <2>1. /\ res' = res /\ vcfgDue' = (res.vcfg # <<>>) /\ ingDue' = TRUE /\ changes' = changes
        /\ restarts' = restarts + 1 /\ restarts < MaxRestarts
        /\ loaded' = loaded /\ label' = label /\ done' = done
    BY <1>4 DEF Restart
  <2>2. restarts' \in 0 .. MaxRestarts
    BY <2>1, BoundsAssumption
  <2> QED BY <2>1, <2>2
<1>5. CASE UNCHANGED vars
  BY <1>5 DEF vars
<1> QED BY <1>1, <1>2, <1>3, <1>4, <1>5 DEF Next

-----------------------------------------------------------------------------
(* What the label says of the resources.                                   *)

LEMMA InitInv == Init => ConfigsInv
<1> SUFFICES ASSUME Init PROVE ConfigsInv
  OBVIOUS
<1>1. TypeOK
  BY InitType
<1>2. loaded = <<>> /\ label = <<>> /\ ingDue = TRUE
  BY DEF Init
<1>3. LoadedByName
  BY <1>2 DEF LoadedByName
<1>4. LabelOfLast /\ DueUnlessDone
  BY <1>2 DEF LabelOfLast, DueUnlessDone
<1> QED BY <1>1, <1>3, <1>4 DEF ConfigsInv

\* What is loaded, labelled and done only changes in an update.
LEMMA KeepsLoaded ==
    ASSUME ConfigsInv, UNCHANGED <<loaded, label, done>>
    PROVE  LoadedByName' /\ LabelOfLast'
<1>1. loaded' = loaded /\ label' = label /\ done' = done
  OBVIOUS
<1>2. LoadedByName /\ LabelOfLast
  BY DEF ConfigsInv
<1>3. LoadedByName'
  BY <1>1, <1>2 DEF LoadedByName
<1>4. LabelOfLast'
  BY <1>1, <1>2 DEF LabelOfLast
<1> QED BY <1>3, <1>4

LEMMA Fields ==
    ASSUME NEW c \in Clusters
    PROVE  DOMAIN c = {"rules", "default", "endpoints", "vcfg", "secrets", "pods", "httpPort"}
<1>1. c = [rules |-> c.rules, default |-> c.default, endpoints |-> c.endpoints, vcfg |-> c.vcfg,
           secrets |-> c.secrets, pods |-> c.pods, httpPort |-> c.httpPort]
  BY ResourcesAssumption
<1> QED BY <1>1

LEMMA SameFields ==
    ASSUME NEW c \in Clusters, NEW d \in Clusters, \A f \in DOMAIN d : c[f] = d[f]
    PROVE  c = d
<1> DEFINE Record(e) ==
               [rules |-> e.rules, default |-> e.default, endpoints |-> e.endpoints, vcfg |-> e.vcfg,
                secrets |-> e.secrets, pods |-> e.pods, httpPort |-> e.httpPort]
<1>1. c = Record(c) /\ d = Record(d)
  BY ResourcesAssumption
<1>2. Record(c) = Record(d)
  BY Fields
<1> HIDE DEF Record
<1> QED BY <1>1, <1>2

LEMMA ChangeKeeps ==
    ASSUME ConfigsInv, NEW r \in Clusters, Change(r), ~ingDue'
    PROVE  DueUnlessDone'
<1>1. /\ res' = r /\ vcfgDue' = VcfgDue(r) /\ done' = done
      /\ ~ingDue /\ ~IngressesDue(r)
  BY DEF Change
<1>2. PICK c \in Clusters : done = <<c>> /\ NothingNewSince(c)
  BY <1>1 DEF ConfigsInv, DueUnlessDone
<1>3. \A f \in DOMAIN res \ {"vcfg", "pods"} : r[f] = res[f]
  BY <1>1 DEF IngressesDue
<1>4. \A f \in DOMAIN res \ {"vcfg", "pods"} : c[f] = res[f]
  BY <1>2 DEF NothingNewSince
<1>5. res \in Clusters
  BY DEF ConfigsInv, TypeOK
<1>6. \A f \in DOMAIN r \ {"vcfg", "pods"} : c[f] = r[f]
  BY <1>3, <1>4, <1>5, Fields
<1>7. ASSUME ~VcfgDue(r) PROVE c.vcfg = r.vcfg /\ (c.pods = r.pods \/ ~Shards(r))
  <2>1. r.vcfg = res.vcfg /\ ~vcfgDue
    <3>1. r.vcfg = <<>> \/ (~vcfgDue /\ r.vcfg = res.vcfg)
      BY <1>7 DEF VcfgDue
    <3>2. r.vcfg # res.vcfg => r.vcfg # <<>>
      BY <1>1 DEF IngressesDue
    <3>3. vcfgDue => res.vcfg # <<>>
      BY DEF ConfigsInv, TypeOK
    <3> QED BY <3>1, <3>2, <3>3
  <2>2. c.vcfg = res.vcfg /\ (c.pods = res.pods \/ ~Shards(res))
    BY <1>2, <2>1 DEF NothingNewSince
  <2>3. r.pods = res.pods \/ ~Shards(r)
    BY <1>1 DEF IngressesDue
  <2>4. Shards(r) = Shards(res)
    BY <2>1 DEF Shards
  <2> QED BY <2>1, <2>2, <2>3, <2>4
<1>8. NothingNewSince(c)'
  BY <1>1, <1>6, <1>7 DEF NothingNewSince
<1> QED BY <1>1, <1>2, <1>8 DEF DueUnlessDone

LEMMA UpdateKeeps ==
    ASSUME ConfigsInv, addOrUpdateIng
    PROVE  LoadedByName' /\ LabelOfLast' /\ DueUnlessDone'
<1>1. PICK g \in Generated[res] : Update(g)
  BY DEF addOrUpdateIng
<1>2. res' = res /\ res \in Clusters /\ done' = <<res>>
  BY DEF addOrUpdateIng, ConfigsInv, TypeOK
<1>3. LoadedByName'
  <2>1. LoadedByName
    BY DEF ConfigsInv
  <2> SUFFICES ASSUME NEW n \in DOMAIN loaded'
               PROVE  \E c \in Clusters : \E h \in Generated[c] : h.name = n /\ h.spec = loaded'[n]
    BY DEF LoadedByName
  <2>2. CASE n \in DOMAIN loaded
    <3>1. loaded'[n] = loaded[n]
      BY <1>1, <2>2, UpdateDomain
    <3> QED BY <2>1, <2>2, <3>1 DEF LoadedByName
  <2>3. CASE n \notin DOMAIN loaded
    <3>1. n = g.name
      <4>1. DOMAIN loaded' = DOMAIN loaded \cup {g.name}
        BY <1>1, UpdateDomain
      <4> QED BY <2>3, <4>1
    <3>2. loaded'[g.name] = g.spec
      BY <1>1, <2>3, <3>1, UpdateDomain
    <3> QED BY <1>1, <1>2, <3>1, <3>2
  <2> QED BY <2>2, <2>3
<1>4. LabelOfLast'
  <2>1. label' = <<g.name>>
    BY <1>1, UpdateDomain
  <2>2. g.name \in DOMAIN loaded'
    BY <1>1, UpdateDomain
  <2>3. label'[1] = g.name
    BY <2>1
  <2> QED BY <1>1, <1>2, <2>1, <2>2, <2>3 DEF LabelOfLast
<1>5. NothingNewSince(res)'
  BY <1>2 DEF NothingNewSince
<1>6. DueUnlessDone'
  BY <1>2, <1>5 DEF DueUnlessDone
<1> QED BY <1>3, <1>4, <1>6

LEMMA NextInv == ConfigsInv /\ [Next]_vars => ConfigsInv'
<1> SUFFICES ASSUME ConfigsInv, [Next]_vars PROVE ConfigsInv'
  OBVIOUS
<1>1. TypeOK'
  BY NextType DEF ConfigsInv
<1>2. ASSUME NEW r \in Clusters, Change(r) PROVE LoadedByName' /\ LabelOfLast' /\ DueUnlessDone'
  <2>1. LoadedByName' /\ LabelOfLast'
    <3>1. UNCHANGED <<loaded, label, done>>
      BY <1>2 DEF Change
    <3> QED BY <3>1, KeepsLoaded
  <2>2. CASE ingDue'
    BY <2>1, <2>2 DEF DueUnlessDone
  <2>3. CASE ~ingDue'
    BY <1>2, <2>1, <2>3, ChangeKeeps
  <2> QED BY <2>2, <2>3
<1>3. ASSUME syncVcfg \/ Restart PROVE LoadedByName' /\ LabelOfLast' /\ DueUnlessDone'
  <2>1. UNCHANGED <<loaded, label, done>> /\ ingDue' = TRUE
    BY <1>3 DEF syncVcfg, Restart
  <2> QED BY <2>1, KeepsLoaded DEF DueUnlessDone
<1>4. CASE addOrUpdateIng
  BY <1>1, <1>4, UpdateKeeps DEF ConfigsInv
<1>5. CASE UNCHANGED vars
  <2>1. UNCHANGED <<loaded, label, done>> /\ UNCHANGED <<res, vcfgDue, ingDue>>
    BY <1>5 DEF vars
  <2>2. LoadedByName' /\ LabelOfLast'
    BY <2>1, KeepsLoaded
  <2>3. DueUnlessDone'
    BY <2>1 DEF ConfigsInv, DueUnlessDone, NothingNewSince, Shards
  <2> QED BY <1>1, <2>2, <2>3 DEF ConfigsInv
<1> QED BY <1>1, <1>2, <1>3, <1>4, <1>5 DEF ConfigsInv, Next

THEOREM ConfigsInvariant == Spec => []ConfigsInv
<1>1. Init => ConfigsInv
  BY InitInv
<1>2. ConfigsInv /\ [Next]_vars => ConfigsInv'
  BY NextInv
<1> QED BY <1>1, <1>2, PTL DEF Spec

\* The types of the state, and that the label is on something loaded.
THEOREM TypesOK == Spec => []TypeOK
<1>1. ConfigsInv => TypeOK
  BY DEF ConfigsInv
<1> QED BY <1>1, ConfigsInvariant, PTL

\* What is generated does not depend on the Pods unless they are sharded.
LEMMA PodsOnlyIfSharded ==
    ASSUME NEW c \in Clusters, NEW d \in Clusters, ~Shards(d),
           \A f \in DOMAIN d \ {"pods"} : c[f] = d[f]
    PROVE  Generated[c] \subseteq Generated[d]
<1>1. /\ c.rules = d.rules /\ c.default = d.default /\ c.endpoints = d.endpoints
      /\ c.vcfg = d.vcfg /\ c.secrets = d.secrets /\ c.httpPort = d.httpPort
  BY Fields
<1>2. Or(d.vcfg, NoVcfg).sharding = <<>>
  <2>1. CASE d.vcfg = <<>>
    BY <2>1 DEF Or, NoVcfg
  <2>2. CASE d.vcfg # <<>>
    <3>1. d.vcfg = <<d.vcfg[1]>>
      BY <2>2, ResourcesAssumption
    <3>2. 1 \in DOMAIN d.vcfg
      BY <3>1
    <3>3. d.vcfg[1].sharding = <<>>
      BY <3>2 DEF Shards
    <3> QED BY <2>2, <3>3 DEF Or
  <2> QED BY <2>1, <2>2
<1>3. ASSUME NEW rules, NEW addresses, NEW pods, NEW others, NEW credentials
      PROVE  SpecOf(c, rules, addresses, pods, credentials)
                 = SpecOf(d, rules, addresses, others, credentials)
  <2>1. configSharding(Or(d.vcfg, NoVcfg).sharding, pods, d.httpPort)
            = configSharding(Or(d.vcfg, NoVcfg).sharding, others, d.httpPort)
    BY <1>2 DEF configSharding, Map
  <2>2. UsedServices(c) = UsedServices(d)
    BY <1>1 DEF UsedServices
  <2> QED BY <1>1, <2>1, <2>2 DEF SpecOf
<1>4. PICK others \in SetToSeqs(d.pods) : TRUE
  <2>1. IsFiniteSet(d.pods)
    BY ResourcesAssumption
  <2> QED BY <2>1, SetHasList
<1>5. GeneratedFrom(c) \subseteq GeneratedFrom(d)
  <2> SUFFICES ASSUME NEW rules \in SetToSeqs(c.rules), NEW addresses \in OrdersOf(c.endpoints),
                      NEW pods \in SetToSeqs(c.pods), NEW credentials \in OrdersOf(c.secrets)
               PROVE  Canonical(SpecOf(c, rules, addresses, pods, credentials)) \in GeneratedFrom(d)
    BY DEF GeneratedFrom
  <2>1. Canonical(SpecOf(d, rules, addresses, others, credentials)) \in GeneratedFrom(d)
    BY <1>1, <1>4 DEF GeneratedFrom
  <2> QED BY <1>3, <2>1
<1> QED BY <1>5 DEF Generated

LEMMA InvNames == ConfigsInv => NamesResources
<1> SUFFICES ASSUME ConfigsInv, ~vcfgDue, ~ingDue
             PROVE  \E g \in Generated[res] : label = <<g.name>>
  BY DEF NamesResources
<1>1. PICK c \in Clusters : done = <<c>> /\ NothingNewSince(c)
  BY DEF ConfigsInv, DueUnlessDone
<1>2. label # <<>>
  BY <1>1 DEF ConfigsInv, TypeOK
<1>3. PICK e \in Clusters : done = <<e>> /\ \E g \in Generated[e] : label = <<g.name>>
  BY <1>2 DEF ConfigsInv, LabelOfLast
<1>4. e = c
  BY <1>1, <1>3
<1>5. res \in Clusters
  BY DEF ConfigsInv, TypeOK
<1>6. CASE c.pods = res.pods
  <2>1. \A f \in DOMAIN res : c[f] = res[f]
    BY <1>1, <1>6 DEF NothingNewSince
  <2>2. c = res
    BY <1>5, <2>1, SameFields
  <2> QED BY <1>3, <1>4, <2>2
<1>7. CASE c.pods # res.pods
  <2>1. ~Shards(res) /\ \A f \in DOMAIN res \ {"pods"} : c[f] = res[f]
    BY <1>1, <1>7 DEF NothingNewSince
  <2>2. Generated[c] \subseteq Generated[res]
    BY <1>5, <2>1, PodsOnlyIfSharded
  <2> QED BY <1>3, <1>4, <2>2
<1> QED BY <1>6, <1>7

\* When nothing is left to do, the configuration that the instances execute has
\* the name of what is generated from the resources as they are (the guards of
\* syncSvc, isVarnishInVCLSpec, and of the other handlers).
THEOREM NamedAfterResources == Spec => []NamesResources
<1> QED BY InvNames, ConfigsInvariant, PTL

-----------------------------------------------------------------------------
(* The order in which the resources are listed.                            *)

LEMMA MappedList ==
    ASSUME NEW C, NEW s, IsListOf(s, C), NEW f, DOMAIN f = C, \A a, b \in C : f[a] = f[b] => a = b
    PROVE  IsListOf([n \in DOMAIN s |-> f[s[n]]], Range(f))
<1> DEFINE t == [n \in DOMAIN s |-> f[s[n]]]
<1>1. s \in Seq(C) /\ Range(s) = C /\ \A m, n \in DOMAIN s : s[m] = s[n] => m = n
  BY DEF IsListOf, IsInjective
<1>2. DOMAIN t = 1 .. Len(s) /\ Len(s) \in Nat /\ \A n \in DOMAIN s : s[n] \in C
  BY <1>1
<1>3. \A n \in DOMAIN s : t[n] \in Range(f)
  BY <1>2 DEF Range
<1>4. t \in Seq(Range(f))
  <2>1. DOMAIN s = 1 .. Len(s)
    BY <1>1
  <2>2. t \in [1 .. Len(s) -> Range(f)]
    BY <1>2, <1>3, <2>1
  <2> HIDE DEF t
  <2> QED BY <1>2, <2>2
<1>5. IsInjective(t)
  BY <1>1, <1>2 DEF IsInjective
<1>6. Range(t) = Range(f)
  <2>1. ASSUME NEW x \in Range(f) PROVE x \in Range(t)
    <3>1. PICK a \in C : x = f[a]
      BY <2>1 DEF Range
    <3>2. PICK n \in DOMAIN s : s[n] = a
      BY <1>1, <3>1 DEF Range
    <3>3. n \in DOMAIN t /\ t[n] = x
      BY <3>1, <3>2
    <3> QED BY <3>3 DEF Range
  <2>2. ASSUME NEW x \in Range(t) PROVE x \in Range(f)
    <3>1. PICK n \in DOMAIN s : x = t[n]
      BY DEF Range
    <3> QED BY <1>3, <3>1
  <2> QED BY <2>1, <2>2
<1> HIDE DEF t
<1>7. IsListOf(t, Range(f))
  BY <1>4, <1>5, <1>6 DEF IsListOf
<1> QED BY <1>7 DEF t

LEMMA OrderIsList ==
    ASSUME NEW f, \A k \in DOMAIN f : IsFiniteSet(f[k]), NEW g \in OrdersOf(f), NEW k \in DOMAIN f
    PROVE  IsListOf(g[k], f[k]) /\ DOMAIN g = DOMAIN f
<1>1. DOMAIN g = DOMAIN f /\ Range(g[k]) = f[k] /\ g[k] \in UNION {SetToSeqs(f[j]) : j \in DOMAIN f}
  BY DEF OrdersOf
<1>2. PICK j \in DOMAIN f : g[k] \in SetToSeqs(f[j])
  BY <1>1
<1>3. IsListOf(g[k], f[j])
  BY <1>2, ListOfSet
<1>4. f[j] = f[k]
  BY <1>1, <1>3 DEF IsListOf
<1> QED BY <1>1, <1>3, <1>4

\* A Service gets the same backends.
LEMMA SameBackends ==
    ASSUME NEW c \in Clusters, NEW a \in OrdersOf(c.endpoints), NEW b \in OrdersOf(c.endpoints),
           NEW s \in DOMAIN c.endpoints
    PROVE  ByAddress(VclService(s, a)) = ByAddress(VclService(s, b))
<1>1. \A k \in DOMAIN c.endpoints : IsFiniteSet(c.endpoints[k])
  BY ResourcesAssumption
<1>2. c.endpoints[s] \in SUBSET [ip : String, port : Nat]
      /\ \A p, q \in c.endpoints[s] : p.port = q.port
  BY ResourcesAssumption DEF String
<1>3. IsListOf(a[s], c.endpoints[s])
  BY <1>1, OrderIsList
<1>4. IsListOf(b[s], c.endpoints[s])
  BY <1>1, OrderIsList
<1>5. StableSort(AddressBefore, a[s]) = StableSort(AddressBefore, b[s])
  BY <1>2, <1>3, <1>4, AddressesSorted
<1>6. VclService(s, a).addresses = a[s] /\ VclService(s, b).addresses = b[s]
  BY DEF VclService, NoService
<1>7. ByAddress(VclService(s, a))
          = [VclService(s, a) EXCEPT !.addresses = StableSort(AddressBefore, a[s])]
  BY <1>6 DEF ByAddress
<1>8. ByAddress(VclService(s, b))
          = [VclService(s, b) EXCEPT !.addresses = StableSort(AddressBefore, b[s])]
  BY <1>6 DEF ByAddress
<1>9. [VclService(s, a) EXCEPT !.addresses = StableSort(AddressBefore, a[s])]
          = [VclService(s, b) EXCEPT !.addresses = StableSort(AddressBefore, b[s])]
  <2> DEFINE sorted == StableSort(AddressBefore, a[s])
  <2>1. sorted = StableSort(AddressBefore, b[s])
    BY <1>5
  <2> HIDE DEF sorted
  <2>2. [VclService(s, a) EXCEPT !.addresses = sorted] = [VclService(s, b) EXCEPT !.addresses = sorted]
    BY DEF VclService, NoService
  <2> QED BY <2>1, <2>2 DEF sorted
<1> QED BY <1>7, <1>8, <1>9

LEMMA ElementType == ASSUME NEW S, NEW s \in Seq(S), NEW n \in DOMAIN s PROVE s[n] \in S
OBVIOUS

\* Of the rules of one path, the last one counts.
LEMMA LastOfPath ==
    ASSUME NEW c \in Clusters, NEW r \in c.rules, NEW p \in {r.paths[n].path : n \in DOMAIN r.paths}
    PROVE  LET n == Max({n \in DOMAIN r.paths : r.paths[n].path = p})
           IN  n \in DOMAIN r.paths /\ r.paths[n].path = p /\ r.paths[n].service \in DOMAIN c.endpoints
<1> DEFINE same == {n \in DOMAIN r.paths : r.paths[n].path = p}
<1>1. r.paths \in Seq([path : Seq(Nat), service : DOMAIN c.endpoints])
  BY ResourcesAssumption
<1>2. Len(r.paths) \in Nat /\ DOMAIN r.paths = 1 .. Len(r.paths)
  BY <1>1
<1>3. same \in SUBSET (0 .. Len(r.paths)) /\ same # {}
  BY <1>2
<1>4. Max(same) \in same
  <2> HIDE DEF same
  <2> QED BY <1>2, <1>3, GreatestNumber
<1>5. Max(same) \in DOMAIN r.paths /\ r.paths[Max(same)].path = p
  BY <1>4
<1> HIDE DEF same
<1>6. r.paths[Max(same)].service \in DOMAIN c.endpoints
  <2>1. r.paths[Max(same)] \in [path : Seq(Nat), service : DOMAIN c.endpoints]
    BY <1>1, <1>5, ElementType
  <2> QED BY <2>1
<1> QED BY <1>5, <1>6 DEF same

LEMMA RuleShape ==
    ASSUME NEW r, NEW o
    PROVE  CanonicalRule(VclRule(r, o)) =
               [host |-> r.host,
                paths |-> [p \in {r.paths[n].path : n \in DOMAIN r.paths} |->
                    ByAddress(VclService(r.paths[Max({n \in DOMAIN r.paths : r.paths[n].path = p})].service, o))]]
<1> DEFINE names == {r.paths[n].path : n \in DOMAIN r.paths}
           service(p) == r.paths[Max({n \in DOMAIN r.paths : r.paths[n].path = p})].service
           paths == [p \in names |-> ByAddress(VclService(service(p), o))]
<1>1. VclRule(r, o) = [host |-> r.host, paths |-> [p \in names |-> VclService(service(p), o)]]
  BY DEF VclRule, PathMap
<1> HIDE DEF names, service
<1>2. CanonicalRule(VclRule(r, o))
          = [host |-> r.host,
             paths |-> [p \in DOMAIN VclRule(r, o).paths |-> ByAddress(VclRule(r, o).paths[p])]]
  BY <1>1 DEF CanonicalRule, Map
<1>3. VclRule(r, o).paths = [p \in names |-> VclService(service(p), o)]
  BY <1>1
<1>4. [p \in DOMAIN VclRule(r, o).paths |-> ByAddress(VclRule(r, o).paths[p])] = paths
  BY <1>3
<1>5. CanonicalRule(VclRule(r, o)) = [host |-> r.host, paths |-> paths]
  BY <1>2, <1>4
<1> QED BY <1>5 DEF names, service

LEMMA SameRule ==
    ASSUME NEW c \in Clusters, NEW a \in OrdersOf(c.endpoints), NEW b \in OrdersOf(c.endpoints),
           NEW r \in c.rules
    PROVE  /\ CanonicalRule(VclRule(r, a)) = CanonicalRule(VclRule(r, b))
           /\ CanonicalRule(VclRule(r, a)).host = r.host
<1> DEFINE names == {r.paths[n].path : n \in DOMAIN r.paths}
           service(p) == r.paths[Max({n \in DOMAIN r.paths : r.paths[n].path = p})].service
           paths(o) == [p \in names |-> ByAddress(VclService(service(p), o))]
<1>1. \A o : CanonicalRule(VclRule(r, o)) = [host |-> r.host, paths |-> paths(o)]
  BY RuleShape
<1>2. ASSUME NEW p \in names
      PROVE  ByAddress(VclService(service(p), a)) = ByAddress(VclService(service(p), b))
  <2>1. service(p) \in DOMAIN c.endpoints
    BY LastOfPath
  <2> HIDE DEF service
  <2> QED BY <2>1, SameBackends
<1> HIDE DEF names, service
<1>3. paths(a) = paths(b)
  BY <1>2
<1> HIDE DEF paths
<1> QED BY <1>1, <1>3

\* A host is in one rule, and the hostnames of the Pods, or else their names, differ.
Distinct ==
    \A c \in Clusters :
        /\ \A q, r \in c.rules : q.host = r.host => q = r
        /\ \A p, q \in c.pods : p.name = q.name => p = q

LEMMA SameRules ==
    ASSUME Distinct, NEW c \in Clusters,
           NEW a \in OrdersOf(c.endpoints), NEW s \in SetToSeqs(c.rules),
           NEW b \in OrdersOf(c.endpoints), NEW t \in SetToSeqs(c.rules),
           NEW x, x = [n \in DOMAIN s |-> VclRule(s[n], a)],
           NEW y, y = [n \in DOMAIN t |-> VclRule(t[n], b)]
    PROVE  StableSort(HostBefore, Map(CanonicalRule, x)) = StableSort(HostBefore, Map(CanonicalRule, y))
<1> DEFINE f == [r \in c.rules |-> CanonicalRule(VclRule(r, a))]
           u == [n \in DOMAIN s |-> f[s[n]]]
           v == [n \in DOMAIN t |-> f[t[n]]]
<1>1. IsListOf(s, c.rules) /\ IsListOf(t, c.rules)
  <2>1. IsFiniteSet(c.rules)
    BY ResourcesAssumption
  <2>2. IsListOf(s, c.rules)
    BY <2>1, ListOfSet
  <2>3. IsListOf(t, c.rules)
    BY <2>1, ListOfSet
  <2> QED BY <2>2, <2>3
<1>2. \A r \in c.rules : f[r] = CanonicalRule(VclRule(r, b)) /\ f[r].host = r.host /\ r.host \in String
  <2> TAKE r \in c.rules
  <2>1. r.host \in String
    BY ResourcesAssumption DEF String
  <2>2. /\ CanonicalRule(VclRule(r, a)) = CanonicalRule(VclRule(r, b))
        /\ CanonicalRule(VclRule(r, a)).host = r.host
    BY SameRule
  <2> QED BY <2>1, <2>2
<1>3. \A q, r \in c.rules : f[q] = f[r] => q = r
  <2>1. \A q, r \in c.rules : q.host = r.host => q = r
    BY DEF Distinct
  <2> HIDE DEF f
  <2> QED BY <1>2, <2>1
<1>4. \A o, p \in Range(f) : o.host \in String /\ (o.host = p.host => o = p)
  <2> TAKE o, p \in Range(f)
  <2>1. PICK q \in c.rules : o = f[q]
    BY DEF Range
  <2>2. PICK r \in c.rules : p = f[r]
    BY DEF Range
  <2> QED BY <1>2, <2>1, <2>2 DEF Distinct
<1>5. Map(CanonicalRule, x) = u
  <2>1. \A n \in DOMAIN s : s[n] \in c.rules
    BY <1>1 DEF IsListOf
  <2> QED BY <2>1 DEF Map
<1>6. Map(CanonicalRule, y) = v
  <2>1. \A n \in DOMAIN t : t[n] \in c.rules
    BY <1>1 DEF IsListOf
  <2>2. \A n \in DOMAIN t : f[t[n]] = CanonicalRule(VclRule(t[n], b))
    BY <1>2, <2>1
  <2> HIDE DEF f
  <2> QED BY <2>2 DEF Map
<1>7. DOMAIN f = c.rules
  OBVIOUS
<1> HIDE DEF f
<1>8. IsListOf(u, Range(f))
  BY <1>1, <1>3, <1>7, MappedList
<1>9. IsListOf(v, Range(f))
  BY <1>1, <1>3, <1>7, MappedList
<1> HIDE DEF u, v
<1>10. StableSort(HostBefore, u) = StableSort(HostBefore, v)
  BY <1>4, <1>8, <1>9, HostsSorted
<1> QED BY <1>5, <1>6, <1>10

LEMMA SameNodes ==
    ASSUME Distinct, NEW c \in Clusters, NEW s \in SetToSeqs(c.pods), NEW t \in SetToSeqs(c.pods), NEW port,
           NEW x, x = [n \in DOMAIN s |-> VclNode(s[n], port)],
           NEW y, y = [n \in DOMAIN t |-> VclNode(t[n], port)]
    PROVE  StableSort(NameBefore, Map(ByAddress, x)) = StableSort(NameBefore, Map(ByAddress, y))
<1> DEFINE f == [p \in c.pods |-> ByAddress(VclNode(p, port))]
           u == [n \in DOMAIN s |-> f[s[n]]]
           v == [n \in DOMAIN t |-> f[t[n]]]
<1>1. IsListOf(s, c.pods) /\ IsListOf(t, c.pods)
  <2>1. IsFiniteSet(c.pods)
    BY ResourcesAssumption
  <2>2. IsListOf(s, c.pods)
    BY <2>1, ListOfSet
  <2>3. IsListOf(t, c.pods)
    BY <2>1, ListOfSet
  <2> QED BY <2>2, <2>3
<1>2. \A p \in c.pods : f[p].name = p.name
  BY DEF ByAddress, VclNode, NoService
<1>3. \A p, q \in c.pods : p.name \in String /\ (p.name = q.name => p = q)
  BY ResourcesAssumption DEF String, Distinct
<1>4. \A m, o \in Range(f) : m.name \in String /\ (m.name = o.name => m = o)
  <2> TAKE m, o \in Range(f)
  <2>1. PICK p \in c.pods : m = f[p]
    BY DEF Range
  <2>2. PICK q \in c.pods : o = f[q]
    BY DEF Range
  <2> QED BY <1>2, <1>3, <2>1, <2>2
<1>5. Map(ByAddress, x) = u
  <2>1. \A n \in DOMAIN s : s[n] \in c.pods
    BY <1>1 DEF IsListOf
  <2> QED BY <2>1 DEF Map
<1>6. Map(ByAddress, y) = v
  <2>1. \A n \in DOMAIN t : t[n] \in c.pods
    BY <1>1 DEF IsListOf
  <2> QED BY <2>1 DEF Map
<1>7. DOMAIN f = c.pods
  OBVIOUS
<1> HIDE DEF f
<1>8. \A p, q \in c.pods : f[p] = f[q] => p = q
  BY <1>2, <1>3
<1>9. IsListOf(u, Range(f))
  BY <1>1, <1>7, <1>8, MappedList
<1>10. IsListOf(v, Range(f))
  BY <1>1, <1>7, <1>8, MappedList
<1> HIDE DEF u, v
<1>11. StableSort(NameBefore, u) = StableSort(NameBefore, v)
  BY <1>4, <1>9, <1>10, NamesSorted
<1> QED BY <1>5, <1>6, <1>11

LEMMA SameAuth ==
    ASSUME NEW c \in Clusters, NEW a \in OrdersOf(c.secrets), NEW b \in OrdersOf(c.secrets), NEW auth
    PROVE  CanonicalAuth(VclAuth(auth, a)) = CanonicalAuth(VclAuth(auth, b))
<1> DEFINE s == Lookup(a, auth.secret, <<>>)
           t == Lookup(b, auth.secret, <<>>)
<1>1. \A k \in DOMAIN c.secrets : IsFiniteSet(c.secrets[k]) /\ c.secrets[k] \in SUBSET String
  BY ResourcesAssumption DEF String
<1>2. DOMAIN a = DOMAIN c.secrets /\ DOMAIN b = DOMAIN c.secrets
  BY DEF OrdersOf
<1>3. StableSort(Before, s) = StableSort(Before, t)
  <2>1. CASE auth.secret \in DOMAIN c.secrets
    <3>1. s = a[auth.secret] /\ t = b[auth.secret]
      BY <1>2, <2>1 DEF Lookup
    <3>2. IsListOf(a[auth.secret], c.secrets[auth.secret])
      BY <1>1, <2>1, OrderIsList
    <3>3. IsListOf(b[auth.secret], c.secrets[auth.secret])
      BY <1>1, <2>1, OrderIsList
    <3> HIDE DEF s, t
    <3> QED BY <1>1, <2>1, <3>1, <3>2, <3>3, StringsSorted
  <2>2. CASE auth.secret \notin DOMAIN c.secrets
    <3>1. s = t
      BY <1>2, <2>2 DEF Lookup
    <3> HIDE DEF s, t
    <3> QED BY <3>1
  <2> QED BY <2>1, <2>2
<1> DEFINE conditions == Map(configCondition, auth.conditions)
           status == IF auth.type \in {"", "basic"} THEN 401 ELSE 407
           rest(credentials) ==
               [realm |-> auth.realm, credentials |-> credentials, conditions |-> conditions,
                utf8 |-> auth.utf8, status |-> status]
<1>4. VclAuth(auth, a) = rest(s) /\ VclAuth(auth, b) = rest(t)
  BY DEF VclAuth
<1> HIDE DEF s, t, conditions, status
<1> HIDE DEF rest
<1>5. ASSUME NEW x PROVE CanonicalAuth(rest(x)) = rest(StableSort(Before, x))
  <2> DEFINE sorted == StableSort(Before, x)
  <2>1. CanonicalAuth(rest(x))
            = [rest(x) EXCEPT !.credentials = StableSort(Before, rest(x).credentials)]
    BY DEF CanonicalAuth
  <2>2. rest(x).credentials = x
    BY DEF rest
  <2>3. CanonicalAuth(rest(x)) = [rest(x) EXCEPT !.credentials = sorted]
    BY <2>1, <2>2
  <2> HIDE DEF sorted
  <2>4. [rest(x) EXCEPT !.credentials = sorted] = rest(sorted)
    BY DEF rest
  <2> QED BY <2>3, <2>4 DEF sorted
<1> QED BY <1>3, <1>4, <1>5

LEMMA SameShard ==
    ASSUME Distinct, NEW c \in Clusters, NEW s \in SetToSeqs(c.pods), NEW t \in SetToSeqs(c.pods),
           NEW sharding, NEW port,
           NEW x, x = configSharding(sharding, s, port), NEW y, y = configSharding(sharding, t, port)
    PROVE  [x EXCEPT !.nodes = StableSort(NameBefore, Map(ByAddress, x.nodes))]
               = [y EXCEPT !.nodes = StableSort(NameBefore, Map(ByAddress, y.nodes))]
<1>1. CASE sharding = <<>>
  <2>1. x = y
    BY <1>1 DEF configSharding
  <2> QED BY <2>1
<1>2. CASE sharding # <<>>
  <2> DEFINE probe == getVCLProbe(sharding[1].probe)
             ttl == sharding[1].maxTTL
             m == [k \in DOMAIN s |-> VclNode(s[k], port)]
             n == [k \in DOMAIN t |-> VclNode(t[k], port)]
             u == StableSort(NameBefore, Map(ByAddress, m))
             v == StableSort(NameBefore, Map(ByAddress, n))
  <2>1. x = [nodes |-> m, probe |-> probe, maxTTL |-> ttl]
    BY <1>2 DEF configSharding, Map
  <2>2. y = [nodes |-> n, probe |-> probe, maxTTL |-> ttl]
    BY <1>2 DEF configSharding, Map
  <2>3. u = v
    BY SameNodes
  <2> HIDE DEF m, n, probe, ttl
  <2>4. x.nodes = m /\ y.nodes = n
    BY <2>1, <2>2
  <2>5. [x EXCEPT !.nodes = StableSort(NameBefore, Map(ByAddress, x.nodes))] = [x EXCEPT !.nodes = u]
    BY <2>4
  <2>6. [y EXCEPT !.nodes = StableSort(NameBefore, Map(ByAddress, y.nodes))] = [y EXCEPT !.nodes = v]
    BY <2>4
  <2> HIDE DEF u, v
  <2>7. [x EXCEPT !.nodes = u] = [y EXCEPT !.nodes = v]
    BY <2>1, <2>2, <2>3
  <2> QED BY <2>5, <2>6, <2>7
<1> QED BY <1>1, <1>2

LEMMA OneSpec ==
    ASSUME Distinct, NEW c \in Clusters,
           NEW rules \in SetToSeqs(c.rules), NEW addresses \in OrdersOf(c.endpoints),
           NEW pods \in SetToSeqs(c.pods), NEW credentials \in OrdersOf(c.secrets),
           NEW rules2 \in SetToSeqs(c.rules), NEW addresses2 \in OrdersOf(c.endpoints),
           NEW pods2 \in SetToSeqs(c.pods), NEW credentials2 \in OrdersOf(c.secrets)
    PROVE  Canonical(SpecOf(c, rules, addresses, pods, credentials))
               = Canonical(SpecOf(c, rules2, addresses2, pods2, credentials2))
<1> DEFINE s == SpecOf(c, rules, addresses, pods, credentials)
           t == SpecOf(c, rules2, addresses2, pods2, credentials2)
           vcfg == Or(c.vcfg, NoVcfg)
           auths == WithData(vcfg.auth, c.secrets)
<1>1. s.vcl = t.vcl /\ s.acls = t.acls /\ s.rewrites = t.rewrites /\ s.dispositions = t.dispositions
  BY DEF SpecOf
<1>2. s.default.name = t.default.name
  <2>1. CASE c.default = <<>>
    BY <2>1 DEF SpecOf
  <2>2. CASE c.default # <<>>
    <3>1. s.default = VclService(c.default, addresses) /\ t.default = VclService(c.default, addresses2)
      BY <2>2 DEF SpecOf
    <3> QED BY <3>1 DEF VclService, NoService
  <2> QED BY <2>1, <2>2
<1>3. s.rules = [n \in DOMAIN rules |-> VclRule(rules[n], addresses)]
  BY DEF SpecOf, Map
<1>4. t.rules = [n \in DOMAIN rules2 |-> VclRule(rules2[n], addresses2)]
  BY DEF SpecOf, Map
<1>5. /\ s.services = [k \in UsedServices(c) |-> VclService(k, addresses)]
      /\ t.services = [k \in UsedServices(c) |-> VclService(k, addresses2)]
  BY DEF SpecOf
<1>6. /\ s.shard = configSharding(vcfg.sharding, pods, c.httpPort)
      /\ t.shard = configSharding(vcfg.sharding, pods2, c.httpPort)
  BY DEF SpecOf
<1>7. /\ s.auths = [n \in DOMAIN auths |-> VclAuth(auths[n], credentials)]
      /\ t.auths = [n \in DOMAIN auths |-> VclAuth(auths[n], credentials2)]
  BY DEF SpecOf, configAuth, Map
<1> HIDE DEF s, t, auths, vcfg
<1>8. StableSort(HostBefore, Map(CanonicalRule, s.rules))
          = StableSort(HostBefore, Map(CanonicalRule, t.rules))
  BY <1>3, <1>4, SameRules
<1>9. Map(ByAddress, s.services) = Map(ByAddress, t.services)
  <2>1. ASSUME NEW k \in UsedServices(c)
        PROVE  ByAddress(VclService(k, addresses)) = ByAddress(VclService(k, addresses2))
    <3>1. k \in DOMAIN c.endpoints
      BY ResourcesAssumption
    <3> QED BY <3>1, SameBackends
  <2> QED BY <1>5, <2>1 DEF Map
<1>10. [s.shard EXCEPT !.nodes = StableSort(NameBefore, Map(ByAddress, s.shard.nodes))]
           = [t.shard EXCEPT !.nodes = StableSort(NameBefore, Map(ByAddress, t.shard.nodes))]
  BY <1>6, SameShard
<1>11. Map(CanonicalAuth, s.auths) = Map(CanonicalAuth, t.auths)
  <2>1. ASSUME NEW a
        PROVE  CanonicalAuth(VclAuth(a, credentials)) = CanonicalAuth(VclAuth(a, credentials2))
    BY SameAuth
  <2> QED BY <1>7, <2>1 DEF Map
<1>12. StableSort(RealmBefore, Map(CanonicalAuth, s.auths))
           = StableSort(RealmBefore, Map(CanonicalAuth, t.auths))
  BY <1>11
<1>13. Canonical(s) = Canonical(t)
  BY <1>1, <1>2, <1>8, <1>9, <1>10, <1>12 DEF Canonical
<1> QED BY <1>13 DEF s, t

LEMMA OneGenerated ==
    ASSUME Distinct, NEW c \in Clusters, NEW g \in Generated[c], NEW h \in Generated[c]
    PROVE  g = h
<1>1. PICK rules \in SetToSeqs(c.rules), addresses \in OrdersOf(c.endpoints),
           pods \in SetToSeqs(c.pods), credentials \in OrdersOf(c.secrets) :
           g.spec = Canonical(SpecOf(c, rules, addresses, pods, credentials))
  BY GeneratedIsSpec DEF GeneratedFrom
<1>2. PICK rules2 \in SetToSeqs(c.rules), addresses2 \in OrdersOf(c.endpoints),
           pods2 \in SetToSeqs(c.pods), credentials2 \in OrdersOf(c.secrets) :
           h.spec = Canonical(SpecOf(c, rules2, addresses2, pods2, credentials2))
  BY GeneratedIsSpec DEF GeneratedFrom
<1>3. g.spec = h.spec
  BY <1>1, <1>2, OneSpec
<1>4. /\ g = [spec |-> g.spec, name |-> DeepHash(g.spec)]
      /\ h = [spec |-> h.spec, name |-> DeepHash(h.spec)]
  BY DEF Generated
<1> QED BY <1>3, <1>4

\* Unless the resources have changed since the last update, another one leaves
\* the instances with the configuration they have, in whatever order listers and
\* maps return the rules, the addresses, the Pods and the credentials
\* (ings2VCLSpec, configAuth, configSharding, Canonical).
THEOREM UpdateKeepsConfig == Distinct => (Spec => ResyncKeepsConfig)
<1> SUFFICES ASSUME Distinct PROVE Spec => ResyncKeepsConfig
  OBVIOUS
<1>1. ConfigsInv /\ [Next]_vars => [label # <<>> /\ label' # label => done' # done]_vars
  <2> SUFFICES ASSUME ConfigsInv, Next, label # <<>>, label' # label, done' = done PROVE FALSE
    BY DEF vars
  <2>1. addOrUpdateIng
    BY DEF Next, Change, syncVcfg, Restart
  <2>2. PICK g \in Generated[res] : Update(g)
    BY <2>1 DEF addOrUpdateIng
  <2>3. done = <<res>> /\ label' = <<g.name>>
    BY <2>1, <2>2 DEF addOrUpdateIng, Update
  <2>4. PICK c \in Clusters : done = <<c>> /\ \E h \in Generated[c] : label = <<h.name>>
    BY DEF ConfigsInv, LabelOfLast
  <2>5. c = res
    BY <2>3, <2>4
  <2>6. PICK h \in Generated[c] : label = <<h.name>>
    BY <2>4
  <2>7. g = h
    BY <2>2, <2>5, <2>6, OneGenerated
  <2> QED BY <2>3, <2>6, <2>7
<1> QED BY <1>1, ConfigsInvariant, PTL DEF Spec, ResyncKeepsConfig
-----------------------------------------------------------------------------
(* Routing.                                                                *)

LEMMA PrefixElements ==
    ASSUME NEW p \in String, NEW u \in String
    PROVE  IsPrefix(p, u) <=> Len(p) <= Len(u) /\ \A k \in 1 .. Len(p) : p[k] = u[k]
<1>1. Len(p) \in Nat /\ Len(u) \in Nat
  BY DEF String
<1>2. ASSUME Len(p) <= Len(u)
      PROVE  SubSeq(p, 1, Len(p)) = SubSeq(u, 1, Len(p)) <=> \A k \in 1 .. Len(p) : p[k] = u[k]
  <2> DEFINE v == SubSeq(p, 1, Len(p))
             w == SubSeq(u, 1, Len(p))
  <2>1. /\ v \in Seq(Nat) /\ Len(v) = Len(p) /\ \A k \in 1 .. Len(p) : v[k] = p[k]
        /\ w \in Seq(Nat) /\ Len(w) = Len(p) /\ \A k \in 1 .. Len(p) : w[k] = u[k]
    BY <1>1, <1>2 DEF String
  <2> HIDE DEF v, w
  <2>2. v = w <=> \A k \in 1 .. Len(p) : v[k] = w[k]
    <3>1. ASSUME \A k \in 1 .. Len(v) : v[k] = w[k] PROVE v = w
      BY <2>1, <3>1, SeqEqual
    <3> QED BY <2>1, <3>1
  <2>3. v = w <=> \A k \in 1 .. Len(p) : p[k] = u[k]
    BY <2>1, <2>2
  <2> QED BY <2>3 DEF v, w
<1> QED BY <1>2 DEF IsPrefix

\* Of two strings that lead a third one, one leads the other, and then it is the
\* same or before it.
LEMMA PrefixesOfOne ==
    ASSUME NEW p \in String, NEW q \in String, NEW u \in String, IsPrefix(p, u), IsPrefix(q, u),
           ~IsPrefix(q, p)
    PROVE  Before(p, q)
<1>1. Len(p) \in Nat /\ Len(q) \in Nat
  BY DEF String
<1>2. Len(p) <= Len(u) /\ \A k \in 1 .. Len(p) : p[k] = u[k]
  BY PrefixElements
<1>3. Len(q) <= Len(u) /\ \A k \in 1 .. Len(q) : q[k] = u[k]
  BY PrefixElements
<1>4. Len(p) < Len(q)
  <2> SUFFICES ASSUME Len(q) <= Len(p) PROVE FALSE
    BY <1>1
  <2>1. \A k \in 1 .. Len(q) : q[k] = p[k]
    BY <1>1, <1>2, <1>3
  <2> QED BY <2>1, PrefixElements
<1>5. \A k \in 1 .. Len(p) : p[k] = q[k]
  BY <1>1, <1>2, <1>3, <1>4
<1>6. Len(p) \in 0 .. Len(p)
  BY <1>1
<1> QED BY <1>4, <1>5, <1>6, BeforeFirst

\* No path rule of a host is behind one for a path that it leads.
ShorterFirst ==
    \A c \in Clusters : \A r \in c.rules : \A m, n \in DOMAIN r.paths :
        m < n => ~IsPrefix(r.paths[n].path, r.paths[m].path)

LEMMA PathsOfRule ==
    ASSUME NEW c \in Clusters, NEW r \in c.rules
    PROVE  DOMAIN r.paths \in SUBSET Nat /\ \A n \in DOMAIN r.paths : r.paths[n].path \in String
<1>1. r.paths \in Seq([path : Seq(Nat), service : DOMAIN c.endpoints])
  BY ResourcesAssumption
<1>2. DOMAIN r.paths \in SUBSET Nat
  BY <1>1
<1>3. ASSUME NEW n \in DOMAIN r.paths PROVE r.paths[n].path \in String
  <2>1. r.paths[n] \in [path : Seq(Nat), service : DOMAIN c.endpoints]
    BY <1>1, ElementType
  <2> QED BY <2>1 DEF String
<1> QED BY <1>2, <1>3

LEMMA LeastMember ==
    ASSUME NEW T \in SUBSET Nat, T # {}
    PROVE  Min(T) \in T /\ \A k \in T : Min(T) <= k
<1>1. PICK n \in T : \A k \in T : n <= k
  BY LeastNumber
<1> QED BY <1>1 DEF Min

LEMMA PrefixOfItself == ASSUME NEW p \in String PROVE IsPrefix(p, p)
<1>1. Len(p) <= Len(p)
  BY DEF String
<1> QED BY <1>1, PrefixElements

\* Then no path is in two rules,
LEMMA OneRuleOfPath ==
    ASSUME ShorterFirst, NEW c \in Clusters, NEW r \in c.rules, NEW n \in DOMAIN r.paths
    PROVE  Max({k \in DOMAIN r.paths : r.paths[k].path = r.paths[n].path}) = n
<1>1. DOMAIN r.paths \in SUBSET Nat /\ \A k \in DOMAIN r.paths : r.paths[k].path \in String
  BY PathsOfRule
<1>2. ASSUME NEW k \in DOMAIN r.paths, r.paths[k].path = r.paths[n].path PROVE k = n
  <2>1. IsPrefix(r.paths[n].path, r.paths[k].path) /\ IsPrefix(r.paths[k].path, r.paths[n].path)
    BY <1>1, <1>2, PrefixOfItself
  <2>2. ~(k < n) /\ ~(n < k)
    BY <2>1 DEF ShorterFirst
  <2> QED BY <1>1, <2>2
<1>3. {k \in DOMAIN r.paths : r.paths[k].path = r.paths[n].path} = {n}
  BY <1>2
<1>4. n \in Nat /\ {n} \in SUBSET (0 .. n) /\ {n} # {}
  BY <1>1
<1>5. Max({n}) = n
  BY <1>4, GreatestNumber
<1> QED BY <1>3, <1>5

\* and the first path rule that leads the URL is the one that the set finds.
LEMMA FirstRuleFound ==
    ASSUME ShorterFirst, NEW c \in Clusters, NEW r \in c.rules, NEW u \in String,
           NEW hits, hits = {p \in {r.paths[n].path : n \in DOMAIN r.paths} : IsPrefix(p, u)},
           NEW first \in DOMAIN r.paths, IsPrefix(r.paths[first].path, u),
           \A n \in DOMAIN r.paths : IsPrefix(r.paths[n].path, u) => first <= n
    PROVE  LeastString(hits) = r.paths[first].path
<1> DEFINE p0 == r.paths[first].path
<1>1. DOMAIN r.paths \in SUBSET Nat /\ \A n \in DOMAIN r.paths : r.paths[n].path \in String
  BY PathsOfRule
<1>2. ASSUME NEW q \in hits, q # p0 PROVE Before(p0, q) /\ ~Before(q, p0)
  <2>1. PICK n \in DOMAIN r.paths : q = r.paths[n].path /\ IsPrefix(q, u)
    OBVIOUS
  <2>2. first <= n /\ n # first
    BY <1>2, <2>1
  <2>3. first < n
    BY <1>1, <2>2
  <2>4. ~IsPrefix(q, p0)
    BY <2>1, <2>3 DEF ShorterFirst
  <2>5. p0 \in String /\ q \in String
    BY <1>1, <2>1
  <2>6. Before(p0, q)
    BY <2>1, <2>4, <2>5, PrefixesOfOne
  <2> QED BY <2>5, <2>6, BeforeAsymmetric
<1>3. p0 \in hits
  OBVIOUS
<1>4. ~Before(p0, p0)
  BY <1>1, BeforeAsymmetric
<1>5. ASSUME NEW q \in hits PROVE ~Before(q, p0)
  BY <1>2, <1>4
<1>6. ASSUME NEW p \in hits, \A q \in hits : ~Before(q, p) PROVE p = p0
  BY <1>2, <1>3, <1>6
<1> HIDE DEF p0
<1>7. LeastString(hits) = p0
  BY <1>3, <1>5, <1>6 DEF LeastString
<1> QED BY <1>7 DEF p0

\* The elements of a list are those of the sorted one, and each is in one place.
LEMMA SortedList ==
    ASSUME NEW C, NEW s, IsListOf(s, C),
           NEW key \in [C -> String], \A a, b \in C : key[a] = key[b] => a = b,
           NEW less, less = {p \in C \X C : Before(key[p[1]], key[p[2]])}
    PROVE  LET t == InsertionSorted(less, s)
           IN  t \in Seq(C) /\ Range(t) = C /\ \A m, n \in DOMAIN t : t[m] = t[n] => m = n
<1> DEFINE t == InsertionSorted(less, s)
<1>1. Orders(less, C)
  BY KeysOrder
<1>2. t \in Seq(C) /\ Range(t) = C /\ Ordered(less, t)
  BY <1>1, InsertionSortedOrdered DEF IsListOf
<1> HIDE DEF t
<1>3. Len(t) \in Nat /\ DOMAIN t = 1 .. Len(t)
  BY <1>2
<1>4. ASSUME NEW m \in DOMAIN t, NEW n \in DOMAIN t, t[m] = t[n], m < n PROVE FALSE
  <2>1. <<t[m], t[n]>> \in less
    BY <1>2, <1>4 DEF Ordered
  <2>2. t[m] \in C /\ t[n] \in C
    BY <1>2, ElementType
  <2>3. Before(key[t[m]], key[t[n]]) /\ key[t[m]] = key[t[n]] /\ key[t[m]] \in String
    BY <1>4, <2>1, <2>2
  <2> QED BY <2>3, BeforeAsymmetric
<1>5. ASSUME NEW m \in DOMAIN t, NEW n \in DOMAIN t, t[m] = t[n] PROVE m = n
  BY <1>3, <1>4, <1>5
<1> QED BY <1>2, <1>5 DEF t

LEMMA BackendAddresses ==
    ASSUME NEW c \in Clusters, NEW a \in OrdersOf(c.endpoints), NEW s \in DOMAIN c.endpoints
    PROVE  Range(ByAddress(VclService(s, a)).addresses) = c.endpoints[s]
<1> DEFINE C == c.endpoints[s]
           key == [x \in C |-> x.ip]
           less == {p \in C \X C : Before(key[p[1]], key[p[2]])}
           sorted == StableSort(AddressBefore, a[s])
<1>1. IsListOf(a[s], C)
  <2>1. \A k \in DOMAIN c.endpoints : IsFiniteSet(c.endpoints[k])
    BY ResourcesAssumption
  <2> QED BY <2>1, OrderIsList
<1>2. C \in SUBSET [ip : String, port : Nat] /\ \A p, q \in C : p.port = q.port
  BY ResourcesAssumption DEF String
<1>3. key \in [C -> String] /\ \A p, q \in C : key[p] = key[q] => p = q
  <2> HIDE DEF C
  <2> QED BY <1>2
<1>4. sorted = InsertionSorted(less, a[s])
  <2>1. \A p \in C \X C : AddressBefore(p[1], p[2]) <=> Before(key[p[1]], key[p[2]])
    <3> TAKE p \in C \X C
    <3>1. p[1].port = p[2].port /\ p[1].port \in Nat
      BY <1>2
    <3>2. ~(p[1].port < p[2].port)
      BY <3>1
    <3> QED BY <3>2 DEF AddressBefore
  <2>2. less = {p \in C \X C : AddressBefore(p[1], p[2])}
    BY <2>1
  <2> HIDE DEF less, key, C
  <2> QED BY <1>1, <2>2 DEF StableSort, IsListOf
<1>5. Range(InsertionSorted(less, a[s])) = C
  <2> HIDE DEF C, key, less
  <2> QED BY <1>1, <1>3, SortedList DEF less
<1> HIDE DEF sorted
<1>6. ByAddress(VclService(s, a)) = [VclService(s, a) EXCEPT !.addresses = sorted]
  BY DEF sorted, ByAddress, VclService, NoService
<1>7. ByAddress(VclService(s, a)).addresses = sorted
  BY <1>6 DEF VclService, NoService
<1> QED BY <1>4, <1>5, <1>7

RulesByHost(rules) == StableSort(HostBefore, Map(CanonicalRule, rules))

EachOnce(rules, c, addresses) ==
    /\ \A r \in c.rules : \E n \in DOMAIN rules : rules[n] = CanonicalRule(VclRule(r, addresses))
    /\ \A n \in DOMAIN rules : \E r \in c.rules : rules[n] = CanonicalRule(VclRule(r, addresses))
    /\ \A m, n \in DOMAIN rules : rules[m].host = rules[n].host => m = n
    /\ DOMAIN rules \in SUBSET Nat

\* The canonical rules are those of the Ingresses, each of them once.
LEMMA RulesOfSpec ==
    ASSUME Distinct, NEW c \in Clusters, NEW a \in OrdersOf(c.endpoints), NEW s \in SetToSeqs(c.rules),
           NEW x, x = [n \in DOMAIN s |-> VclRule(s[n], a)],
           NEW rules, rules = RulesByHost(x)
    PROVE  EachOnce(rules, c, a)
<1> DEFINE f == [r \in c.rules |-> CanonicalRule(VclRule(r, a))]
           u == [n \in DOMAIN s |-> f[s[n]]]
           C == Range(f)
           key == [o \in C |-> o.host]
           less == {p \in C \X C : Before(key[p[1]], key[p[2]])}
<1>1. IsListOf(s, c.rules)
  <2>1. IsFiniteSet(c.rules)
    BY ResourcesAssumption
  <2> QED BY <2>1, ListOfSet
<1>2. \A r \in c.rules : f[r].host = r.host /\ r.host \in String
  <2> TAKE r \in c.rules
  <2>1. r.host \in String
    BY ResourcesAssumption DEF String
  <2>2. CanonicalRule(VclRule(r, a)).host = r.host
    BY SameRule
  <2> QED BY <2>1, <2>2
<1>3. Map(CanonicalRule, x) = u
  <2>1. \A n \in DOMAIN s : s[n] \in c.rules
    BY <1>1 DEF IsListOf
  <2> QED BY <2>1 DEF Map
<1>4. DOMAIN f = c.rules /\ \A r \in c.rules : f[r] = CanonicalRule(VclRule(r, a))
  OBVIOUS
<1> HIDE DEF f
<1>5. \A q, r \in c.rules : f[q] = f[r] => q = r
  BY <1>2 DEF Distinct
<1>6. \A o, p \in C : o.host \in String /\ (o.host = p.host => o = p)
  <2> TAKE o, p \in C
  <2>1. PICK q \in c.rules : o = f[q]
    BY <1>4 DEF Range
  <2>2. PICK r \in c.rules : p = f[r]
    BY <1>4 DEF Range
  <2> QED BY <1>2, <2>1, <2>2 DEF Distinct
<1>7. IsListOf(u, C)
  BY <1>1, <1>4, <1>5, MappedList
<1> HIDE DEF u
<1>8. key \in [C -> String] /\ \A o, p \in C : key[o] = key[p] => o = p
  <2> HIDE DEF C
  <2> QED BY <1>6
<1>9. rules = InsertionSorted(less, u)
  <2>1. less = {p \in C \X C : HostBefore(p[1], p[2])}
    <3> HIDE DEF C
    <3> QED BY DEF HostBefore
  <2> HIDE DEF less, key
  <2> QED BY <1>3, <1>7, <2>1 DEF RulesByHost, StableSort, IsListOf
<1>10. rules \in Seq(C) /\ Range(rules) = C /\ \A m, n \in DOMAIN rules : rules[m] = rules[n] => m = n
  <2>1. less = {p \in C \X C : Before(key[p[1]], key[p[2]])}
    OBVIOUS
  <2> HIDE DEF C, key, less
  <2> DEFINE sorted == InsertionSorted(less, u)
  <2>2. sorted \in Seq(C) /\ Range(sorted) = C
    BY <1>7, <1>8, <2>1, SortedList
  <2>3. \A m, n \in DOMAIN sorted : sorted[m] = sorted[n] => m = n
    BY <1>7, <1>8, <2>1, SortedList
  <2> QED BY <1>9, <2>2, <2>3
<1>11. ASSUME NEW r \in c.rules PROVE \E n \in DOMAIN rules : rules[n] = CanonicalRule(VclRule(r, a))
  <2>1. f[r] \in C
    BY <1>4 DEF Range
  <2> HIDE DEF C
  <2>2. PICK n \in DOMAIN rules : rules[n] = f[r]
    BY <1>10, <2>1 DEF Range
  <2> QED BY <1>4, <2>2
<1>12. ASSUME NEW n \in DOMAIN rules
       PROVE  rules[n] \in C /\ \E r \in c.rules : rules[n] = CanonicalRule(VclRule(r, a))
  <2>1. rules[n] \in C
    BY <1>10, ElementType
  <2>2. PICK r \in c.rules : rules[n] = f[r]
    BY <1>4, <2>1 DEF Range
  <2> QED BY <1>4, <2>1, <2>2
<1>13. ASSUME NEW m \in DOMAIN rules, NEW n \in DOMAIN rules, rules[m].host = rules[n].host PROVE m = n
  <2>1. rules[m] = rules[n]
    BY <1>6, <1>12, <1>13
  <2> QED BY <1>10, <2>1
<1>14. DOMAIN rules \in SUBSET Nat
  <2> HIDE DEF C
  <2> QED BY <1>10
<1> QED BY <1>11, <1>12, <1>13, <1>14 DEF EachOnce
LEMMA LeastOfOne == ASSUME NEW n \in Nat PROVE Min({n}) = n
BY DEF Min

LEMMA RulesPart ==
    ASSUME NEW c \in Clusters, NEW rules, NEW addresses, NEW pods, NEW credentials,
           NEW spec, spec = Canonical(SpecOf(c, rules, addresses, pods, credentials)),
           NEW x, x = [n \in DOMAIN rules |-> VclRule(rules[n], addresses)]
    PROVE  spec.rules = RulesByHost(x)
<1> DEFINE t == SpecOf(c, rules, addresses, pods, credentials)
<1>1. t.rules = x
  BY DEF SpecOf, Map
<1> HIDE DEF t
<1>2. spec = Canonical(t)
  BY DEF t
<1>3. spec.rules = RulesByHost(t.rules)
  BY <1>2 DEF Canonical, RulesByHost
<1> QED BY <1>1, <1>3

LEMMA ServicesPart ==
    ASSUME NEW c \in Clusters, NEW rules, NEW addresses \in OrdersOf(c.endpoints), NEW pods, NEW credentials,
           NEW spec, spec = Canonical(SpecOf(c, rules, addresses, pods, credentials)),
           NEW s \in UsedServices(c)
    PROVE  Range(spec.services[s].addresses) = c.endpoints[s]
<1> DEFINE t == SpecOf(c, rules, addresses, pods, credentials)
<1>1. t.services = [k \in UsedServices(c) |-> VclService(k, addresses)]
  BY DEF SpecOf
<1> HIDE DEF t
<1>2. spec = Canonical(t)
  BY DEF t
<1>3. spec.services = Map(ByAddress, t.services)
  BY <1>2 DEF Canonical
<1>4. spec.services[s] = ByAddress(VclService(s, addresses))
  BY <1>1, <1>3 DEF Map
<1>5. s \in DOMAIN c.endpoints
  BY ResourcesAssumption
<1> QED BY <1>4, <1>5, BackendAddresses

LEMMA DefaultPart ==
    ASSUME NEW c \in Clusters, NEW rules, NEW addresses, NEW pods, NEW credentials,
           NEW spec, spec = Canonical(SpecOf(c, rules, addresses, pods, credentials))
    PROVE  spec.default.name = c.default
<1> DEFINE t == SpecOf(c, rules, addresses, pods, credentials)
<1>1. t.default.name = c.default
  <2>1. CASE c.default = <<>>
    <3>1. t.default = NoService
      BY <2>1 DEF SpecOf
    <3> QED BY <2>1, <3>1 DEF NoService
  <2>2. CASE c.default # <<>>
    <3>1. t.default = VclService(c.default, addresses)
      BY <2>2 DEF SpecOf
    <3> QED BY <3>1 DEF VclService, NoService
  <2> QED BY <2>1, <2>2
<1> HIDE DEF t
<1>2. spec = Canonical(t)
  BY DEF t
<1> QED BY <1>1, <1>2 DEF Canonical, NoService

LEMMA UsedByPath ==
    ASSUME NEW c, NEW q \in c.rules, NEW k \in DOMAIN q.paths
    PROVE  q.paths[k].service \in UsedServices(c)
<1> DEFINE byPath == UNION {{r.paths[n].service : n \in DOMAIN r.paths} : r \in c.rules}
           byDefault == {c.default} \ {<<>>}
<1>1. q.paths[k].service \in {q.paths[n].service : n \in DOMAIN q.paths}
  OBVIOUS
<1>2. q.paths[k].service \in byPath
  BY <1>1
<1>3. UsedServices(c) = byDefault \cup byPath
  BY DEF UsedServices
<1> HIDE DEF byPath, byDefault
<1> QED BY <1>2, <1>3

LEMMA UsedByDefault ==
    ASSUME NEW c, c.default # <<>> PROVE c.default \in UsedServices(c)
<1> DEFINE byPath == UNION {{r.paths[n].service : n \in DOMAIN r.paths} : r \in c.rules}
           byDefault == {c.default} \ {<<>>}
<1>1. c.default \in byDefault
  OBVIOUS
<1>2. UsedServices(c) = byDefault \cup byPath
  BY DEF UsedServices
<1> HIDE DEF byPath, byDefault
<1> QED BY <1>1, <1>2

LEMMA AtMostOne == ASSUME NEW S, \A m, n \in S : m = n PROVE ~(Cardinality(S) > 1)
<1>1. CASE S = {}
  <2>1. Cardinality(S) = 0
    BY <1>1, FS_EmptySet
  <2> QED BY <2>1
<1>2. CASE S # {}
  <2>1. PICK n : S = {n}
    BY <1>2
  <2>2. Cardinality({n}) = 1
    BY FS_Singleton
  <2>3. Cardinality(S) = 1
    BY <2>1, <2>2
  <2> QED BY <2>3
<1> QED BY <1>1, <1>2

\* What a canonical rule does with a URL is what the documentation says.
LEMMA RuleLeads ==
    ASSUME NEW q, NEW u, NEW addresses, NEW rule, rule = CanonicalRule(VclRule(q, addresses))
    PROVE  {p \in DOMAIN rule.paths : IsPrefix(p, u)}
               = {p \in {q.paths[n].path : n \in DOMAIN q.paths} : IsPrefix(p, u)}
<1> DEFINE names == {q.paths[n].path : n \in DOMAIN q.paths}
           service(p) == q.paths[Max({n \in DOMAIN q.paths : q.paths[n].path = p})].service
<1>1. rule = [host |-> q.host, paths |-> [p \in names |-> ByAddress(VclService(service(p), addresses))]]
  BY RuleShape
<1> HIDE DEF names, service
<1>2. DOMAIN rule.paths = names
  BY <1>1
<1> QED BY <1>2 DEF names

LEMMA RuleRouted ==
    ASSUME ShorterFirst, NEW c \in Clusters, NEW addresses, NEW q \in c.rules, NEW u \in String,
           NEW rule, rule = CanonicalRule(VclRule(q, addresses)),
           NEW hits, hits = {p \in {q.paths[n].path : n \in DOMAIN q.paths} : IsPrefix(p, u)},
           NEW first \in DOMAIN q.paths, IsPrefix(q.paths[first].path, u),
           \A n \in DOMAIN q.paths : IsPrefix(q.paths[n].path, u) => first <= n
    PROVE  rule.paths[LeastString(hits)].name = q.paths[first].service
<1> DEFINE names == {q.paths[n].path : n \in DOMAIN q.paths}
           service(p) == q.paths[Max({n \in DOMAIN q.paths : q.paths[n].path = p})].service
           found == LeastString(hits)
<1>1. rule = [host |-> q.host, paths |-> [p \in names |-> ByAddress(VclService(service(p), addresses))]]
  BY RuleShape
<1>2. found = q.paths[first].path
  BY FirstRuleFound
<1> HIDE DEF found
<1>3. found \in names
  BY <1>2
<1>4. service(found) = q.paths[first].service
  <2>1. Max({n \in DOMAIN q.paths : q.paths[n].path = q.paths[first].path}) = first
    BY OneRuleOfPath
  <2> QED BY <1>2, <2>1
<1> HIDE DEF names, service
<1>5. rule.paths[found] = ByAddress(VclService(service(found), addresses))
  BY <1>1, <1>3
<1>6. rule.paths[found].name = service(found)
  BY <1>5 DEF ByAddress, VclService, NoService
<1> QED BY <1>4, <1>6 DEF found

\* What is generated, in whatever order the resources are listed, routes every
\* request to the Service of the first path rule of its host that leads the URL,
\* or else to the default Service, or answers it with 404 if there is none
\* (ings2VCLSpec, Canonical, vk8s_set_backend), provided that no path rule is
\* behind one for a path that it leads.
THEOREM RoutedAsDocumented ==
    ASSUME Distinct, ShorterFirst, NEW c \in Clusters, NEW g \in Generated[c],
           NEW r, Text(r, Url) \in String
    PROVE  IF BackendsOf(r, c) = {} THEN Routed(g.spec, r) = Return(r, <<Synth, 404>>)
           ELSE \E b \in BackendsOf(r, c) : Routed(g.spec, r) = [r EXCEPT !.backend = b]
<1> DEFINE u == Text(r, Url)
           host == Text(r, Host)
           matching(q) == {n \in DOMAIN q.paths : IsPrefix(q.paths[n].path, u)}
           found == {q \in c.rules : q.host = host /\ matching(q) # {}}
           services == {q.paths[Min(matching(q))].service : q \in found}
           To(s) == [r EXCEPT !.backend = {a.ip : a \in c.endpoints[s]}]
           nowhere == Return(r, <<Synth, 404>>)
<1>1. PICK rules \in SetToSeqs(c.rules), addresses \in OrdersOf(c.endpoints),
           pods \in SetToSeqs(c.pods), credentials \in OrdersOf(c.secrets) :
           g.spec = Canonical(SpecOf(c, rules, addresses, pods, credentials))
  BY GeneratedIsSpec DEF GeneratedFrom
<1> DEFINE spec == g.spec
           x == [n \in DOMAIN rules |-> VclRule(rules[n], addresses)]
           hosts == {n \in DOMAIN spec.rules : spec.rules[n].host = host}
<1>2. /\ spec.rules = RulesByHost(x)
      /\ \A s \in UsedServices(c) : Range(spec.services[s].addresses) = c.endpoints[s]
      /\ spec.default.name = c.default
  <2>1. spec = Canonical(SpecOf(c, rules, addresses, pods, credentials))
    BY <1>1
  <2> HIDE DEF spec
  <2>2. spec.rules = RulesByHost(x)
    BY <2>1, RulesPart
  <2>3. \A s \in UsedServices(c) : Range(spec.services[s].addresses) = c.endpoints[s]
    BY <2>1, ServicesPart
  <2>4. spec.default.name = c.default
    BY <2>1, DefaultPart
  <2> QED BY <2>2, <2>3, <2>4
<1> HIDE DEF spec
<1>3. EachOnce(spec.rules, c, addresses)
  <2>1. x = [n \in DOMAIN rules |-> VclRule(rules[n], addresses)]
    OBVIOUS
  <2> HIDE DEF x
  <2> QED BY <1>2, <2>1, RulesOfSpec
<1> HIDE DEF x
<1>4. \A m, n \in hosts : m = n
  BY <1>3 DEF EachOnce
<1>5. BackendsOf(r, c) =
          {{a.ip : a \in c.endpoints[s]} : s \in IF services # {} THEN services ELSE {c.default} \ {<<>>}}
  BY DEF BackendsOf
<1> DEFINE paths == spec.rules[Min(hosts)].paths
           hits == {p \in DOMAIN paths : IsPrefix(p, u)}
           name == IF hosts # {} /\ hits # {}
                   THEN paths[LeastString(hits)].name
                   ELSE spec.default.name
<1>6. Routed(spec, r) =
          IF (hosts # {} /\ hits # {}) \/ name # <<>> THEN ToService(name, spec, r) ELSE nowhere
  <2>1. ~(Cardinality(hosts) > 1)
    BY <1>4, AtMostOne
  <2>2. Routed(spec, r) =
            IF Cardinality(hosts) > 1 THEN Return(r, <<"fail">>)
            ELSE IF hosts # {} /\ hits # {} THEN ToService(paths[LeastString(hits)].name, spec, r)
            ELSE IF spec.default.name # <<>> THEN ToService(spec.default.name, spec, r)
            ELSE nowhere
    BY Zenon DEF Routed
  <2>3. name = IF hosts # {} /\ hits # {} THEN paths[LeastString(hits)].name ELSE spec.default.name
    OBVIOUS
  <2> HIDE DEF hosts, hits, paths, name, nowhere
  <2> QED BY <2>1, <2>2, <2>3
<1> HIDE DEF name, hits, paths, u, host, services, nowhere
<1>7. ASSUME NEW s \in UsedServices(c), name = s, (hosts # {} /\ hits # {}) \/ s # <<>>
      PROVE  Routed(spec, r) = To(s)
  BY <1>2, <1>6, <1>7 DEF ToService
\* The Service by default.
<1>8. ASSUME ~(hosts # {} /\ hits # {}), services = {}
      PROVE  IF BackendsOf(r, c) = {} THEN Routed(spec, r) = nowhere
             ELSE \E b \in BackendsOf(r, c) : Routed(spec, r) = [r EXCEPT !.backend = b]
  <2>1. name = c.default
    BY <1>2, <1>8 DEF name
  <2>2. CASE c.default = <<>>
    <3>1. BackendsOf(r, c) = {}
      BY <1>5, <1>8, <2>2
    <3>2. Routed(spec, r) = nowhere
      BY <1>6, <1>8, <2>1, <2>2
    <3> QED BY <3>1, <3>2
  <2>3. CASE c.default # <<>>
    <3>1. c.default \in UsedServices(c)
      BY <2>3, UsedByDefault
    <3>2. Routed(spec, r) = To(c.default)
      BY <1>7, <2>1, <2>3, <3>1
    <3>3. {a.ip : a \in c.endpoints[c.default]} \in BackendsOf(r, c)
      BY <1>5, <1>8, <2>3
    <3> QED BY <3>2, <3>3
  <2> QED BY <2>2, <2>3
<1>9. CASE \A q \in c.rules : q.host # host
  <2>1. \A n \in DOMAIN spec.rules : \E q \in c.rules : spec.rules[n].host = q.host
    BY <1>3, SameRule DEF EachOnce
  <2>2. hosts = {}
    BY <1>9, <2>1
  <2>3. services = {}
    BY <1>9 DEF services
  <2> QED BY <1>8, <2>2, <2>3 DEF spec, nowhere
<1>10. ASSUME NEW q \in c.rules, q.host = host
       PROVE  IF BackendsOf(r, c) = {} THEN Routed(spec, r) = nowhere
              ELSE \E b \in BackendsOf(r, c) : Routed(spec, r) = [r EXCEPT !.backend = b]
  <2>1. PICK n \in DOMAIN spec.rules : spec.rules[n] = CanonicalRule(VclRule(q, addresses))
    BY <1>3 DEF EachOnce
  <2>2. spec.rules[n].host = host
    BY <1>10, <2>1, SameRule
  <2>3. hosts = {n} /\ n \in Nat
    BY <1>3, <1>4, <2>2 DEF EachOnce
  <2>4. Min(hosts) = n
    BY <2>3, LeastOfOne
  <2>5. paths = spec.rules[n].paths
    BY <2>4 DEF paths
  <2>6. hits = {p \in DOMAIN spec.rules[n].paths : IsPrefix(p, u)}
    BY <2>5 DEF hits
  <2>7. u \in String
    BY DEF u
  <2>8. hits = {p \in {q.paths[k].path : k \in DOMAIN q.paths} : IsPrefix(p, u)}
    BY <2>1, <2>6, RuleLeads
  <2>9. \A o \in c.rules : o.host = host => o = q
    BY <1>10 DEF Distinct
  <2>10. CASE matching(q) = {}
    <3>1. services = {}
      BY <2>9, <2>10 DEF services
    <3>2. hits = {}
      BY <2>8, <2>10
    <3> QED BY <1>8, <3>1, <3>2
  <2>11. CASE matching(q) # {}
    <3> DEFINE first == Min(matching(q))
               s == q.paths[first].service
    <3>1. first \in matching(q) /\ \A k \in matching(q) : first <= k
      <4>1. matching(q) \in SUBSET Nat
        BY PathsOfRule
      <4> HIDE DEF matching
      <4> QED BY <2>11, <4>1, LeastMember
    <3>2. hits # {}
      BY <2>8, <2>11
    <3> HIDE DEF first
    <3>3. spec.rules[n].paths[LeastString(hits)].name = s
      BY <2>1, <2>7, <2>8, <3>1, RuleRouted
    <3>4. name = s
      BY <2>3, <2>5, <3>2, <3>3 DEF name
    <3>5. s \in UsedServices(c)
      BY <3>1, UsedByPath
    <3>6. services = {s}
      <4>1. {o \in c.rules : o.host = host /\ matching(o) # {}} = {q}
        BY <1>10, <2>9, <2>11
      <4> HIDE DEF matching
      <4> QED BY <4>1 DEF services, first
    <3> HIDE DEF s
    <3>7. Routed(spec, r) = To(s)
      BY <1>7, <2>3, <3>2, <3>4, <3>5
    <3>8. {a.ip : a \in c.endpoints[s]} \in BackendsOf(r, c)
      BY <1>5, <3>6
    <3> QED BY <3>7, <3>8
  <2> QED BY <2>10, <2>11
<1> QED BY <1>9, <1>10 DEF spec, nowhere
=============================================================================
