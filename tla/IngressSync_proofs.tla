-------------------------- MODULE IngressSync_proofs --------------------------
(***************************************************************************)
(* Theorems about IngressSync: types, which Ingresses a Varnish Service    *)
(* implements, and that no change of them is missed.                       *)
(***************************************************************************)
EXTENDS IngressSync, SequenceTheorems, TLAPS

-----------------------------------------------------------------------------
(* Sequences of items.                                                     *)

\* Without its head, and without any one of its elements, a sequence of items
\* is a sequence of items; its head and its elements are items.
LEMMA TailOfItems ==
    ASSUME NEW q \in Seq(Items), q # <<>>
    PROVE  Tail(q) \in Seq(Items) /\ Head(q) \in Items
  OBVIOUS

LEMMA RemovedFromItems ==
    ASSUME NEW q \in Seq(Items), NEW n \in DOMAIN q
    PROVE  RemoveAt(q, n) \in Seq(Items) /\ q[n] \in Items
  BY DEF RemoveAt

-----------------------------------------------------------------------------
(* Types.                                                                  *)

\* The parts of TypeOK that one group of steps or another leaves alone.
ClusterOK ==
    /\ ing \in [Ingresses -> Defs \cup {Absent}]
    /\ svcs \subseteq Services
    /\ vcfg \in [Namespaces -> VcfgDefs \cup {Absent}]
QueuesOK ==
    /\ queue \in [Namespaces -> Seq(Items)]
    /\ retries \in [Namespaces -> Seq(Items)]
LocalsOK ==
    /\ step \in [Namespaces -> {"idle", "collect", "update"}]
    /\ hand \in [Namespaces -> Items \cup {Absent}]
    /\ target \in [Namespaces -> Services \cup {Absent}]
    /\ collected \in [Namespaces -> Configs \cup {NotReady, Absent}]
    /\ \A ns \in Namespaces :
        /\ step[ns] # "idle" => hand[ns] \in Items /\ target[ns] \in Services
        /\ step[ns] = "update" => collected[ns] \in Configs \cup {NotReady}
VarnishOK ==
    /\ config \in [Services -> Configs \cup {NotReady, Absent}]
    /\ endpoints \subseteq Services
BoundsOK ==
    /\ up \in BOOLEAN
    /\ changes \in 0 .. MaxChanges
    /\ faults \in 0 .. MaxFaults

LEMMA TypeParts ==
    TypeOK <=> ClusterOK /\ QueuesOK /\ LocalsOK /\ VarnishOK /\ BoundsOK
  BY DEF TypeOK, ClusterOK, QueuesOK, LocalsOK, VarnishOK, BoundsOK

\* The items that the changes and the handlers make.
LEMMA ItemTypes ==
    /\ \A i \in Ingresses : [kind |-> "ing", key |-> i] \in Items
    /\ \A i \in Ingresses, def \in Defs :
        [kind |-> "ingDeleted", key |-> i, def |-> def] \in Items
    /\ \A s \in Services, k \in {"svc", "svcDeleted"} : [kind |-> k, key |-> s] \in Items
    /\ \A ns \in Namespaces : [kind |-> "vcfg", key |-> ns] \in Items
    /\ \A ns \in Namespaces, def \in VcfgDefs :
        [kind |-> "vcfgDeleted", key |-> ns, def |-> def] \in Items
    /\ \A item \in Items :
        /\ item.kind = "ing" => item.key \in Ingresses
        /\ item.kind = "ingDeleted" => item.key \in Ingresses /\ item.def \in Defs
        /\ item.kind \in {"svc", "svcDeleted"} => item.key \in Services
        /\ item.kind = "vcfgDeleted" => item.def \in VcfgDefs
  BY DEF Items

\* What a worker puts together is a configuration.
LEMMA CollectedType ==
    ASSUME TypeOK, NEW ns \in Namespaces, NEW s \in Services
    PROVE  LET I == IngsForVarnishSvc(s, ns) IN
           [ings |-> [i \in I |-> ing[i]], vcfg |-> VcfgFor(s, ns)] \in Configs
  <1> DEFINE I == IngsForVarnishSvc(s, ns)
  <1>1. I \subseteq Ingresses /\ \A i \in I : ing[i] \in Defs
    BY DEF IngsForVarnishSvc, VarnishIngresses, TypeOK
  <1>2. [i \in I |-> ing[i]] \in SourcesOf(I)
    BY <1>1 DEF SourcesOf
  <1>3. [i \in I |-> ing[i]] \in Sources
    BY <1>1, <1>2 DEF Sources
  <1>4. VcfgFor(s, ns) \in [ns : Namespaces, def : VcfgDefs] \cup {Absent}
    BY DEF VcfgFor, TypeOK
  <1> QED BY <1>3, <1>4 DEF Configs

\* A change in the cluster is one of the caches and of a queue.
LEMMA ChangedTypes ==
    ASSUME TypeOK, NEW kind, NEW ns \in Namespaces, NEW item \in Items,
           Changed(kind, ns, item), ClusterOK'
    PROVE  TypeOK'
  <1>1. QueuesOK'
    BY DEF TypeOK, Changed, QueuesOK
  <1>2. LocalsOK' /\ VarnishOK'
    BY DEF TypeOK, Changed, LocalsOK, VarnishOK, locals, varnish
  <1>3. BoundsOK'
    BY BoundsAssumption DEF TypeOK, Changed, BoundsOK
  <1> QED BY <1>1, <1>2, <1>3, TypeParts, PTL

LEMMA TypeOfChange ==
    ASSUME TypeOK, Change
    PROVE  TypeOK'
  <1>1. ASSUME NEW i \in Ingresses, NEW def \in Defs,
               CreateIng(i, def) \/ ModifyIng(i, def) \/ MoveIng(i, def)
        PROVE  TypeOK'
    <2>1. PICK kind : Changed(kind, Home[i], [kind |-> "ing", key |-> i])
      BY <1>1 DEF CreateIng, ModifyIng, MoveIng
    <2>2. ClusterOK'
      BY <1>1 DEF CreateIng, ModifyIng, MoveIng, TypeOK, ClusterOK
    <2> QED BY <2>1, <2>2, ItemTypes, HomeAssumption, ChangedTypes
  <1>2. ASSUME NEW i \in Ingresses, DeleteIng(i)
        PROVE  TypeOK'
    <2>1. PICK def \in Defs : def = ing[i]
      BY <1>2 DEF DeleteIng, TypeOK
    <2>2. Changed("ing", Home[i], [kind |-> "ingDeleted", key |-> i, def |-> def])
      BY <1>2, <2>1 DEF DeleteIng
    <2>3. ClusterOK'
      BY <1>2 DEF DeleteIng, TypeOK, ClusterOK
    <2> QED BY <2>2, <2>3, ItemTypes, HomeAssumption, ChangedTypes
  <1>3. ASSUME NEW s \in Services, CreateSvc(s) \/ DeleteSvc(s)
        PROVE  TypeOK'
    <2>1. PICK k \in {"svc", "svcDeleted"} : Changed("svc", s.ns, [kind |-> k, key |-> s])
      BY <1>3 DEF CreateSvc, DeleteSvc
    <2>2. ClusterOK'
      BY <1>3 DEF CreateSvc, DeleteSvc, TypeOK, ClusterOK
    <2>3. s.ns \in Namespaces
      BY ServicesAssumption
    <2> QED BY <2>1, <2>2, <2>3, ItemTypes, ChangedTypes
  <1>4. ASSUME NEW ns \in Namespaces, NEW def \in VcfgDefs,
               SetVcfg(ns, def) \/ MoveVcfg(ns, def)
        PROVE  TypeOK'
    <2>1. PICK kind : Changed(kind, ns, [kind |-> "vcfg", key |-> ns])
      BY <1>4 DEF SetVcfg, MoveVcfg
    <2>2. ClusterOK'
      BY <1>4 DEF SetVcfg, MoveVcfg, TypeOK, ClusterOK
    <2> QED BY <2>1, <2>2, ItemTypes, ChangedTypes
  <1>5. ASSUME NEW ns \in Namespaces, DeleteVcfg(ns)
        PROVE  TypeOK'
    <2>1. PICK def \in VcfgDefs : def = vcfg[ns]
      BY <1>5 DEF DeleteVcfg, TypeOK
    <2>2. Changed("vcfg", ns, [kind |-> "vcfgDeleted", key |-> ns, def |-> def])
      BY <1>5, <2>1 DEF DeleteVcfg
    <2>3. ClusterOK'
      BY <1>5 DEF DeleteVcfg, TypeOK, ClusterOK
    <2> QED BY <2>2, <2>3, ItemTypes, ChangedTypes
  <1> QED BY <1>1, <1>2, <1>3, <1>4, <1>5 DEF Change

\* The outcomes of a step with an item.
LEMMA TakenTypes ==
    ASSUME TypeOK, NEW ns \in Namespaces, queue[ns] # <<>>
    PROVE  /\ Head(queue[ns]) \in Items
           /\ Synced(ns) \/ Failed(ns) => QueuesOK' /\ LocalsOK'
           /\ \A def : AddOrUpdateIng(ns, def) => QueuesOK' /\ LocalsOK'
           /\ \A def : EnqueueIngsForVcfg(ns, def) => QueuesOK' /\ LocalsOK'
  <1>1. PICK q \in Seq(Items) : q = queue[ns]
    BY DEF TypeOK
  <1>2. Tail(q) \in Seq(Items) /\ Head(q) \in Items
    BY <1>1, TailOfItems
  <1>3. Synced(ns) => QueuesOK' /\ LocalsOK'
    BY <1>1, <1>2 DEF Synced, TypeOK, QueuesOK, LocalsOK, locals
  <1>4. Failed(ns) => QueuesOK' /\ LocalsOK'
    BY <1>1, <1>2 DEF Failed, TypeOK, QueuesOK, LocalsOK, locals
  <1>5. ASSUME NEW def, AddOrUpdateIng(ns, def)
        PROVE  QueuesOK' /\ LocalsOK'
    <2>1. CASE Failed(ns)
      BY <2>1, <1>4
    <2>2. CASE ~Failed(ns)
      <3>1. PICK s \in VarnishSvcForIng(ns, def) :
                /\ queue' = [queue EXCEPT ![ns] = Tail(@)]
                /\ hand' = [hand EXCEPT ![ns] = Head(queue[ns])]
                /\ target' = [target EXCEPT ![ns] = s]
                /\ step' = [step EXCEPT ![ns] = "collect"]
                /\ UNCHANGED <<retries, collected>>
        BY <1>5, <2>2 DEF AddOrUpdateIng
      <3>2. s \in Services
        BY <3>1 DEF VarnishSvcForIng, TypeOK
      <3>3. QueuesOK'
        BY <3>1, <1>1, <1>2 DEF TypeOK, QueuesOK
      <3>4. LocalsOK'
        BY <3>1, <3>2, <1>1, <1>2 DEF TypeOK, LocalsOK
      <3> QED BY <3>3, <3>4
    <2> QED BY <2>1, <2>2
  <1>6. ASSUME NEW def, EnqueueIngsForVcfg(ns, def)
        PROVE  QueuesOK' /\ LocalsOK'
    <2>1. CASE Failed(ns) \/ Synced(ns)
      BY <2>1, <1>3, <1>4
    <2>2. CASE ~Failed(ns) /\ ~Synced(ns)
      <3>1. PICK i \in Ingresses :
                /\ queue' = [queue EXCEPT ![ns] = Append(Tail(@), [kind |-> "ing", key |-> i])]
                /\ UNCHANGED <<retries, locals>>
        BY <1>6, <2>2 DEF EnqueueIngsForVcfg, VarnishIngresses
      <3>2. PICK item \in Items : item = [kind |-> "ing", key |-> i]
        BY ItemTypes
      <3>3. Append(Tail(q), item) \in Seq(Items)
        BY <1>2
      <3>4. QueuesOK'
        BY <3>1, <3>2, <3>3, <1>1 DEF TypeOK, QueuesOK
      <3>5. LocalsOK'
        BY <3>1 DEF TypeOK, LocalsOK, locals
      <3> QED BY <3>4, <3>5
    <2> QED BY <2>1, <2>2
  <1> QED BY <1>1, <1>2, <1>3, <1>4, <1>5, <1>6

LEMMA TypeOfWorker ==
    ASSUME TypeOK, NEW ns \in Namespaces, Worker(ns) \/ \E n \in DOMAIN retries[ns] : Retry(ns, n)
    PROVE  TypeOK'
  <1> USE DEF Step
  <1>1. ClusterOK'
    <2>1. UNCHANGED cluster
      BY DEF Worker, SyncIng, SyncIngDeleted, Collect, CollectsNothing, CollectFails,
             CollectPanics, Update, SyncSvc, SyncSvcDeleted, SyncVcfg, SyncVcfgDeleted,
             Retry, Takes
    <2> QED BY <2>1 DEF cluster, TypeOK, ClusterOK
  <1>2. BoundsOK'
    <2>1. up' \in BOOLEAN /\ UNCHANGED changes /\ (NoFault \/ Fault)
      BY DEF Worker, SyncIng, SyncIngDeleted, Collect, CollectsNothing, CollectFails,
             CollectPanics, Update, SyncSvc, SyncSvcDeleted, SyncVcfg, SyncVcfgDeleted,
             Retry, Takes, NoFault, TypeOK
    <2> QED BY <2>1, BoundsAssumption DEF TypeOK, BoundsOK, Fault, NoFault
  <1>3. CASE SyncIng(ns) \/ SyncIngDeleted(ns)
    <2>1. QueuesOK' /\ LocalsOK'
      BY <1>3, TakenTypes DEF SyncIng, SyncIngDeleted, Takes
    <2>2. VarnishOK'
      BY <1>3 DEF SyncIng, SyncIngDeleted, TypeOK, VarnishOK, varnish
    <2> QED BY <1>1, <1>2, <2>1, <2>2, TypeParts, PTL
  <1>4. CASE Collect(ns)
    <2>1. target[ns] \in Services
      BY <1>4 DEF Collect, TypeOK
    <2>2. PICK c \in Configs \cup {NotReady} : collected' = [collected EXCEPT ![ns] = c]
      BY <1>4, <2>1, CollectedType DEF Collect
    <2>3. QueuesOK' /\ LocalsOK' /\ VarnishOK'
      BY <1>4, <2>2 DEF Collect, TypeOK, QueuesOK, LocalsOK, VarnishOK, queues, varnish
    <2> QED BY <1>1, <1>2, <2>3, TypeParts, PTL
  <1>5. CASE CollectsNothing(ns) \/ CollectFails(ns) \/ CollectPanics(ns) \/ Update(ns)
    <2>1. VarnishOK'
      <3>1. CASE Update(ns)
        <4>1. target[ns] \in Services /\ collected[ns] \in Configs \cup {NotReady}
          BY <3>1 DEF Update, TypeOK
        <4>2. PICK c \in Configs \cup {NotReady, Absent} :
                  config' = [config EXCEPT ![target[ns]] = c] /\ UNCHANGED endpoints
          BY <3>1, <4>1 DEF Update, TypeOK
        <4> QED BY <4>1, <4>2 DEF TypeOK, VarnishOK
      <3>2. CASE ~Update(ns)
        BY <1>5, <3>2 DEF CollectsNothing, CollectFails, CollectPanics, TypeOK, VarnishOK, varnish
      <3> QED BY <3>1, <3>2
    <2>2. CASE CollectPanics(ns)
      <3>1. QueuesOK' /\ LocalsOK'
        BY <2>2 DEF CollectPanics, TypeOK, QueuesOK, LocalsOK, queues, locals
      <3> QED BY <1>1, <1>2, <2>1, <3>1, TypeParts, PTL
    <2>3. CASE ~CollectPanics(ns)
      <3>1. Returns(ns) /\ (UNCHANGED retries \/ ReturnsError(ns)) /\ step[ns] # "idle"
        BY <1>5, <2>3 DEF CollectsNothing, CollectFails, Update, ReturnsNil, ReturnsError
      <3>2. PICK item \in Items : item = hand[ns]
        BY <3>1 DEF TypeOK
      <3>3. QueuesOK'
        <4>1. PICK q \in Seq(Items) : q = retries[ns]
          BY DEF TypeOK
        <4>2. Append(q, item) \in Seq(Items)
          OBVIOUS
        <4>3. retries' = retries \/ retries' = [retries EXCEPT ![ns] = Append(q, item)]
          BY <3>1, <3>2, <4>1 DEF ReturnsError
        <4>4. queue' = queue
          BY <3>1 DEF Returns
        <4> QED BY <4>2, <4>3, <4>4 DEF TypeOK, QueuesOK
      <3>4. LocalsOK'
        BY <3>1 DEF Returns, TypeOK, LocalsOK
      <3> QED BY <1>1, <1>2, <2>1, <3>3, <3>4, TypeParts, PTL
    <2> QED BY <2>2, <2>3
  <1>6. CASE SyncSvc(ns) \/ SyncSvcDeleted(ns)
    <2>1. QueuesOK' /\ LocalsOK'
      BY <1>6, TakenTypes DEF SyncSvc, SyncSvcDeleted, Takes
    <2>2. Head(queue[ns]).key \in Services
      BY <1>6, TakenTypes, ItemTypes DEF SyncSvc, SyncSvcDeleted, Takes
    <2>3. VarnishOK'
      <3>1. CASE UNCHANGED varnish
        BY <3>1 DEF TypeOK, VarnishOK, varnish
      <3>2. CASE ~UNCHANGED varnish
        <4>1. PICK s \in Services : s = Head(queue[ns]).key
          BY <2>2
        <4>2. \E c \in Configs \cup {NotReady, Absent} : config' = [config EXCEPT ![s] = c]
          BY <1>6, <3>2, <4>1 DEF SyncSvc, SyncSvcDeleted, TypeOK
        <4>3. endpoints' \subseteq Services
          BY <1>6, <3>2, <4>1 DEF SyncSvc, SyncSvcDeleted, TypeOK
        <4> QED BY <4>2, <4>3 DEF TypeOK, VarnishOK
      <3> QED BY <3>1, <3>2
    <2> QED BY <1>1, <1>2, <2>1, <2>3, TypeParts, PTL
  <1>7. CASE SyncVcfg(ns) \/ SyncVcfgDeleted(ns)
    <2>1. QueuesOK' /\ LocalsOK'
      BY <1>7, TakenTypes DEF SyncVcfg, SyncVcfgDeleted, Takes
    <2>2. VarnishOK'
      BY <1>7 DEF SyncVcfg, SyncVcfgDeleted, TypeOK, VarnishOK, varnish
    <2> QED BY <1>1, <1>2, <2>1, <2>2, TypeParts, PTL
  <1>8. ASSUME NEW n \in DOMAIN retries[ns], Retry(ns, n)
        PROVE  TypeOK'
    <2>1. PICK q \in Seq(Items) : q = retries[ns]
      BY DEF TypeOK
    <2>2. RemoveAt(q, n) \in Seq(Items) /\ q[n] \in Items
      BY <2>1, RemovedFromItems
    <2>3. QueuesOK'
      BY <1>8, <2>1, <2>2 DEF Retry, TypeOK, QueuesOK
    <2>4. LocalsOK' /\ VarnishOK'
      BY <1>8 DEF Retry, TypeOK, LocalsOK, VarnishOK, locals, varnish
    <2> QED BY <1>1, <1>2, <2>3, <2>4, TypeParts, PTL
  <1> QED BY <1>3, <1>4, <1>5, <1>6, <1>7, <1>8 DEF Worker

\* Every variable keeps its type, whatever changes in the cluster.
THEOREM IngressTypeCorrect == Spec => []TypeOK
  <1>1. Init => TypeOK
    BY BoundsAssumption DEF Init, TypeOK
  <1>2. ASSUME TypeOK, [Next]_vars
        PROVE  TypeOK'
    <2>1. CASE Next
      BY <1>2, <2>1, TypeOfChange, TypeOfWorker DEF Next
    <2>2. CASE UNCHANGED vars
      BY <1>2, <2>2 DEF vars, TypeOK
    <2> QED BY <1>2, <2>1, <2>2
  <1> QED BY <1>1, <1>2, PTL DEF Spec

-----------------------------------------------------------------------------
(* Which Ingresses a Varnish Service implements.                           *)

\* The steps that make a configuration or store one, and the others.
LEMMA ConfigSteps ==
    ASSUME TypeOK, [Next]_vars
    PROVE  \/ \E ns \in Namespaces : Collect(ns) \/ Update(ns)
           \/ /\ \A s \in Services : config'[s] = config[s] \/ ~IsConfig(config'[s])
              /\ \A ns \in Namespaces :
                    step'[ns] = "update" => /\ step[ns] = "update"
                                            /\ target'[ns] = target[ns]
                                            /\ collected'[ns] = collected[ns]
  <1> DEFINE Kept == /\ \A s \in Services : config'[s] = config[s] \/ ~IsConfig(config'[s])
                     /\ \A ns \in Namespaces :
                           step'[ns] = "update" => /\ step[ns] = "update"
                                                   /\ target'[ns] = target[ns]
                                                   /\ collected'[ns] = collected[ns]
  <1>1. ASSUME UNCHANGED <<locals, varnish>>
        PROVE  Kept
    BY <1>1 DEF locals, varnish
  <1>2. ASSUME Change
        PROVE  Kept
    BY <1>2, <1>1 DEF Change, Changed, CreateIng, ModifyIng, MoveIng, DeleteIng, CreateSvc,
         DeleteSvc, SetVcfg, MoveVcfg, DeleteVcfg
  <1>3. ASSUME NEW ns \in Namespaces,
               SyncIng(ns) \/ SyncIngDeleted(ns) \/ SyncVcfg(ns) \/ SyncVcfgDeleted(ns)
        PROVE  Kept
    <2>1. UNCHANGED varnish
      BY <1>3 DEF SyncIng, SyncIngDeleted, SyncVcfg, SyncVcfgDeleted
    <2>2. CASE UNCHANGED locals
      BY <1>1, <2>1, <2>2
    <2>3. CASE ~UNCHANGED locals
      <3>1. PICK def : AddOrUpdateIng(ns, def)
        BY <1>3, <2>3 DEF SyncIng, SyncIngDeleted, SyncVcfg, SyncVcfgDeleted,
             EnqueueIngsForVcfg, Synced, Failed
      <3>2. /\ step' = [step EXCEPT ![ns] = "collect"]
            /\ \E s : target' = [target EXCEPT ![ns] = s]
            /\ UNCHANGED collected
        BY <2>3, <3>1 DEF AddOrUpdateIng, Failed
      <3> QED BY <2>1, <3>2 DEF TypeOK, varnish
    <2> QED BY <2>2, <2>3
  <1>4. ASSUME NEW ns \in Namespaces,
               CollectsNothing(ns) \/ CollectFails(ns) \/ CollectPanics(ns)
        PROVE  Kept
    <2>1. CASE UNCHANGED <<locals, varnish>>
      BY <2>1, <1>1
    <2>2. CASE ~UNCHANGED <<locals, varnish>>
      <3>1. Returns(ns) /\ UNCHANGED varnish
        BY <1>4, <2>2 DEF CollectsNothing, CollectFails, CollectPanics, ReturnsNil, ReturnsError
      <3> QED BY <3>1 DEF Returns, TypeOK, varnish
    <2> QED BY <2>1, <2>2
  <1>5. ASSUME NEW ns \in Namespaces, SyncSvc(ns) \/ SyncSvcDeleted(ns)
        PROVE  Kept
    <2>1. UNCHANGED locals
      BY <1>5 DEF SyncSvc, SyncSvcDeleted, Synced, Failed
    <2>2. CASE UNCHANGED varnish
      BY <1>1, <2>1, <2>2
    <2>3. CASE ~UNCHANGED varnish
      <3>1. PICK s \in Services : s = Head(queue[ns]).key
        BY <1>5, TakenTypes, ItemTypes DEF SyncSvc, SyncSvcDeleted, Takes
      <3>2. PICK c : /\ config' = [config EXCEPT ![s] = c]
                     /\ c = config[s] \/ ~IsConfig(c)
        BY <1>5, <2>3, <3>1 DEF SyncSvc, SyncSvcDeleted, TypeOK, IsConfig
      <3> QED BY <2>1, <3>2 DEF TypeOK, locals
    <2> QED BY <2>2, <2>3
  <1>6. ASSUME NEW ns \in Namespaces, NEW n, Retry(ns, n)
        PROVE  Kept
    BY <1>6, <1>1 DEF Retry
  <1>7. ASSUME UNCHANGED vars
        PROVE  Kept
    BY <1>7, <1>1 DEF vars, locals, varnish
  <1> QED BY <1>2, <1>3, <1>4, <1>5, <1>6, <1>7 DEF Next, Worker

\* What Collect and Update do to configurations.
LEMMA CollectStep ==
    ASSUME TypeOK, NEW ns \in Namespaces, Collect(ns)
    PROVE  /\ UNCHANGED <<config, target>>
           /\ \A m \in Namespaces \ {ns} :
                step'[m] = step[m] /\ collected'[m] = collected[m]
           /\ target[ns] \in Services
           /\ LET I == IngsForVarnishSvc(target[ns], ns) IN
              /\ ~TwoDefaults(I)
              /\ collected'[ns] = IF I = {} THEN NotReady
                     ELSE [ings |-> [i \in I |-> ing[i]], vcfg |-> VcfgFor(target[ns], ns)]
  BY DEF Collect, TypeOK, varnish

LEMMA UpdateStep ==
    ASSUME TypeOK, NEW ns \in Namespaces, Update(ns)
    PROVE  /\ step[ns] = "update" /\ target[ns] \in Services
           /\ \A s \in Services :
                \/ config'[s] = config[s]
                \/ s = target[ns] /\ config'[s] = collected[ns]
           /\ \A m \in Namespaces : step'[m] = "update" =>
                /\ step[m] = "update"
                /\ target'[m] = target[m] /\ collected'[m] = collected[m]
  <1>1. step[ns] = "update" /\ target[ns] \in Services
    BY DEF Update, TypeOK
  <1>2. Returns(ns)
    BY DEF Update, ReturnsNil, ReturnsError
  <1>3. \A s \in Services :
            config'[s] = config[s] \/ (s = target[ns] /\ config'[s] = collected[ns])
    BY <1>1 DEF Update, TypeOK
  <1>4. \A m \in Namespaces : step'[m] = "update" =>
            /\ step[m] = "update"
            /\ target'[m] = target[m] /\ collected'[m] = collected[m]
    BY <1>2 DEF Returns, TypeOK
  <1> QED BY <1>1, <1>3, <1>4

\* A worker's configuration is as good as the ones that are stored.
AddressedInv ==
    /\ OnlyAddressed
    /\ \A ns \in Namespaces : step[ns] = "update" => Addressed(target[ns], collected[ns])

LEMMA AddressedWhenCollected ==
    ASSUME TypeOK, NEW ns \in Namespaces, Collect(ns)
    PROVE  Addressed(target[ns], collected'[ns])
  <1> DEFINE s == target[ns]
             I == IngsForVarnishSvc(s, ns)
             c == [ings |-> [i \in I |-> ing[i]], vcfg |-> VcfgFor(s, ns)]
  <1>1. ~TwoDefaults(I) /\ (collected'[ns] = NotReady \/ collected'[ns] = c)
    BY CollectStep
  <1>2. CASE collected'[ns] = NotReady
    BY <1>2 DEF Addressed, IsConfig
  <1>3. CASE collected'[ns] = c
    <2>1. \A i \in I : i \in Ingresses /\ ing[i].class
      BY DEF IngsForVarnishSvc, VarnishIngresses
    <2>2. \A i \in I : ing[i].svc = NoAnnotation \/ s = Named(ing[i].svc, Home[i])
      BY DEF IngsForVarnishSvc, IsFor
    <2>3. \A i, j \in I : ing[i].backend /\ ing[j].backend => i = j
      BY <1>1 DEF TwoDefaults
    <2>4. c.ings = [i \in I |-> ing[i]]
      OBVIOUS
    <2> QED BY <1>3, <2>1, <2>2, <2>3, <2>4 DEF Addressed
  <1> QED BY <1>1, <1>2, <1>3

\* Whatever changes, a Varnish Service only implements Ingresses of the class
\* that do not name another one, with at most one default backend.
THEOREM AddressedOnly == Spec => []OnlyAddressed
  <1>1. Init => AddressedInv
    BY DEF Init, AddressedInv, OnlyAddressed, Addressed, IsConfig
  <1>2. ASSUME TypeOK, AddressedInv, [Next]_vars
        PROVE  AddressedInv'
    <2>1. ASSUME NEW ns \in Namespaces, Collect(ns)
          PROVE  AddressedInv'
      <3>1. Addressed(target'[ns], collected'[ns])
        BY <1>2, <2>1, CollectStep, AddressedWhenCollected
      <3>2. ASSUME NEW m \in Namespaces \ {ns}, step'[m] = "update"
            PROVE  Addressed(target'[m], collected'[m])
        BY <1>2, <2>1, <3>2, CollectStep DEF AddressedInv
      <3>3. OnlyAddressed'
        <4>1. config' = config
          BY <1>2, <2>1, CollectStep
        <4> QED BY <1>2, <4>1 DEF AddressedInv, OnlyAddressed
      <3> QED BY <3>1, <3>2, <3>3 DEF AddressedInv, Addressed
    <2>2. ASSUME NEW ns \in Namespaces, Update(ns)
          PROVE  AddressedInv'
      BY <1>2, <2>2, UpdateStep DEF AddressedInv, OnlyAddressed, Addressed
    <2>3. CASE ~\E ns \in Namespaces : Collect(ns) \/ Update(ns)
      BY <1>2, <2>3, ConfigSteps DEF AddressedInv, OnlyAddressed, Addressed
    <2> QED BY <2>1, <2>2, <2>3
  <1>3. AddressedInv => OnlyAddressed
    BY DEF AddressedInv
  <1> QED BY <1>1, <1>2, <1>3, IngressTypeCorrect, PTL DEF Spec

-----------------------------------------------------------------------------
(* The rules, where each worker chooses Services of its own namespace.     *)

\* No annotation names a Service of another namespace, and the Varnish
\* Services stay the same.
Local ==
    /\ \A def \in Defs : def.svc \in Annotations => def.svc.ns = NoNamespace
    /\ "svc" \notin Changes

\* A worker's Service is in its namespace, or the only one.
TargetsInv ==
    \A ns \in Namespaces : step[ns] # "idle" =>
        /\ target[ns] \in svcs
        /\ target[ns].ns = ns \/ svcs = {target[ns]}

\* The Service that the rules choose.
LEMMA ChosenService ==
    ASSUME Local, TypeOK, NEW ns \in Namespaces, NEW def \in Defs,
           NEW s \in VarnishSvcForIng(ns, def)
    PROVE  s \in svcs /\ (s.ns = ns \/ svcs = {s})
  <1>1. CASE def.svc = NoAnnotation
    BY <1>1 DEF VarnishSvcForIng, In
  <1>2. CASE def.svc # NoAnnotation
    <2>1. def.svc # Malformed /\ s = Named(def.svc, ns)
      BY <1>2 DEF VarnishSvcForIng
    <2>2. def.svc \in Annotations
      BY <1>2, <2>1, DefsAssumption DEF IngressDefs
    <2>3. s.ns = ns
      BY <2>1, <2>2 DEF Local, Named
    <2> QED BY <2>3 DEF VarnishSvcForIng
  <1> QED BY <1>1, <1>2

\* The two functions of the code agree on it.
LEMMA RulesAgree ==
    ASSUME TypeOK, NEW ns \in Namespaces, NEW s \in svcs, s.ns = ns \/ svcs = {s}
    PROVE  IngsForVarnishSvc(s, ns)
               = {i \in Ingresses : ing[i] # Absent /\ Rule(s, Home[i], ing[i])}
  <1>1. ASSUME NEW i \in Ingresses, ing[i] # Absent
        PROVE  ing[i].class /\ IsFor(s, ns, i) <=> Rule(s, Home[i], ing[i])
    <2>1. CASE ing[i].svc = NoAnnotation
      <3>1. Only(svcs) <=> svcs = {s}
        BY DEF Only
      <3>2. s.ns = ns => (Only(In(ns)) <=> In(ns) = {s})
        BY DEF Only, In
      <3>3. NoAnnotation # Malformed
        BY AnnotationAssumption
      <3> QED BY <2>1, <3>1, <3>2, <3>3 DEF IsFor, Rule
    <2>2. CASE ing[i].svc # NoAnnotation
      BY <2>2 DEF IsFor, Rule
    <2> QED BY <2>1, <2>2
  <1> QED BY <1>1 DEF IngsForVarnishSvc, VarnishIngresses

\* Varnish Services do not come or go.
LEMMA SvcsStay ==
    ASSUME Local, [Next]_vars
    PROVE  UNCHANGED svcs
  <1>1. CASE Change
    BY <1>1 DEF Local, Change, Changed, CreateIng, ModifyIng, MoveIng, DeleteIng,
         CreateSvc, DeleteSvc, SetVcfg, MoveVcfg, DeleteVcfg
  <1>2. ASSUME NEW ns \in Namespaces, Worker(ns) \/ \E n : Retry(ns, n)
        PROVE  UNCHANGED svcs
    BY <1>2 DEF Worker, SyncIng, SyncIngDeleted, Collect, CollectsNothing, CollectFails,
         CollectPanics, Update, SyncSvc, SyncSvcDeleted, SyncVcfg, SyncVcfgDeleted,
         Retry, Takes, Step, cluster
  <1> QED BY <1>1, <1>2 DEF Next, vars

LEMMA TargetsInvariant ==
    ASSUME Local
    PROVE  Spec => []TargetsInv
  <1>1. Init => TargetsInv
    BY DEF Init, TargetsInv
  <1>2. ASSUME TypeOK, TargetsInv, [Next]_vars
        PROVE  TargetsInv'
    <2>1. UNCHANGED svcs
      BY <1>2, SvcsStay
    <2>2. CASE UNCHANGED <<step, target>>
      BY <1>2, <2>1, <2>2 DEF TargetsInv
    <2>3. ASSUME NEW ns \in Namespaces, SyncIng(ns) \/ SyncIngDeleted(ns), ~UNCHANGED <<step, target>>
          PROVE  TargetsInv'
      <3>1. PICK def \in Defs : AddOrUpdateIng(ns, def) /\ ~Failed(ns)
        <4>1. ~Synced(ns) /\ ~Failed(ns)
          BY <2>3 DEF Synced, Failed, locals
        <4>2. Head(queue[ns]).kind = "ing" => Head(queue[ns]).key \in Ingresses
          BY <1>2, <2>3, TakenTypes, ItemTypes DEF SyncIng, SyncIngDeleted, Takes
        <4>3. Head(queue[ns]).kind = "ingDeleted" => Head(queue[ns]).def \in Defs
          BY <1>2, <2>3, TakenTypes, ItemTypes DEF SyncIng, SyncIngDeleted, Takes
        <4> QED BY <1>2, <2>3, <4>1, <4>2, <4>3 DEF SyncIng, SyncIngDeleted, Takes, TypeOK
      <3>2. PICK s \in VarnishSvcForIng(ns, def) :
                /\ target' = [target EXCEPT ![ns] = s]
                /\ step' = [step EXCEPT ![ns] = "collect"]
        BY <3>1 DEF AddOrUpdateIng
      <3>3. s \in svcs /\ (s.ns = ns \/ svcs = {s})
        BY <1>2, <3>2, ChosenService
      <3> QED BY <1>2, <2>1, <3>2, <3>3 DEF TypeOK, TargetsInv
    <2>4. ASSUME NEW ns \in Namespaces, Returns(ns)
          PROVE  TargetsInv'
      BY <1>2, <2>1, <2>4 DEF Returns, TypeOK, TargetsInv
    <2>5. ASSUME NEW ns \in Namespaces, Collect(ns)
          PROVE  TargetsInv'
      BY <1>2, <2>1, <2>5 DEF Collect, TypeOK, TargetsInv
    <2>6. ASSUME NEW ns \in Namespaces, SyncSvc(ns) \/ SyncSvcDeleted(ns) \/ SyncVcfg(ns)
                                        \/ SyncVcfgDeleted(ns) \/ \E n : Retry(ns, n)
          PROVE  UNCHANGED <<step, target>>
      BY <2>6 DEF SyncSvc, SyncSvcDeleted, SyncVcfg, SyncVcfgDeleted, EnqueueIngsForVcfg,
           Retry, Synced, Failed, locals
    <2>7. ASSUME NEW ns \in Namespaces,
                 CollectsNothing(ns) \/ CollectFails(ns) \/ CollectPanics(ns) \/ Update(ns)
          PROVE  Returns(ns) \/ UNCHANGED <<step, target>>
      BY <2>7 DEF CollectsNothing, CollectFails, CollectPanics, Update, ReturnsNil,
           ReturnsError, locals
    <2>8. CASE Change
      BY <2>8, <2>2 DEF Change, Changed, CreateIng, ModifyIng, MoveIng, DeleteIng, CreateSvc,
           DeleteSvc, SetVcfg, MoveVcfg, DeleteVcfg, locals
    <2>9. CASE UNCHANGED vars
      BY <2>9, <2>2 DEF vars
    <2> QED BY <1>2, <2>2, <2>3, <2>4, <2>5, <2>6, <2>7, <2>8, <2>9 DEF Next, Worker
  <1> QED BY <1>1, <1>2, IngressTypeCorrect, PTL DEF Spec

\* Whichever namespace the worker is for, it finds the Ingresses that the rules
\* give to the Service.
THEOREM CollectedByRules ==
    ASSUME Local
    PROVE  Spec => []CollectsAssigned
  <1>1. TypeOK /\ TargetsInv => CollectsAssigned
    <2> SUFFICES ASSUME TypeOK, TargetsInv, NEW ns \in Namespaces, step[ns] = "collect"
                 PROVE  IngsForVarnishSvc(target[ns], ns)
                          = {i \in Ingresses : ing[i] # Absent
                                               /\ Rule(target[ns], Home[i], ing[i])}
      BY DEF CollectsAssigned
    <2>1. target[ns] \in svcs /\ (target[ns].ns = ns \/ svcs = {target[ns]})
      BY DEF TargetsInv
    <2> QED BY <2>1, RulesAgree
  <1> QED BY <1>1, IngressTypeCorrect, TargetsInvariant, PTL

\* The configuration that a worker has made is by the rules.
AssignedInv ==
    /\ OnlyAssigned
    /\ \A ns \in Namespaces : step[ns] = "update" => Assigned(target[ns], collected[ns])

\* No Varnish Service implements an Ingress that the rules do not give to it,
\* however the workers' steps interleave.
THEOREM AssignedOnly ==
    ASSUME Local
    PROVE  Spec => []OnlyAssigned
  <1>1. Init => AssignedInv
    BY DEF Init, AssignedInv, OnlyAssigned, Assigned, IsConfig
  <1>2. ASSUME TypeOK, CollectsAssigned, AssignedInv, [Next]_vars
        PROVE  AssignedInv'
    <2>1. svcs' = svcs
      BY <1>2, SvcsStay
    <2>2. ASSUME /\ \A s \in Services : Assigned(s, config'[s])
                 /\ \A ns \in Namespaces :
                        step'[ns] = "update" => Assigned(target'[ns], collected'[ns])
          PROVE  AssignedInv'
      BY <2>1, <2>2 DEF AssignedInv, OnlyAssigned, Assigned, Rule, In
    <2>3. ASSUME NEW ns \in Namespaces, Collect(ns)
          PROVE  AssignedInv'
      <3> DEFINE s == target[ns]
                 I == IngsForVarnishSvc(s, ns)
                 c == [ings |-> [i \in I |-> ing[i]], vcfg |-> VcfgFor(s, ns)]
      <3>1. collected'[ns] = NotReady \/ collected'[ns] = c
        BY <1>2, <2>3, CollectStep
      <3>2. \A i \in I : i \in Ingresses /\ Rule(s, Home[i], ing[i])
        BY <1>2, <2>3 DEF CollectsAssigned, Collect
      <3>3. Assigned(s, c)
        BY <3>2 DEF Assigned
      <3>4. Assigned(s, NotReady)
        BY DEF Assigned, IsConfig
      <3>5. UNCHANGED <<config, target>> /\ \A m \in Namespaces \ {ns} :
                step'[m] = step[m] /\ collected'[m] = collected[m]
        BY <1>2, <2>3, CollectStep
      <3>6. \A r \in Services : Assigned(r, config'[r])
        BY <1>2, <3>5 DEF AssignedInv, OnlyAssigned
      <3>7. Assigned(target'[ns], collected'[ns])
        BY <3>1, <3>3, <3>4, <3>5
      <3>8. ASSUME NEW m \in Namespaces \ {ns}, step'[m] = "update"
            PROVE  Assigned(target'[m], collected'[m])
        BY <1>2, <3>5, <3>8 DEF AssignedInv
      <3> QED BY <2>2, <3>6, <3>7, <3>8
    <2>4. ASSUME NEW ns \in Namespaces, Update(ns)
          PROVE  AssignedInv'
      <3>1. \A s \in Services : Assigned(s, config'[s])
        BY <1>2, <2>4, UpdateStep DEF AssignedInv, OnlyAssigned
      <3>2. \A m \in Namespaces : step'[m] = "update" => Assigned(target'[m], collected'[m])
        BY <1>2, <2>4, UpdateStep DEF AssignedInv
      <3> QED BY <2>2, <3>1, <3>2
    <2>5. CASE ~\E ns \in Namespaces : Collect(ns) \/ Update(ns)
      <3>1. \A s \in Services : Assigned(s, config'[s])
        BY <1>2, <2>5, ConfigSteps DEF AssignedInv, OnlyAssigned, Assigned
      <3>2. \A m \in Namespaces : step'[m] = "update" => Assigned(target'[m], collected'[m])
        BY <1>2, <2>5, ConfigSteps DEF AssignedInv
      <3> QED BY <2>2, <3>1, <3>2
    <2> QED BY <2>3, <2>4, <2>5
  <1>3. AssignedInv => OnlyAssigned
    BY DEF AssignedInv
  <1> QED BY <1>1, <1>2, <1>3, IngressTypeCorrect, CollectedByRules, PTL DEF Spec

-----------------------------------------------------------------------------
(* That no change is missed, where one worker serves each Varnish Service.  *)

\* Furthermore Ingresses and VarnishConfigs go on naming the same Services, and
\* annotations are well-formed.
Settled ==
    /\ Local
    /\ {"move", "moveVcfg"} \cap Changes = {}
    /\ \A def \in Defs : def.svc # Malformed

\* An only Varnish Service is in the namespace of the Ingresses.
OneWorker == \A s \in Services : svcs = {s} => \A i \in Ingresses : Home[i] = s.ns

\* The Ingresses that a Varnish Service should implement, and what it should be
\* without any.
IngsBy(s) == {i \in Ingresses : ing[i] # Absent /\ Rule(s, Home[i], ing[i])}
SourcesFor(s) == [i \in IngsBy(s) |-> ing[i]]
NotReadyIfNone(c, s) == IngsBy(s) = {} => c = NotReady

\* What waits for a Varnish Service, and the worker that is busy with it.
IngsWait(s) == \E item \in Waiting(s.ns) : BringsIngs(item, s)
VcfgWait(s) == \E item \in Waiting(s.ns) : BringsVcfg(item, s)
Working(s) == step[s.ns] # "idle" /\ target[s.ns] = s

\* The items of a namespace are about its Ingresses and its VarnishConfig.
AtHome(item, ns) ==
    /\ item.kind \in {"ing", "ingDeleted", "vcfg", "vcfgDeleted"}
    /\ item.kind \in {"ing", "ingDeleted"} => Home[item.key] = ns
    /\ item.kind = "vcfg" => item.key = ns
HomeInv ==
    \A ns \in Namespaces :
        /\ \A item \in Waiting(ns) : AtHome(item, ns)
        /\ step[ns] # "idle" => /\ AtHome(hand[ns], ns)
                                /\ target[ns] \in svcs /\ target[ns].ns = ns

\* A configuration that is stored is the right one, unless the worker or an item
\* that waits will see to it.  Items for a VarnishConfig only do so if they find
\* an Ingress to enqueue; so a Service without Ingresses must be right, unless
\* an item for an Ingress waits.
StoredInv ==
    \A s \in svcs : \A c : config[s] = c =>
        /\ NotReadyIfNone(c, s) \/ Working(s) \/ IngsWait(s)
        /\ c = Wanted(s) \/ Working(s) \/ IngsWait(s) \/ VcfgWait(s)

\* So is one that a worker has made; and what a worker has in hand may be added
\* to its queue again.
MadeInv ==
    \A ns \in Namespaces, s \in svcs : step[ns] # "idle" /\ target[ns] = s =>
        /\ \A item : hand[ns] = item => BringsIngs(item, s) \/ IngsWait(s)
        /\ \A c : step[ns] = "update" /\ collected[ns] = c =>
            /\ NotReadyIfNone(c, s) \/ IngsWait(s)
            /\ c = Wanted(s) \/ IngsWait(s) \/ VcfgWait(s)

MissedInv == OneWorker /\ HomeInv /\ StoredInv /\ MadeInv

LEMMA MissedInvImplies ==
    ASSUME TypeOK, MissedInv
    PROVE  NothingMissed
  <1> SUFFICES ASSUME NEW s \in svcs
               PROVE  \/ config[s] = Wanted(s)
                      \/ InProgress(s)
                      \/ \E item \in Waiting(s.ns) : Brings(item, s)
    BY DEF NothingMissed
  <1>1. IngsWait(s) \/ VcfgWait(s) => \E item \in Waiting(s.ns) : Brings(item, s)
    BY DEF IngsWait, VcfgWait, Brings
  <1>2. s.ns \in Namespaces
    BY ServicesAssumption DEF TypeOK
  <1>3. Working(s) => InProgress(s) \/ IngsWait(s) \/ VcfgWait(s)
    BY <1>2 DEF Working, InProgress, MissedInv, MadeInv
  <1> QED BY <1>1, <1>3 DEF MissedInv, StoredInv

\* What a Service should have depends on its Ingresses and its VarnishConfig.
LEMMA WantedSources ==
    ASSUME NEW s
    PROVE  /\ Wanted(s) = IF IngsBy(s) = {} THEN NotReady
                          ELSE [ings |-> SourcesFor(s), vcfg |-> VcfgFor(s, s.ns)]
           /\ DOMAIN SourcesFor(s) = IngsBy(s)
  BY DEF Wanted, IngsBy, SourcesFor

\* What stays right, as long as they stay.
LEMMA WantedStays ==
    ASSUME NEW s, SourcesFor(s)' = SourcesFor(s)
    PROVE  /\ IngsBy(s)' = IngsBy(s)
           /\ \A c : NotReadyIfNone(c, s) => NotReadyIfNone(c, s)'
           /\ VcfgFor(s, s.ns)' = VcfgFor(s, s.ns) => Wanted(s)' = Wanted(s)
           /\ IngsBy(s)' = {} => \A c : NotReadyIfNone(c, s) => c = Wanted(s)'
  <1>1. DOMAIN SourcesFor(s) = IngsBy(s) /\ DOMAIN SourcesFor(s)' = IngsBy(s)'
    BY DEF SourcesFor
  <1>2. IngsBy(s)' = IngsBy(s)
    BY <1>1
  <1>3. \A c : NotReadyIfNone(c, s) => NotReadyIfNone(c, s)'
    BY <1>2 DEF NotReadyIfNone
  <1>4. Wanted(s)' = IF IngsBy(s)' = {} THEN NotReady
                     ELSE [ings |-> SourcesFor(s)', vcfg |-> VcfgFor(s, s.ns)']
    BY DEF Wanted, IngsBy, SourcesFor
  <1> QED BY <1>2, <1>3, <1>4, WantedSources DEF NotReadyIfNone

\* The two halves of the rules agree, as one worker serves each Service.
LEMMA RuleChooses ==
    ASSUME Settled, OneWorker, TypeOK, NEW s \in svcs, NEW i \in Ingresses, NEW def \in Defs
    PROVE  Rule(s, Home[i], def)
             <=> def.class /\ Home[i] = s.ns /\ s \in VarnishSvcForIng(s.ns, def)
  <1>1. s \in Services
    BY DEF TypeOK
  <1>2. def.svc # Malformed
    BY DEF Settled
  <1>3. svcs = {s} => Home[i] = s.ns
    BY <1>1 DEF OneWorker
  <1>4. CASE def.svc = NoAnnotation
    <2>1. Only(svcs) <=> svcs = {s}
      BY DEF Only
    <2> QED BY <1>2, <1>3, <1>4, <2>1 DEF Rule, VarnishSvcForIng
  <1>5. CASE def.svc # NoAnnotation
    <2>1. def.svc \in Annotations
      BY <1>2, <1>5, DefsAssumption DEF IngressDefs
    <2>2. def.svc.ns = NoNamespace
      BY <2>1 DEF Settled, Local
    <2>3. Named(def.svc, Home[i]).ns = Home[i]
      BY <2>2 DEF Named
    <2>4. s = Named(def.svc, Home[i]) <=> Home[i] = s.ns /\ s = Named(def.svc, s.ns)
      BY <2>3
    <2> QED BY <1>2, <1>5, <2>4 DEF Rule, VarnishSvcForIng
  <1> QED BY <1>4, <1>5

\* An item brings the worker to one Service only.
LEMMA ChosenOnce ==
    ASSUME NEW ns, NEW def, NEW s \in VarnishSvcForIng(ns, def), NEW r \in VarnishSvcForIng(ns, def)
    PROVE  r = s
  <1>1. CASE def.svc = NoAnnotation
    <2>1. Only(svcs) => r = s
      BY DEF Only, VarnishSvcForIng
    <2>2. ~Only(svcs) => In(ns) = {s} /\ In(ns) = {r}
      BY <1>1 DEF VarnishSvcForIng, Only
    <2> QED BY <2>1, <2>2
  <1>2. CASE def.svc # NoAnnotation
    BY <1>2 DEF VarnishSvcForIng
  <1> QED BY <1>1, <1>2

\* A step that leaves the workers' variables and the configurations alone keeps
\* the invariant, if whatever it changes or takes away is still waited for.
LEMMA NothingDropped ==
    ASSUME TypeOK, MissedInv, HomeInv', UNCHANGED <<svcs, locals, varnish>>,
           \A s \in svcs :
              /\ SourcesFor(s)' = SourcesFor(s) \/ IngsWait(s)'
              /\ VcfgFor(s, s.ns)' = VcfgFor(s, s.ns) \/ IngsWait(s)' \/ VcfgWait(s)'
              /\ IngsWait(s) => IngsWait(s)'
              /\ VcfgWait(s) => IngsWait(s)' \/ VcfgWait(s)' \/ IngsBy(s)' = {},
           \A ns \in Namespaces, s \in svcs, item \in Items :
              step[ns] # "idle" /\ target[ns] = s /\ hand[ns] = item /\ BringsIngs(item, s)
                => BringsIngs(item, s)' \/ IngsWait(s)'
    PROVE  MissedInv'
  <1>1. ASSUME NEW s \in svcs, NEW c
        PROVE  /\ NotReadyIfNone(c, s) \/ IngsWait(s) => NotReadyIfNone(c, s)' \/ IngsWait(s)'
               /\ (NotReadyIfNone(c, s) \/ IngsWait(s)) /\ (c = Wanted(s) \/ IngsWait(s) \/ VcfgWait(s))
                    => c = Wanted(s)' \/ IngsWait(s)' \/ VcfgWait(s)'
    BY WantedStays
  <1>2. OneWorker'
    BY DEF MissedInv, OneWorker
  <1>3. StoredInv'
    <2> SUFFICES ASSUME NEW s \in svcs, NEW c, config[s] = c
                 PROVE  /\ NotReadyIfNone(c, s)' \/ Working(s)' \/ IngsWait(s)'
                        /\ c = Wanted(s)' \/ Working(s)' \/ IngsWait(s)' \/ VcfgWait(s)'
      BY DEF StoredInv, varnish
    <2>1. Working(s)' <=> Working(s)
      BY DEF Working, locals
    <2> QED BY <1>1, <2>1 DEF MissedInv, StoredInv
  <1>4. MadeInv'
    <2> SUFFICES ASSUME NEW ns \in Namespaces, NEW s \in svcs, step[ns] # "idle", target[ns] = s
                 PROVE  /\ \A item : hand[ns] = item => BringsIngs(item, s)' \/ IngsWait(s)'
                        /\ \A c : step[ns] = "update" /\ collected[ns] = c =>
                            /\ NotReadyIfNone(c, s)' \/ IngsWait(s)'
                            /\ c = Wanted(s)' \/ IngsWait(s)' \/ VcfgWait(s)'
      BY DEF MadeInv, locals
    <2>1. hand[ns] \in Items
      BY DEF TypeOK
    <2> QED BY <1>1, <2>1 DEF MissedInv, MadeInv
  <1> QED BY <1>2, <1>3, <1>4 DEF MissedInv

\* What waits, what is wanted and what an item brings in the next state, as
\* long as the Varnish Services stay.
LEMMA NextOfBrings ==
    ASSUME UNCHANGED svcs, NEW item, NEW s
    PROVE  BringsIngs(item, s)' <=>
             \/ /\ item.kind = "ing"
                /\ ing'[item.key] # Absent /\ ing'[item.key].class
                /\ s \in VarnishSvcForIng(s.ns, ing'[item.key])
             \/ item.kind = "ingDeleted" /\ s \in VarnishSvcForIng(s.ns, item.def)
  BY DEF BringsIngs, VarnishSvcForIng, Only, In

LEMMA NextOfSources ==
    ASSUME UNCHANGED svcs, NEW s
    PROVE  LET I == {i \in Ingresses : ing'[i] # Absent /\ Rule(s, Home[i], ing'[i])} IN
           IngsBy(s)' = I /\ SourcesFor(s)' = [i \in I |-> ing'[i]]
  BY DEF IngsBy, SourcesFor, Rule, In

LEMMA RangesOfItems ==
    ASSUME NEW q \in Seq(Items)
    PROVE  /\ Range(q) \subseteq Items
           /\ \A item \in Items : Range(Append(q, item)) = Range(q) \cup {item}
           /\ q # <<>> => Range(q) = Range(Tail(q)) \cup {Head(q)}
           /\ \A n \in DOMAIN q : Range(q) = Range(RemoveAt(q, n)) \cup {q[n]}
  <1>1. Range(q) \subseteq Items
    <2>1. \A n \in DOMAIN q : q[n] \in Items
      OBVIOUS
    <2> QED BY <2>1 DEF Range
  <1>2. ASSUME NEW item \in Items
        PROVE  Range(Append(q, item)) = Range(q) \cup {item}
    <2>1. DOMAIN Append(q, item) = 1 .. Len(q) + 1 /\ DOMAIN q = 1 .. Len(q)
      OBVIOUS
    <2>2. \A n \in 1 .. Len(q) : Append(q, item)[n] = q[n]
      OBVIOUS
    <2>3. Append(q, item)[Len(q) + 1] = item
      OBVIOUS
    <2>4. ASSUME NEW x \in Range(Append(q, item))
          PROVE  x \in Range(q) \cup {item}
      BY <2>1, <2>2, <2>3 DEF Range
    <2>5. Range(q) \cup {item} \subseteq Range(Append(q, item))
      BY <2>1, <2>2, <2>3 DEF Range
    <2> QED BY <2>4, <2>5
  <1>3. ASSUME q # <<>>
        PROVE  Range(q) = Range(Tail(q)) \cup {Head(q)}
    <2>1. /\ DOMAIN q = 1 .. Len(q) /\ DOMAIN Tail(q) = 1 .. Len(q) - 1
          /\ Len(q) \in Nat \ {0} /\ Head(q) = q[1]
      BY <1>3
    <2>2. \A n \in 1 .. Len(q) - 1 : Tail(q)[n] = q[n + 1]
      BY <1>3
    <2>3. ASSUME NEW n \in DOMAIN q
          PROVE  q[n] \in Range(Tail(q)) \cup {Head(q)}
      <3>1. CASE n = 1
        BY <2>1, <3>1
      <3>2. CASE n # 1
        <4>1. n - 1 \in DOMAIN Tail(q) /\ Tail(q)[n - 1] = q[n]
          BY <2>1, <2>2, <3>2
        <4> QED BY <4>1 DEF Range
      <3> QED BY <3>1, <3>2
    <2>4. ASSUME NEW n \in DOMAIN Tail(q)
          PROVE  Tail(q)[n] \in Range(q)
      <3>1. n + 1 \in DOMAIN q /\ Tail(q)[n] = q[n + 1]
        BY <2>1, <2>2
      <3> QED BY <3>1 DEF Range
    <2>5. Head(q) \in Range(q)
      BY <2>1 DEF Range
    <2> QED BY <2>3, <2>4, <2>5 DEF Range
  <1>4. ASSUME NEW n \in DOMAIN q
        PROVE  Range(q) = Range(RemoveAt(q, n)) \cup {q[n]}
    <2> DEFINE r == RemoveAt(q, n)
             a == SubSeq(q, 1, n - 1)
             b == SubSeq(q, n + 1, Len(q))
    <2>1. /\ Len(q) \in Nat /\ DOMAIN q = 1 .. Len(q) /\ n \in 1 .. Len(q)
          /\ a \in Seq(Items) /\ Len(a) = n - 1 /\ \A m \in 1 .. n - 1 : a[m] = q[m]
          /\ b \in Seq(Items) /\ Len(b) = Len(q) - n
          /\ \A m \in 1 .. Len(q) - n : b[m] = q[m + n]
      OBVIOUS
    <2>2. r = a \o b
      BY DEF RemoveAt
    <2> HIDE DEF a, b, r
    <2>3. /\ DOMAIN r = 1 .. Len(q) - 1
          /\ \A m \in 1 .. Len(q) - 1 : r[m] = IF m < n THEN a[m] ELSE b[m - n + 1]
      <3>1. /\ r \in Seq(Items) /\ Len(r) = Len(a) + Len(b)
            /\ \A m \in 1 .. Len(a) + Len(b) : r[m] = IF m <= Len(a) THEN a[m] ELSE b[m - Len(a)]
        BY <2>1, <2>2, ConcatProperties, Zenon
      <3>2. Len(r) = Len(q) - 1
        BY <2>1, <3>1
      <3>3. DOMAIN r = 1 .. Len(q) - 1
        BY <3>1, <3>2
      <3>4. ASSUME NEW m \in 1 .. Len(q) - 1
            PROVE  r[m] = IF m < n THEN a[m] ELSE b[m - n + 1]
        <4>1. CASE m < n
          <5>1. m \in 1 .. Len(a) + Len(b) /\ m <= Len(a)
            BY <2>1, <4>1
          <5> QED BY <3>1, <4>1, <5>1
        <4>2. CASE ~(m < n)
          <5>1. m \in 1 .. Len(a) + Len(b) /\ ~(m <= Len(a)) /\ m - Len(a) = m - n + 1
            BY <2>1, <4>2
          <5> QED BY <3>1, <4>2, <5>1
        <4> QED BY <4>1, <4>2
      <3> QED BY <3>3, <3>4
    <2>4. ASSUME NEW m \in DOMAIN q, m # n
          PROVE  q[m] \in Range(r)
      <3>1. CASE m < n
        <4>1. m \in 1 .. n - 1 /\ m \in 1 .. Len(q) - 1
          BY <2>1, <3>1
        <4>2. m \in DOMAIN r /\ r[m] = q[m]
          BY <2>1, <2>3, <3>1, <4>1
        <4> QED BY <4>2 DEF Range
      <3>2. CASE m > n
        <4>1. m - 1 \in DOMAIN r /\ r[m - 1] = b[m - n]
          <5>1. m - 1 \in 1 .. Len(q) - 1 /\ ~(m - 1 < n) /\ m - 1 - n + 1 = m - n
            BY <2>1, <3>2
          <5> QED BY <2>3, <5>1
        <4>2. b[m - n] = q[m]
          <5>1. m - n \in 1 .. Len(q) - n /\ m - n + n = m
            BY <2>1, <3>2
          <5> QED BY <2>1, <5>1
        <4> QED BY <4>1, <4>2 DEF Range
      <3> QED BY <2>1, <2>4, <3>1, <3>2
    <2>5. ASSUME NEW m \in DOMAIN r
          PROVE  r[m] \in Range(q)
      <3>1. CASE m < n
        BY <2>1, <2>3, <3>1 DEF Range
      <3>2. CASE m >= n
        <4>1. m + 1 \in DOMAIN q /\ r[m] = b[m - n + 1]
          BY <2>1, <2>3, <3>2
        <4>2. b[m - n + 1] = q[m + 1]
          BY <2>1, <2>3, <3>2
        <4> QED BY <4>1, <4>2 DEF Range
      <3> QED BY <2>1, <2>3, <3>1, <3>2
    <2> QED BY <2>1, <2>4, <2>5 DEF Range, r
  <1> QED BY <1>1, <1>2, <1>3, <1>4

LEMMA WaitingItems ==
    ASSUME TypeOK, NEW ns \in Namespaces
    PROVE  Waiting(ns) \subseteq Items
  <1>1. queue[ns] \in Seq(Items) /\ retries[ns] \in Seq(Items)
    BY DEF TypeOK
  <1> QED BY <1>1, RangesOfItems DEF Waiting

LEMMA WaitingMore ==
    ASSUME TypeOK, NEW ns \in Namespaces, NEW item \in Items,
           queue' = [queue EXCEPT ![ns] = Append(@, item)], UNCHANGED retries
    PROVE  \A m \in Namespaces :
             Waiting(m)' = Waiting(m) \cup (IF m = ns THEN {item} ELSE {})
  <1>1. PICK q \in Seq(Items) : q = queue[ns]
    BY DEF TypeOK
  <1>2. Range(Append(q, item)) = Range(q) \cup {item}
    BY RangesOfItems
  <1>3. queue'[ns] = Append(q, item) /\ \A m \in Namespaces \ {ns} : queue'[m] = queue[m]
    BY <1>1 DEF TypeOK
  <1>4. Waiting(ns)' = Waiting(ns) \cup {item}
    BY <1>1, <1>2, <1>3 DEF Waiting
  <1>5. \A m \in Namespaces \ {ns} : Waiting(m)' = Waiting(m)
    BY <1>3 DEF Waiting
  <1> QED BY <1>4, <1>5

\* An Ingress is created, or changed without being moved.
LEMMA MissedOfIng ==
    ASSUME Settled, TypeOK, MissedInv, NEW i \in Ingresses, NEW def \in Defs,
           CreateIng(i, def) \/ ModifyIng(i, def)
    PROVE  MissedInv'
  <1> DEFINE item == [kind |-> "ing", key |-> i]
             ns == Home[i]
  <1>1. /\ ing' = [ing EXCEPT ![i] = def]
        /\ ing[i] = Absent \/ (ing[i].class = def.class /\ ing[i].svc = def.svc)
        /\ queue' = [queue EXCEPT ![ns] = Append(@, item)]
        /\ UNCHANGED <<svcs, vcfg, retries, locals, varnish>>
    BY DEF CreateIng, ModifyIng, Changed
  <1>2. ns \in Namespaces /\ item \in Items /\ def # Absent
    BY HomeAssumption, ItemTypes, AbsentAssumption
  <1>3. \A m \in Namespaces : Waiting(m)' = Waiting(m) \cup (IF m = ns THEN {item} ELSE {})
    BY <1>1, <1>2, WaitingMore
  <1>4. ing'[i] = def /\ \A j \in Ingresses \ {i} : ing'[j] = ing[j]
    BY <1>1 DEF TypeOK
  <1>5. HomeInv'
    <2>1. AtHome(item, ns)
      BY DEF AtHome
    <2>2. UNCHANGED <<step, hand, target>>
      BY <1>1 DEF locals
    <2>3. \A m \in Namespaces : \A it \in Waiting(m)' : AtHome(it, m)
      BY <1>3, <2>1 DEF MissedInv, HomeInv
    <2> QED BY <1>1, <2>2, <2>3 DEF MissedInv, HomeInv, AtHome
  <1>6. ASSUME NEW it \in Items, NEW s, BringsIngs(it, s)
        PROVE  BringsIngs(it, s)'
    <2>1. CASE it.kind = "ing" /\ it.key = i
      <3>1. /\ ing[i] # Absent /\ ing[i].class /\ s \in VarnishSvcForIng(s.ns, ing[i])
            /\ ing[i].svc = def.svc /\ def.class
        BY <1>1, <1>6, <2>1 DEF BringsIngs
      <3>2. s \in VarnishSvcForIng(s.ns, def)
        BY <3>1 DEF VarnishSvcForIng
      <3> QED BY <1>1, <1>2, <1>4, <2>1, <3>1, <3>2, NextOfBrings
    <2>2. CASE ~(it.kind = "ing" /\ it.key = i)
      <3>1. it.kind = "ing" => it.key \in Ingresses
        BY ItemTypes
      <3>2. it.kind = "ing" => ing'[it.key] = ing[it.key]
        BY <1>4, <2>2, <3>1
      <3> QED BY <1>1, <1>6, <3>2, NextOfBrings DEF BringsIngs
    <2> QED BY <2>1, <2>2
  <1>7. ASSUME NEW s \in svcs
        PROVE  SourcesFor(s)' = SourcesFor(s) \/ IngsWait(s)'
    <2>1. CASE Rule(s, ns, def)
      <3>1. def.class /\ ns = s.ns /\ s \in VarnishSvcForIng(s.ns, def)
        BY <2>1, RuleChooses DEF MissedInv
      <3>2. BringsIngs(item, s)'
        BY <1>1, <1>2, <1>4, <3>1, NextOfBrings
      <3>3. item \in Waiting(s.ns)'
        BY <1>2, <1>3, <3>1
      <3> QED BY <3>2, <3>3 DEF IngsWait
    <2>2. CASE ~Rule(s, ns, def)
      <3>1. ing[i] # Absent => ~Rule(s, ns, ing[i])
        BY <1>1, <2>2 DEF Rule
      <3> DEFINE I == {j \in Ingresses : ing'[j] # Absent /\ Rule(s, Home[j], ing'[j])}
      <3>2. I = IngsBy(s) /\ i \notin I
        BY <1>4, <2>2, <3>1 DEF IngsBy
      <3>3. [j \in I |-> ing'[j]] = SourcesFor(s)
        BY <1>4, <3>2 DEF SourcesFor, IngsBy
      <3> QED BY <1>1, <3>3, NextOfSources
    <2> QED BY <2>1, <2>2
  <1>8. ASSUME NEW s \in svcs
        PROVE  /\ IngsWait(s) => IngsWait(s)'
               /\ VcfgWait(s) => VcfgWait(s)'
               /\ VcfgFor(s, s.ns)' = VcfgFor(s, s.ns)
    <2>1. s.ns \in Namespaces /\ Waiting(s.ns) \subseteq Items
      BY ServicesAssumption, WaitingItems DEF TypeOK
    <2>2. IngsWait(s) => IngsWait(s)'
      BY <1>3, <1>6, <2>1 DEF IngsWait
    <2>3. VcfgWait(s) => VcfgWait(s)'
      BY <1>1, <1>3, <2>1 DEF VcfgWait, BringsVcfg
    <2> QED BY <1>1, <2>2, <2>3 DEF VcfgFor
  <1> QED BY <1>1, <1>5, <1>6, <1>7, <1>8, NothingDropped

\* An Ingress is deleted: what brought the worker to its Service is of no use
\* any more, but the deletion does.
LEMMA MissedOfDeletedIng ==
    ASSUME Settled, TypeOK, MissedInv, NEW i \in Ingresses, DeleteIng(i)
    PROVE  MissedInv'
  <1>1. PICK def \in Defs : def = ing[i]
    BY DEF DeleteIng, TypeOK
  <1> DEFINE item == [kind |-> "ingDeleted", key |-> i, def |-> def]
             ns == Home[i]
  <1>2. /\ ing' = [ing EXCEPT ![i] = Absent]
        /\ queue' = [queue EXCEPT ![ns] = Append(@, item)]
        /\ UNCHANGED <<svcs, vcfg, retries, locals, varnish>>
    BY <1>1 DEF DeleteIng, Changed
  <1>3. ns \in Namespaces /\ item \in Items /\ def # Absent
    BY HomeAssumption, ItemTypes, AbsentAssumption
  <1>4. \A m \in Namespaces : Waiting(m)' = Waiting(m) \cup (IF m = ns THEN {item} ELSE {})
    BY <1>2, <1>3, WaitingMore
  <1>5. ing'[i] = Absent /\ \A j \in Ingresses \ {i} : ing'[j] = ing[j]
    BY <1>2 DEF TypeOK
  <1>6. HomeInv'
    <2>1. AtHome(item, ns)
      BY DEF AtHome
    <2>2. UNCHANGED <<step, hand, target>>
      BY <1>2 DEF locals
    <2>3. \A m \in Namespaces : \A it \in Waiting(m)' : AtHome(it, m)
      BY <1>4, <2>1 DEF MissedInv, HomeInv
    <2> QED BY <1>2, <2>2, <2>3 DEF MissedInv, HomeInv, AtHome
  <1>7. ASSUME NEW s \in svcs, s.ns = ns, s \in VarnishSvcForIng(s.ns, def)
        PROVE  IngsWait(s)'
    <2>1. BringsIngs(item, s)'
      BY <1>2, <1>7, NextOfBrings
    <2>2. item \in Waiting(s.ns)'
      BY <1>3, <1>4, <1>7
    <2> QED BY <2>1, <2>2 DEF IngsWait
  <1>8. ASSUME NEW s \in svcs, NEW it \in Items, AtHome(it, s.ns), BringsIngs(it, s)
        PROVE  BringsIngs(it, s)' \/ IngsWait(s)'
    <2>1. CASE it.kind = "ing" /\ it.key = i
      <3>1. s.ns = ns /\ s \in VarnishSvcForIng(s.ns, def)
        BY <1>1, <1>8, <2>1 DEF BringsIngs, AtHome
      <3> QED BY <1>7, <3>1
    <2>2. CASE ~(it.kind = "ing" /\ it.key = i)
      <3>1. it.kind = "ing" => it.key \in Ingresses
        BY ItemTypes
      <3>2. it.kind = "ing" => ing'[it.key] = ing[it.key]
        BY <1>5, <2>2, <3>1
      <3> QED BY <1>2, <1>8, <3>2, NextOfBrings DEF BringsIngs
    <2> QED BY <2>1, <2>2
  <1>9. ASSUME NEW s \in svcs
        PROVE  SourcesFor(s)' = SourcesFor(s) \/ IngsWait(s)'
    <2>1. CASE Rule(s, ns, def)
      BY <1>7, <2>1, RuleChooses DEF MissedInv
    <2>2. CASE ~Rule(s, ns, def)
      <3> DEFINE I == {j \in Ingresses : ing'[j] # Absent /\ Rule(s, Home[j], ing'[j])}
      <3>1. I = IngsBy(s) /\ i \notin I
        BY <1>1, <1>5, <2>2 DEF IngsBy
      <3>2. [j \in I |-> ing'[j]] = SourcesFor(s)
        BY <1>5, <3>1 DEF SourcesFor, IngsBy
      <3> QED BY <1>2, <3>2, NextOfSources
    <2> QED BY <2>1, <2>2
  <1>10. ASSUME NEW s \in svcs
         PROVE  /\ IngsWait(s) => IngsWait(s)'
                /\ VcfgWait(s) => VcfgWait(s)'
                /\ VcfgFor(s, s.ns)' = VcfgFor(s, s.ns)
    <2>1. s.ns \in Namespaces /\ Waiting(s.ns) \subseteq Items
      BY ServicesAssumption, WaitingItems DEF TypeOK
    <2>2. IngsWait(s) => IngsWait(s)'
      BY <1>4, <1>8, <2>1 DEF IngsWait, MissedInv, HomeInv
    <2>3. VcfgWait(s) => VcfgWait(s)'
      BY <1>2, <1>4, <2>1 DEF VcfgWait, BringsVcfg
    <2> QED BY <1>2, <2>2, <2>3 DEF VcfgFor
  <1>11. ASSUME NEW m \in Namespaces, NEW s \in svcs, NEW it \in Items,
                step[m] # "idle", target[m] = s, hand[m] = it, BringsIngs(it, s)
         PROVE  BringsIngs(it, s)' \/ IngsWait(s)'
    <2>1. AtHome(it, s.ns)
      BY <1>11 DEF MissedInv, HomeInv
    <2> QED BY <1>8, <1>11, <2>1
  <1> QED BY <1>2, <1>6, <1>9, <1>10, <1>11, NothingDropped

\* A VarnishConfig is created, changed or deleted.
LEMMA MissedOfVcfg ==
    ASSUME TypeOK, MissedInv, NEW ns \in Namespaces, NEW item \in Items,
           queue' = [queue EXCEPT ![ns] = Append(@, item)],
           UNCHANGED <<ing, svcs, retries, locals, varnish>>,
           \A m \in Namespaces \ {ns} : vcfg'[m] = vcfg[m],
           AtHome(item, ns),
           \A it \in Items, s \in svcs :
              s.ns = ns /\ AtHome(it, ns) /\ BringsVcfg(it, s)
                => BringsVcfg(it, s)' \/ BringsVcfg(item, s)',
           \A s \in svcs : s.ns = ns =>
              VcfgFor(s, ns)' = VcfgFor(s, ns) \/ BringsVcfg(item, s)'
    PROVE  MissedInv'
  <1>1. \A m \in Namespaces : Waiting(m)' = Waiting(m) \cup (IF m = ns THEN {item} ELSE {})
    BY WaitingMore
  <1>2. HomeInv'
    <2>1. UNCHANGED <<step, hand, target>>
      BY DEF locals
    <2>2. \A m \in Namespaces : \A it \in Waiting(m)' : AtHome(it, m)
      BY <1>1 DEF MissedInv, HomeInv
    <2> QED BY <2>1, <2>2 DEF MissedInv, HomeInv, AtHome
  <1>3. ASSUME NEW it, NEW s, BringsIngs(it, s)
        PROVE  BringsIngs(it, s)'
    BY <1>3, NextOfBrings DEF BringsIngs
  <1>4. ASSUME NEW s \in svcs
        PROVE  /\ SourcesFor(s)' = SourcesFor(s)
               /\ IngsWait(s) => IngsWait(s)'
               /\ VcfgWait(s) => VcfgWait(s)'
               /\ VcfgFor(s, s.ns)' = VcfgFor(s, s.ns) \/ VcfgWait(s)'
    <2>1. s.ns \in Namespaces /\ Waiting(s.ns) \subseteq Items
      BY ServicesAssumption, WaitingItems DEF TypeOK
    <2>2. SourcesFor(s)' = SourcesFor(s)
      BY NextOfSources DEF SourcesFor, IngsBy
    <2>3. IngsWait(s) => IngsWait(s)'
      BY <1>1, <1>3, <2>1 DEF IngsWait
    <2>4. CASE s.ns = ns
      <3>1. item \in Waiting(s.ns)'
        BY <1>1, <2>4
      <3>2. VcfgWait(s) => VcfgWait(s)'
        BY <1>1, <2>1, <2>4, <3>1 DEF VcfgWait, MissedInv, HomeInv
      <3>3. VcfgFor(s, s.ns)' = VcfgFor(s, s.ns) \/ VcfgWait(s)'
        BY <2>4, <3>1 DEF VcfgWait
      <3> QED BY <2>2, <2>3, <3>2, <3>3
    <2>5. CASE s.ns # ns
      <3>1. vcfg'[s.ns] = vcfg[s.ns] /\ Waiting(s.ns)' = Waiting(s.ns)
        BY <1>1, <2>1, <2>5
      <3>2. \A it \in Waiting(s.ns) : BringsVcfg(it, s) => BringsVcfg(it, s)'
        BY <2>1, <3>1 DEF BringsVcfg, MissedInv, HomeInv, AtHome
      <3>3. VcfgWait(s) => VcfgWait(s)'
        BY <3>1, <3>2 DEF VcfgWait
      <3> QED BY <2>2, <2>3, <3>1, <3>3 DEF VcfgFor
    <2> QED BY <2>4, <2>5
  <1> QED BY <1>2, <1>3, <1>4, NothingDropped

LEMMA MissedOfChange ==
    ASSUME Settled, TypeOK, MissedInv, Change
    PROVE  MissedInv'
  <1>1. ASSUME NEW i \in Ingresses, NEW def \in Defs,
               CreateIng(i, def) \/ ModifyIng(i, def) \/ MoveIng(i, def)
        PROVE  MissedInv'
    <2>1. ~MoveIng(i, def)
      BY DEF MoveIng, Changed, Settled
    <2> QED BY <1>1, <2>1, MissedOfIng
  <1>2. ASSUME NEW i \in Ingresses, DeleteIng(i)
        PROVE  MissedInv'
    BY <1>2, MissedOfDeletedIng
  <1>3. ASSUME NEW s \in Services, CreateSvc(s) \/ DeleteSvc(s)
        PROVE  FALSE
    BY <1>3 DEF CreateSvc, DeleteSvc, Changed, Settled, Local
  <1>4. ASSUME NEW ns \in Namespaces, NEW def \in VcfgDefs,
               SetVcfg(ns, def) \/ MoveVcfg(ns, def)
        PROVE  MissedInv'
    <2> DEFINE item == [kind |-> "vcfg", key |-> ns]
    <2>1. SetVcfg(ns, def)
      BY <1>4 DEF MoveVcfg, Changed, Settled
    <2>2. /\ vcfg[ns] # Absent => vcfg[ns].svc = def.svc
          /\ vcfg' = [vcfg EXCEPT ![ns] = def]
          /\ queue' = [queue EXCEPT ![ns] = Append(@, item)]
          /\ UNCHANGED <<ing, svcs, retries, locals, varnish>>
      BY <2>1 DEF SetVcfg, Changed
    <2>3. vcfg'[ns] = def /\ def # Absent /\ \A m \in Namespaces \ {ns} : vcfg'[m] = vcfg[m]
      BY <2>2, AbsentAssumption DEF TypeOK
    <2>4. AtHome(item, ns) /\ item \in Items
      BY ItemTypes DEF AtHome
    <2>5. ASSUME NEW it \in Items, NEW s \in svcs, AtHome(it, ns), BringsVcfg(it, s)
          PROVE  BringsVcfg(it, s)'
      BY <2>2, <2>3, <2>5 DEF BringsVcfg, AtHome
    <2>6. ASSUME NEW s \in svcs
          PROVE  VcfgFor(s, ns)' = VcfgFor(s, ns) \/ BringsVcfg(item, s)'
      BY <2>2, <2>3 DEF VcfgFor, BringsVcfg
    <2> QED BY <2>2, <2>3, <2>4, <2>5, <2>6, MissedOfVcfg
  <1>5. ASSUME NEW ns \in Namespaces, DeleteVcfg(ns)
        PROVE  MissedInv'
    <2>1. PICK def \in VcfgDefs : def = vcfg[ns]
      BY <1>5 DEF DeleteVcfg, TypeOK
    <2> DEFINE item == [kind |-> "vcfgDeleted", key |-> ns, def |-> def]
    <2>2. /\ vcfg' = [vcfg EXCEPT ![ns] = Absent]
          /\ queue' = [queue EXCEPT ![ns] = Append(@, item)]
          /\ UNCHANGED <<ing, svcs, retries, locals, varnish>>
      BY <1>5, <2>1 DEF DeleteVcfg, Changed
    <2>3. vcfg'[ns] = Absent /\ \A m \in Namespaces \ {ns} : vcfg'[m] = vcfg[m]
      BY <2>2 DEF TypeOK
    <2>4. AtHome(item, ns) /\ item \in Items
      BY ItemTypes DEF AtHome
    <2>5. ASSUME NEW it \in Items, NEW s \in svcs, AtHome(it, ns), BringsVcfg(it, s)
          PROVE  BringsVcfg(it, s)' \/ BringsVcfg(item, s)'
      BY <2>1, <2>5 DEF BringsVcfg, AtHome
    <2>6. ASSUME NEW s \in svcs
          PROVE  VcfgFor(s, ns)' = VcfgFor(s, ns) \/ BringsVcfg(item, s)'
      BY <2>1, <2>3 DEF VcfgFor, BringsVcfg
    <2> QED BY <2>2, <2>3, <2>4, <2>5, <2>6, MissedOfVcfg
  <1> QED BY <1>1, <1>2, <1>3, <1>4, <1>5 DEF Change

\* A step of a worker leaves the cluster alone, and what is wanted with it.
LEMMA WantedAtWork ==
    ASSUME UNCHANGED cluster, NEW s
    PROVE  /\ IngsBy(s)' = IngsBy(s) /\ SourcesFor(s)' = SourcesFor(s)
           /\ VcfgFor(s, s.ns)' = VcfgFor(s, s.ns) /\ Wanted(s)' = Wanted(s)
           /\ \A c : NotReadyIfNone(c, s)' <=> NotReadyIfNone(c, s)
           /\ \A item : BringsIngs(item, s)' <=> BringsIngs(item, s)
           /\ \A item : BringsVcfg(item, s)' <=> BringsVcfg(item, s)
  <1>1. UNCHANGED <<ing, svcs, vcfg>>
    BY DEF cluster
  <1>2. IngsBy(s)' = IngsBy(s) /\ SourcesFor(s)' = SourcesFor(s)
    BY <1>1, NextOfSources DEF IngsBy, SourcesFor
  <1>3. VcfgFor(s, s.ns)' = VcfgFor(s, s.ns)
    BY <1>1 DEF VcfgFor
  <1>4. Wanted(s)' = Wanted(s)
    BY <1>2, <1>3, WantedStays
  <1>5. \A c : NotReadyIfNone(c, s)' <=> NotReadyIfNone(c, s)
    BY <1>2 DEF NotReadyIfNone
  <1>6. \A item : BringsIngs(item, s)' <=> BringsIngs(item, s)
    BY <1>1, NextOfBrings DEF BringsIngs
  <1>7. \A item : BringsVcfg(item, s)' <=> BringsVcfg(item, s)
    BY <1>1 DEF BringsVcfg
  <1> QED BY <1>2, <1>3, <1>4, <1>5, <1>6, <1>7

\* A step that only takes from the queues and adds to them.
LEMMA MissedOfQueues ==
    ASSUME TypeOK, MissedInv, UNCHANGED <<cluster, locals, varnish>>,
           \A m \in Namespaces : \A it \in Waiting(m)' : AtHome(it, m),
           \A s \in svcs : \A it \in Waiting(s.ns) :
              /\ BringsIngs(it, s) => it \in Waiting(s.ns)'
              /\ BringsVcfg(it, s) => \/ it \in Waiting(s.ns)'
                                      \/ \E i \in Waiting(s.ns)' : BringsIngs(i, s)
                                      \/ IngsBy(s) = {}
    PROVE  MissedInv'
  <1>1. UNCHANGED <<ing, svcs, vcfg, step, hand, target>>
    BY DEF cluster, locals
  <1>2. HomeInv'
    BY <1>1 DEF MissedInv, HomeInv, AtHome
  <1>3. ASSUME NEW s \in svcs
        PROVE  /\ IngsWait(s) => IngsWait(s)'
               /\ VcfgWait(s) => IngsWait(s)' \/ VcfgWait(s)' \/ IngsBy(s)' = {}
    BY <1>3, WantedAtWork DEF IngsWait, VcfgWait
  <1> QED BY <1>1, <1>2, <1>3, WantedAtWork, NothingDropped

\* What waits after an item has been taken off the queue.
LEMMA WaitingTaken ==
    ASSUME TypeOK, NEW ns \in Namespaces, queue[ns] # <<>>
    PROVE  /\ Head(queue[ns]) \in Waiting(ns)
           /\ queue' = [queue EXCEPT ![ns] = Tail(@)] /\ UNCHANGED retries =>
                /\ \A m \in Namespaces \ {ns} : Waiting(m)' = Waiting(m)
                /\ Waiting(ns) = Waiting(ns)' \cup {Head(queue[ns])}
           /\ Failed(ns) => \A m \in Namespaces : Waiting(m)' = Waiting(m)
           /\ \A item \in Items :
                queue' = [queue EXCEPT ![ns] = Append(Tail(@), item)] /\ UNCHANGED retries =>
                /\ \A m \in Namespaces \ {ns} : Waiting(m)' = Waiting(m)
                /\ Waiting(ns)' \subseteq Waiting(ns) \cup {item}
                /\ Waiting(ns) \cup {item} \subseteq Waiting(ns)' \cup {Head(queue[ns])}
  <1>1. PICK q \in Seq(Items), r \in Seq(Items) : q = queue[ns] /\ r = retries[ns]
    BY DEF TypeOK
  <1>2. q # <<>> /\ Tail(q) \in Seq(Items) /\ Head(q) \in Items
    BY <1>1, TailOfItems
  <1>3. Range(q) = Range(Tail(q)) \cup {Head(q)}
    BY <1>2, RangesOfItems
  <1>4. \A item \in Items : Range(Append(Tail(q), item)) = Range(Tail(q)) \cup {item}
    BY <1>2, RangesOfItems
  <1>5. Range(Append(r, Head(q))) = Range(r) \cup {Head(q)}
    BY <1>2, RangesOfItems
  <1>6. ASSUME queue' = [queue EXCEPT ![ns] = Tail(@)], UNCHANGED retries
        PROVE  /\ \A m \in Namespaces \ {ns} : Waiting(m)' = Waiting(m)
               /\ Waiting(ns) = Waiting(ns)' \cup {Head(queue[ns])}
    <2>1. queue'[ns] = Tail(q) /\ \A m \in Namespaces \ {ns} : queue'[m] = queue[m]
      BY <1>1, <1>6 DEF TypeOK
    <2> QED BY <1>1, <1>3, <1>6, <2>1 DEF Waiting
  <1>7. ASSUME Failed(ns)
        PROVE  \A m \in Namespaces : Waiting(m)' = Waiting(m)
    <2>1. /\ queue'[ns] = Tail(q) /\ \A m \in Namespaces \ {ns} : queue'[m] = queue[m]
          /\ retries'[ns] = Append(r, Head(q))
          /\ \A m \in Namespaces \ {ns} : retries'[m] = retries[m]
      BY <1>1, <1>7 DEF TypeOK, Failed
    <2>2. Waiting(ns)' = Waiting(ns)
      BY <1>1, <1>3, <1>5, <2>1 DEF Waiting
    <2>3. \A m \in Namespaces \ {ns} : Waiting(m)' = Waiting(m)
      BY <2>1 DEF Waiting
    <2> QED BY <2>2, <2>3
  <1>8. ASSUME NEW item \in Items,
               queue' = [queue EXCEPT ![ns] = Append(Tail(@), item)], UNCHANGED retries
        PROVE  /\ \A m \in Namespaces \ {ns} : Waiting(m)' = Waiting(m)
               /\ Waiting(ns)' \subseteq Waiting(ns) \cup {item}
               /\ Waiting(ns) \cup {item} \subseteq Waiting(ns)' \cup {Head(queue[ns])}
    <2>1. /\ queue'[ns] = Append(Tail(q), item)
          /\ \A m \in Namespaces \ {ns} : queue'[m] = queue[m]
      BY <1>1, <1>8 DEF TypeOK
    <2>2. \A m \in Namespaces \ {ns} : Waiting(m)' = Waiting(m)
      BY <1>8, <2>1 DEF Waiting
    <2>3. Waiting(ns)' = Range(Tail(q)) \cup {item} \cup Range(r)
      BY <1>1, <1>4, <1>8, <2>1 DEF Waiting
    <2>4. Waiting(ns) = Range(Tail(q)) \cup {Head(q)} \cup Range(r)
      BY <1>1, <1>3 DEF Waiting
    <2> QED BY <1>1, <2>2, <2>3, <2>4
  <1>9. Head(queue[ns]) \in Waiting(ns)
    BY <1>1, <1>3 DEF Waiting
  <1> QED BY <1>6, <1>7, <1>8, <1>9

\* A step that fails, or adds a failed item again.
LEMMA MissedOfFailed ==
    ASSUME TypeOK, MissedInv, UNCHANGED <<cluster, locals, varnish>>,
           \A m \in Namespaces : Waiting(m)' = Waiting(m)
    PROVE  MissedInv'
  <1>1. \A m \in Namespaces : \A it \in Waiting(m)' : AtHome(it, m)
    BY DEF MissedInv, HomeInv
  <1>2. \A s \in svcs : s.ns \in Namespaces
    BY ServicesAssumption DEF TypeOK
  <1> QED BY <1>1, <1>2, MissedOfQueues

LEMMA MissedOfRetry ==
    ASSUME TypeOK, MissedInv, NEW ns \in Namespaces, NEW n \in DOMAIN retries[ns], Retry(ns, n)
    PROVE  MissedInv'
  <1>1. PICK q \in Seq(Items), r \in Seq(Items) : q = queue[ns] /\ r = retries[ns]
    BY DEF TypeOK
  <1>2. r[n] \in Items /\ RemoveAt(r, n) \in Seq(Items)
    BY <1>1, RemovedFromItems
  <1>3. /\ Range(r) = Range(RemoveAt(r, n)) \cup {r[n]}
        /\ Range(Append(q, r[n])) = Range(q) \cup {r[n]}
    BY <1>1, <1>2, RangesOfItems
  <1>4. /\ queue'[ns] = Append(q, r[n]) /\ \A m \in Namespaces \ {ns} : queue'[m] = queue[m]
        /\ retries'[ns] = RemoveAt(r, n)
        /\ \A m \in Namespaces \ {ns} : retries'[m] = retries[m]
    BY <1>1 DEF Retry, TypeOK
  <1>5. Waiting(ns)' = Waiting(ns)
    BY <1>1, <1>3, <1>4 DEF Waiting
  <1>6. \A m \in Namespaces \ {ns} : Waiting(m)' = Waiting(m)
    BY <1>4 DEF Waiting
  <1>7. UNCHANGED <<cluster, locals, varnish>>
    BY DEF Retry, Step
  <1> QED BY <1>5, <1>6, <1>7, MissedOfFailed

\* The worker takes an Ingress for a Varnish Service in hand.
LEMMA MissedOfTarget ==
    ASSUME Settled, TypeOK, MissedInv, NEW ns \in Namespaces, NEW s \in svcs,
           step[ns] = "idle", queue[ns] # <<>>, NEW h \in Items, h = Head(queue[ns]),
           h.kind \in {"ing", "ingDeleted"}, s.ns = ns, BringsIngs(h, s),
           UNCHANGED <<cluster, varnish, retries, collected>>,
           queue' = [queue EXCEPT ![ns] = Tail(@)],
           hand' = [hand EXCEPT ![ns] = h],
           target' = [target EXCEPT ![ns] = s],
           step' = [step EXCEPT ![ns] = "collect"]
    PROVE  MissedInv'
  <1>1. /\ h \in Waiting(ns) /\ Waiting(ns) = Waiting(ns)' \cup {h}
        /\ \A m \in Namespaces \ {ns} : Waiting(m)' = Waiting(m)
    BY WaitingTaken
  <1>2. /\ step'[ns] = "collect" /\ hand'[ns] = h /\ target'[ns] = s
        /\ \A m \in Namespaces \ {ns} :
              step'[m] = step[m] /\ hand'[m] = hand[m] /\ target'[m] = target[m]
    BY DEF TypeOK
  <1>3. UNCHANGED <<ing, svcs, vcfg, config, endpoints>>
    BY DEF cluster, varnish
  <1>4. \A r \in svcs : r.ns \in Namespaces
    BY ServicesAssumption DEF TypeOK
  <1>5. ASSUME NEW r \in svcs, r # s
        PROVE  (IngsWait(r) => IngsWait(r)') /\ (VcfgWait(r) => VcfgWait(r)')
    <2>1. ASSUME r.ns = ns, BringsIngs(h, r)
          PROVE  FALSE
      <3>1. PICK def : s \in VarnishSvcForIng(ns, def) /\ r \in VarnishSvcForIng(ns, def)
        BY <2>1 DEF BringsIngs
      <3> QED BY <1>5, <3>1, ChosenOnce
    <2>2. ~BringsVcfg(h, r)
      BY DEF BringsVcfg
    <2>3. \A it : it \in Waiting(r.ns) /\ (BringsIngs(it, r) \/ BringsVcfg(it, r))
            => it \in Waiting(r.ns)'
      BY <1>1, <1>4, <2>1, <2>2
    <2> QED BY <2>3, WantedAtWork DEF IngsWait, VcfgWait
  <1>6. HomeInv'
    <2>1. \A m \in Namespaces : \A it \in Waiting(m)' : AtHome(it, m)
      BY <1>1 DEF MissedInv, HomeInv
    <2>2. AtHome(h, ns)
      BY <1>1 DEF MissedInv, HomeInv
    <2> QED BY <1>2, <1>3, <2>1, <2>2 DEF MissedInv, HomeInv, AtHome
  <1>7. StoredInv'
    <2> SUFFICES ASSUME NEW r \in svcs, NEW c, config[r] = c
                 PROVE  /\ NotReadyIfNone(c, r)' \/ Working(r)' \/ IngsWait(r)'
                        /\ c = Wanted(r)' \/ Working(r)' \/ IngsWait(r)' \/ VcfgWait(r)'
      BY <1>3 DEF StoredInv
    <2>1. CASE r = s
      BY <1>2, <2>1 DEF Working
    <2>2. CASE r # s
      <3>1. Working(r) => Working(r)'
        BY <1>2, <1>4 DEF Working
      <3> QED BY <1>5, <2>2, <3>1, WantedAtWork DEF MissedInv, StoredInv
    <2> QED BY <2>1, <2>2
  <1>8. MadeInv'
    <2> SUFFICES ASSUME NEW m \in Namespaces, NEW r \in svcs, step'[m] # "idle", target'[m] = r
                 PROVE  /\ \A item : hand'[m] = item => BringsIngs(item, r)' \/ IngsWait(r)'
                        /\ \A c : step'[m] = "update" /\ collected'[m] = c =>
                            /\ NotReadyIfNone(c, r)' \/ IngsWait(r)'
                            /\ c = Wanted(r)' \/ IngsWait(r)' \/ VcfgWait(r)'
      BY <1>3 DEF MadeInv
    <2>1. CASE m = ns
      BY <1>2, <2>1, WantedAtWork
    <2>2. CASE m # ns
      <3>1. step[m] # "idle" /\ target[m] = r /\ r # s
        BY <1>2, <2>2 DEF MissedInv, HomeInv
      <3>2. /\ step'[m] = step[m] /\ hand'[m] = hand[m] /\ collected'[m] = collected[m]
            /\ IngsWait(r) => IngsWait(r)'
            /\ VcfgWait(r) => VcfgWait(r)'
        BY <1>2, <1>5, <2>2, <3>1
      <3>3. \A item : hand[m] = item => BringsIngs(item, r) \/ IngsWait(r)
        BY <3>1 DEF MissedInv, MadeInv
      <3>4. \A c : step[m] = "update" /\ collected[m] = c =>
                /\ NotReadyIfNone(c, r) \/ IngsWait(r)
                /\ c = Wanted(r) \/ IngsWait(r) \/ VcfgWait(r)
        BY <3>1 DEF MissedInv, MadeInv
      <3> QED BY <3>2, <3>3, <3>4, WantedAtWork
    <2> QED BY <2>1, <2>2
  <1>9. OneWorker'
    BY <1>3 DEF MissedInv, OneWorker
  <1> QED BY <1>6, <1>7, <1>8, <1>9 DEF MissedInv

LEMMA MissedOfSyncIng ==
    ASSUME Settled, TypeOK, MissedInv, NEW ns \in Namespaces, SyncIng(ns) \/ SyncIngDeleted(ns)
    PROVE  MissedInv'
  <1>1. /\ step[ns] = "idle" /\ queue[ns] # <<>> /\ UNCHANGED <<cluster, varnish>>
        /\ Head(queue[ns]).kind \in {"ing", "ingDeleted"}
    BY DEF SyncIng, SyncIngDeleted, Takes, Step
  <1>2. PICK h \in Items : h = Head(queue[ns])
    BY <1>1, TakenTypes
  <1>3. CASE Failed(ns)
    BY <1>1, <1>3, WaitingTaken, MissedOfFailed DEF Failed
  <1>4. CASE Synced(ns)
    <2>1. CASE SyncIng(ns) /\ ~Failed(ns) /\ h.kind = "ing" /\ ~ing[h.key].class
      <3>1. /\ h \in Waiting(ns) /\ Waiting(ns) = Waiting(ns)' \cup {h}
            /\ \A m \in Namespaces \ {ns} : Waiting(m)' = Waiting(m)
        BY <1>1, <1>2, <1>4, WaitingTaken DEF Synced
      <3>2. \A s : ~BringsIngs(h, s) /\ ~BringsVcfg(h, s)
        BY <2>1 DEF BringsIngs, BringsVcfg
      <3>3. \A m \in Namespaces : \A it \in Waiting(m)' : AtHome(it, m)
        BY <3>1 DEF MissedInv, HomeInv
      <3>4. \A s \in svcs : s.ns \in Namespaces
        BY ServicesAssumption DEF TypeOK
      <3>5. \A s \in svcs : \A it \in Waiting(s.ns) :
                BringsIngs(it, s) \/ BringsVcfg(it, s) => it \in Waiting(s.ns)'
        BY <3>1, <3>2, <3>4
      <3> QED BY <1>1, <1>4, <3>3, <3>5, MissedOfQueues DEF Synced
    <2>2. CASE ~(SyncIng(ns) /\ ~Failed(ns) /\ h.kind = "ing" /\ ~ing[h.key].class)
      <3>1. \A def : ~AddOrUpdateIng(ns, def) \/ Failed(ns)
        <4>1. step'[ns] = "idle"
          BY <1>1, <1>4 DEF Synced, locals
        <4> QED BY <4>1 DEF AddOrUpdateIng, TypeOK
      <3>2. Failed(ns)
        BY <1>2, <2>2, <3>1 DEF SyncIng, SyncIngDeleted, Takes
      <3> QED BY <1>3, <3>2
    <2> QED BY <2>1, <2>2
  <1>5. CASE ~Failed(ns) /\ ~Synced(ns)
    <2>1. PICK def : /\ AddOrUpdateIng(ns, def)
                     /\ \/ h.kind = "ing" /\ def = ing[h.key] /\ def # Absent /\ def.class
                        \/ h.kind = "ingDeleted" /\ def = h.def
      BY <1>2, <1>5 DEF SyncIng, SyncIngDeleted, Takes
    <2>2. def \in Defs
      BY <2>1, ItemTypes DEF TypeOK
    <2>3. PICK s \in VarnishSvcForIng(ns, def) :
            /\ queue' = [queue EXCEPT ![ns] = Tail(@)]
            /\ hand' = [hand EXCEPT ![ns] = Head(queue[ns])]
            /\ target' = [target EXCEPT ![ns] = s]
            /\ step' = [step EXCEPT ![ns] = "collect"]
            /\ UNCHANGED <<retries, collected>>
      BY <1>5, <2>1 DEF AddOrUpdateIng
    <2>4. s \in svcs /\ (s.ns = ns \/ svcs = {s})
      BY <2>2, ChosenService DEF Settled
    <2>5. Home[h.key] = ns /\ h.key \in Ingresses
      <3>1. h \in Waiting(ns)
        BY <1>1, <1>2, WaitingTaken
      <3> QED BY <2>1, <3>1, ItemTypes DEF MissedInv, HomeInv, AtHome
    <2>6. s.ns = ns
      BY <2>4, <2>5 DEF MissedInv, OneWorker, TypeOK
    <2>7. BringsIngs(h, s)
      BY <2>1, <2>3, <2>6 DEF BringsIngs
    <2> QED BY <1>1, <1>2, <2>1, <2>3, <2>4, <2>6, <2>7, MissedOfTarget
  <1> QED BY <1>3, <1>4, <1>5

\* A VarnishConfig is synchronised by enqueueing an Ingress for the Service that
\* it names; without one, the Service is not ready as it is.
LEMMA MissedOfEnqueue ==
    ASSUME Settled, TypeOK, MissedInv, NEW ns \in Namespaces, NEW def \in VcfgDefs,
           queue[ns] # <<>>, NEW h \in Items, h = Head(queue[ns]),
           \/ h.kind = "vcfg" /\ vcfg[h.key] = def /\ def # Absent
           \/ h.kind = "vcfgDeleted" /\ h.def = def,
           EnqueueIngsForVcfg(ns, def), UNCHANGED <<cluster, varnish>>
    PROVE  MissedInv'
  <1> DEFINE t == [ns |-> ns, name |-> def.svc]
             locally == {i \in VarnishIngresses : Home[i] = ns}
             candidates == {i \in locally : t \in VarnishSvcForIng(ns, ing[i])}
  <1>1. \A s \in svcs : s.ns \in Namespaces /\ s = [ns |-> s.ns, name |-> s.name]
    BY ServicesAssumption DEF TypeOK
  <1>2. ASSUME NEW s \in svcs
        PROVE  ~BringsIngs(h, s) /\ (s.ns = ns /\ BringsVcfg(h, s) => s = t)
    BY <1>1 DEF BringsIngs, BringsVcfg
  <1>3. CASE Failed(ns)
    BY <1>3, WaitingTaken, MissedOfFailed DEF Failed
  <1>4. CASE t \in svcs /\ candidates = {} /\ Synced(ns)
    <2>1. /\ Waiting(ns) = Waiting(ns)' \cup {h}
          /\ \A m \in Namespaces \ {ns} : Waiting(m)' = Waiting(m)
      BY <1>4, WaitingTaken DEF Synced
    <2>2. IngsBy(t) = {}
      <3>1. ASSUME NEW i \in Ingresses, ing[i] # Absent, Rule(t, Home[i], ing[i])
            PROVE  i \in candidates
        <4>1. ing[i] \in Defs
          BY <3>1 DEF TypeOK
        <4>2. ing[i].class /\ Home[i] = t.ns /\ t \in VarnishSvcForIng(t.ns, ing[i])
          BY <1>4, <3>1, <4>1, RuleChooses DEF MissedInv
        <4> QED BY <3>1, <4>2 DEF VarnishIngresses
      <3> QED BY <1>4, <3>1 DEF IngsBy
    <2>3. \A m \in Namespaces : \A it \in Waiting(m)' : AtHome(it, m)
      BY <2>1 DEF MissedInv, HomeInv
    <2>4. \A s \in svcs : \A it \in Waiting(s.ns) :
              /\ BringsIngs(it, s) => it \in Waiting(s.ns)'
              /\ BringsVcfg(it, s) => it \in Waiting(s.ns)' \/ IngsBy(s) = {}
      BY <1>1, <1>2, <2>1, <2>2
    <2> QED BY <1>4, <2>3, <2>4, MissedOfQueues DEF Synced
  <1>5. ASSUME NEW i \in candidates,
               queue' = [queue EXCEPT ![ns] = Append(Tail(@), [kind |-> "ing", key |-> i])],
               UNCHANGED <<retries, locals>>
        PROVE  MissedInv'
    <2>1. i \in Ingresses /\ Home[i] = ns
      BY DEF VarnishIngresses
    <2>2. PICK item \in Items : item = [kind |-> "ing", key |-> i]
      BY <2>1, ItemTypes
    <2>3. /\ \A m \in Namespaces \ {ns} : Waiting(m)' = Waiting(m)
          /\ Waiting(ns)' \subseteq Waiting(ns) \cup {item}
          /\ Waiting(ns) \cup {item} \subseteq Waiting(ns)' \cup {h}
      <3>1. queue' = [queue EXCEPT ![ns] = Append(Tail(@), item)] /\ UNCHANGED retries
        BY <1>5, <2>2
      <3> HIDE DEF candidates
      <3> QED BY <3>1, WaitingTaken
    <2>4. item # h
      BY <2>2
    <2>5. BringsIngs(item, t)
      BY <2>2 DEF BringsIngs, VarnishIngresses
    <2>6. \A m \in Namespaces : \A it \in Waiting(m)' : AtHome(it, m)
      <3>1. AtHome(item, ns)
        BY <2>1, <2>2 DEF AtHome
      <3> QED BY <2>3, <3>1 DEF MissedInv, HomeInv
    <2>7. \A s \in svcs : \A it \in Waiting(s.ns) :
              /\ BringsIngs(it, s) => it \in Waiting(s.ns)'
              /\ BringsVcfg(it, s) => \/ it \in Waiting(s.ns)'
                                      \/ \E e \in Waiting(s.ns)' : BringsIngs(e, s)
      BY <1>1, <1>2, <2>3, <2>4, <2>5
    <2> QED BY <1>5, <2>6, <2>7, MissedOfQueues
  <1> QED BY <1>3, <1>4, <1>5 DEF EnqueueIngsForVcfg

LEMMA MissedOfSyncVcfg ==
    ASSUME Settled, TypeOK, MissedInv, NEW ns \in Namespaces, SyncVcfg(ns) \/ SyncVcfgDeleted(ns)
    PROVE  MissedInv'
  <1>1. /\ queue[ns] # <<>> /\ UNCHANGED <<cluster, varnish>>
        /\ Head(queue[ns]).kind \in {"vcfg", "vcfgDeleted"}
    BY DEF SyncVcfg, SyncVcfgDeleted, Takes, Step
  <1>2. PICK h \in Items : h = Head(queue[ns])
    BY <1>1, TakenTypes
  <1>3. CASE Failed(ns)
    BY <1>1, <1>3, WaitingTaken, MissedOfFailed DEF Failed
  <1>4. CASE ~Failed(ns)
    <2>1. h.kind = "vcfg" => h.key = ns
      <3>1. h \in Waiting(ns)
        BY <1>1, <1>2, WaitingTaken
      <3> QED BY <3>1 DEF MissedInv, HomeInv, AtHome
    <2>2. PICK def : /\ EnqueueIngsForVcfg(ns, def)
                     /\ \/ h.kind = "vcfg" /\ vcfg[h.key] = def /\ def # Absent
                        \/ h.kind = "vcfgDeleted" /\ h.def = def
      BY <1>2, <1>4, <2>1 DEF SyncVcfg, SyncVcfgDeleted, Takes
    <2>3. def \in VcfgDefs
      BY <2>1, <2>2, ItemTypes DEF TypeOK
    <2> QED BY <1>1, <1>2, <2>2, <2>3, MissedOfEnqueue
  <1> QED BY <1>3, <1>4

\* The worker has collected just what its Service should have.
LEMMA MissedOfCollect ==
    ASSUME Settled, TypeOK, MissedInv, NEW ns \in Namespaces, Collect(ns)
    PROVE  MissedInv'
  <1>1. PICK s \in svcs : s = target[ns] /\ s.ns = ns /\ step[ns] = "collect"
    BY DEF Collect, MissedInv, HomeInv
  <1>2. /\ UNCHANGED <<queue, retries, hand, target, config, endpoints>> /\ UNCHANGED cluster
        /\ step'[ns] = "update" /\ \A m \in Namespaces \ {ns} : step'[m] = step[m]
        /\ \A m \in Namespaces \ {ns} : collected'[m] = collected[m]
    BY DEF Collect, Step, queues, varnish, TypeOK
  <1>3. UNCHANGED <<ing, svcs, vcfg>>
    BY <1>2 DEF cluster
  <1>4. collected'[ns] = Wanted(s)
    <2>1. IngsForVarnishSvc(s, ns) = IngsBy(s)
      BY <1>1, RulesAgree DEF IngsBy
    <2>2. SourcesFor(s) = [i \in IngsBy(s) |-> ing[i]]
      BY DEF SourcesFor
    <2>3. collected'[ns] = IF IngsBy(s) = {} THEN NotReady
                           ELSE [ings |-> SourcesFor(s), vcfg |-> VcfgFor(s, s.ns)]
      BY <1>1, <2>1, <2>2, CollectStep
    <2> QED BY <2>3, WantedSources
  <1>5. \A m \in Namespaces : Waiting(m)' = Waiting(m)
    BY <1>2 DEF Waiting
  <1>6. \A r \in svcs : r.ns \in Namespaces
    BY ServicesAssumption DEF TypeOK
  <1>7. ASSUME NEW r \in svcs
        PROVE  IngsWait(r)' = IngsWait(r) /\ VcfgWait(r)' = VcfgWait(r)
    <2>1. Waiting(r.ns)' = Waiting(r.ns)
      BY <1>5, <1>6
    <2> QED BY <1>2, <2>1, WantedAtWork DEF IngsWait, VcfgWait
  <1>8. HomeInv'
    <2>1. \A m \in Namespaces : step'[m] # "idle" => step[m] # "idle"
      BY <1>1, <1>2
    <2> QED BY <1>2, <1>3, <1>5, <2>1 DEF MissedInv, HomeInv, AtHome
  <1>9. StoredInv'
    <2> SUFFICES ASSUME NEW r \in svcs, NEW c, config[r] = c
                 PROVE  /\ NotReadyIfNone(c, r)' \/ Working(r)' \/ IngsWait(r)'
                        /\ c = Wanted(r)' \/ Working(r)' \/ IngsWait(r)' \/ VcfgWait(r)'
      BY <1>2, <1>3 DEF StoredInv
    <2>1. Working(r) => Working(r)'
      BY <1>2, <1>6 DEF Working
    <2>2. (NotReadyIfNone(c, r)' <=> NotReadyIfNone(c, r)) /\ Wanted(r)' = Wanted(r)
      BY <1>2, WantedAtWork
    <2>3. /\ NotReadyIfNone(c, r) \/ Working(r) \/ IngsWait(r)
          /\ c = Wanted(r) \/ Working(r) \/ IngsWait(r) \/ VcfgWait(r)
      BY DEF MissedInv, StoredInv
    <2> QED BY <1>7, <2>1, <2>2, <2>3
  <1>10. MadeInv'
    <2> SUFFICES ASSUME NEW m \in Namespaces, NEW r \in svcs, step'[m] # "idle", target[m] = r
                 PROVE  /\ \A item : hand[m] = item => BringsIngs(item, r)' \/ IngsWait(r)'
                        /\ \A c : step'[m] = "update" /\ collected'[m] = c =>
                            /\ NotReadyIfNone(c, r)' \/ IngsWait(r)'
                            /\ c = Wanted(r)' \/ IngsWait(r)' \/ VcfgWait(r)'
      BY <1>2, <1>3 DEF MadeInv
    <2>1. step[m] # "idle"
      BY <1>1, <1>2
    <2>2. \A item : hand[m] = item => BringsIngs(item, r) \/ IngsWait(r)
      BY <2>1 DEF MissedInv, MadeInv
    <2>3. /\ \A c : NotReadyIfNone(c, r)' <=> NotReadyIfNone(c, r)
          /\ \A item : BringsIngs(item, r)' <=> BringsIngs(item, r)
          /\ Wanted(r)' = Wanted(r)
      BY <1>2, WantedAtWork
    <2>4. ASSUME NEW c, step'[m] = "update", collected'[m] = c
          PROVE  /\ NotReadyIfNone(c, r) \/ IngsWait(r)
                 /\ c = Wanted(r) \/ IngsWait(r) \/ VcfgWait(r)
      <3>1. CASE m = ns
        <4>1. c = Wanted(r)
          BY <1>1, <1>4, <2>4, <3>1
        <4>2. NotReadyIfNone(c, r)
          BY <4>1, WantedSources DEF NotReadyIfNone
        <4> QED BY <4>1, <4>2
      <3>2. CASE m # ns
        <4>1. step[m] = "update" /\ collected[m] = c
          BY <1>2, <2>4, <3>2
        <4> QED BY <4>1 DEF MissedInv, MadeInv
      <3> QED BY <3>1, <3>2
    <2> QED BY <1>7, <2>2, <2>3, <2>4
  <1>11. OneWorker'
    BY <1>3 DEF MissedInv, OneWorker
  <1> QED BY <1>8, <1>9, <1>10, <1>11 DEF MissedInv

\* The worker is done with its Service: it has stored what it had made, or will
\* try again.
LEMMA MissedOfReturn ==
    ASSUME TypeOK, MissedInv, NEW ns \in Namespaces, step[ns] # "idle", UNCHANGED cluster,
           NEW s \in svcs, s = target[ns],
           \A r \in svcs \ {s} : config'[r] = config[r],
           \/ ReturnsError(ns)
           \/ ReturnsNil(ns) /\ step[ns] = "update" /\ config'[s] = collected[ns]
    PROVE  MissedInv'
  <1>1. /\ step'[ns] = "idle"
        /\ \A m \in Namespaces \ {ns} :
              /\ step'[m] = step[m] /\ hand'[m] = hand[m]
              /\ target'[m] = target[m] /\ collected'[m] = collected[m]
    BY DEF ReturnsError, ReturnsNil, Returns, TypeOK
  <1>2. UNCHANGED <<ing, svcs, vcfg>>
    BY DEF cluster
  <1>3. /\ \A m \in Namespaces : Waiting(m) \subseteq Waiting(m)'
        /\ \A m \in Namespaces \ {ns} : Waiting(m)' = Waiting(m)
        /\ Waiting(ns)' \subseteq Waiting(ns) \cup {hand[ns]}
        /\ ReturnsError(ns) => hand[ns] \in Waiting(ns)'
    <2>1. CASE ReturnsNil(ns) /\ ~ReturnsError(ns)
      BY <2>1 DEF ReturnsNil, Returns, Waiting
    <2>2. CASE ReturnsError(ns)
      <3>1. PICK r \in Seq(Items), h \in Items : r = retries[ns] /\ h = hand[ns]
        BY DEF TypeOK
      <3>2. Range(Append(r, h)) = Range(r) \cup {h}
        BY RangesOfItems
      <3>3. /\ UNCHANGED queue /\ retries'[ns] = Append(r, h)
            /\ \A m \in Namespaces \ {ns} : retries'[m] = retries[m]
        BY <2>2, <3>1 DEF ReturnsError, Returns, TypeOK
      <3>4. Waiting(ns)' = Waiting(ns) \cup {hand[ns]}
        BY <3>1, <3>2, <3>3 DEF Waiting
      <3>5. \A m \in Namespaces \ {ns} : Waiting(m)' = Waiting(m)
        BY <3>3 DEF Waiting
      <3> QED BY <3>4, <3>5
    <2> QED BY <2>1, <2>2
  <1>4. \A r \in svcs : r.ns \in Namespaces
    BY ServicesAssumption DEF TypeOK
  <1>5. s.ns = ns
    BY DEF MissedInv, HomeInv
  <1>6. ASSUME NEW r \in svcs
        PROVE  (IngsWait(r) => IngsWait(r)') /\ (VcfgWait(r) => VcfgWait(r)')
    <2>1. Waiting(r.ns) \subseteq Waiting(r.ns)'
      BY <1>3, <1>4
    <2> QED BY <2>1, WantedAtWork DEF IngsWait, VcfgWait
  <1>7. ReturnsError(ns) => IngsWait(s)'
    <2>1. BringsIngs(hand[ns], s) \/ IngsWait(s)
      BY DEF MissedInv, MadeInv
    <2>2. ReturnsError(ns) /\ BringsIngs(hand[ns], s) => IngsWait(s)'
      <3>1. PICK h : h = hand[ns]
        OBVIOUS
      <3>2. ReturnsError(ns) => h \in Waiting(s.ns)'
        BY <1>3, <1>5, <3>1
      <3> QED BY <3>1, <3>2, WantedAtWork DEF IngsWait
    <2> QED BY <1>6, <2>1, <2>2
  <1>8. HomeInv'
    <2>1. AtHome(hand[ns], ns)
      BY DEF MissedInv, HomeInv
    <2>2. \A m \in Namespaces : \A it \in Waiting(m)' : AtHome(it, m)
      BY <1>3, <2>1 DEF MissedInv, HomeInv
    <2> QED BY <1>1, <1>2, <2>2 DEF MissedInv, HomeInv, AtHome
  <1>9. StoredInv'
    <2> SUFFICES ASSUME NEW r \in svcs, NEW c, config'[r] = c
                 PROVE  /\ NotReadyIfNone(c, r)' \/ Working(r)' \/ IngsWait(r)'
                        /\ c = Wanted(r)' \/ Working(r)' \/ IngsWait(r)' \/ VcfgWait(r)'
      BY <1>2 DEF StoredInv
    <2>1. (NotReadyIfNone(c, r)' <=> NotReadyIfNone(c, r)) /\ Wanted(r)' = Wanted(r)
      BY WantedAtWork
    <2>2. CASE r = s /\ ReturnsError(ns)
      BY <1>7, <2>2
    <2>3. CASE r = s /\ ~ReturnsError(ns)
      <3>1. step[ns] = "update" /\ collected[ns] = c
        BY <2>3
      <3>2. /\ NotReadyIfNone(c, r) \/ IngsWait(r)
            /\ c = Wanted(r) \/ IngsWait(r) \/ VcfgWait(r)
        BY <2>3, <3>1 DEF MissedInv, MadeInv
      <3> QED BY <1>6, <2>1, <3>2
    <2>4. CASE r # s
      <3>1. config[r] = c
        BY <2>4
      <3>2. Working(r) => Working(r)'
        BY <1>1, <1>4, <2>4 DEF Working
      <3>3. /\ NotReadyIfNone(c, r) \/ Working(r) \/ IngsWait(r)
            /\ c = Wanted(r) \/ Working(r) \/ IngsWait(r) \/ VcfgWait(r)
        BY <3>1 DEF MissedInv, StoredInv
      <3> QED BY <1>6, <2>1, <3>2, <3>3
    <2> QED BY <2>2, <2>3, <2>4
  <1>10. MadeInv'
    <2> SUFFICES ASSUME NEW m \in Namespaces, NEW r \in svcs, step'[m] # "idle", target'[m] = r
                 PROVE  /\ \A item : hand'[m] = item => BringsIngs(item, r)' \/ IngsWait(r)'
                        /\ \A c : step'[m] = "update" /\ collected'[m] = c =>
                            /\ NotReadyIfNone(c, r)' \/ IngsWait(r)'
                            /\ c = Wanted(r)' \/ IngsWait(r)' \/ VcfgWait(r)'
      BY <1>2 DEF MadeInv
    <2>1. /\ step'[m] = step[m] /\ hand'[m] = hand[m] /\ collected'[m] = collected[m]
          /\ step[m] # "idle" /\ target[m] = r
      BY <1>1
    <2>2. \A item : hand[m] = item => BringsIngs(item, r) \/ IngsWait(r)
      BY <2>1 DEF MissedInv, MadeInv
    <2>3. \A c : step[m] = "update" /\ collected[m] = c =>
              /\ NotReadyIfNone(c, r) \/ IngsWait(r)
              /\ c = Wanted(r) \/ IngsWait(r) \/ VcfgWait(r)
      BY <2>1 DEF MissedInv, MadeInv
    <2> QED BY <1>6, <2>1, <2>2, <2>3, WantedAtWork
  <1>11. OneWorker'
    BY <1>2 DEF MissedInv, OneWorker
  <1> QED BY <1>8, <1>9, <1>10, <1>11 DEF MissedInv

LEMMA MissedOfWorker ==
    ASSUME Settled, TypeOK, MissedInv, NEW ns \in Namespaces, Worker(ns)
    PROVE  MissedInv'
  <1>1. ~ListingFails
    <2>1. \A i \in VarnishIngresses : ing[i] \in Defs
      BY DEF VarnishIngresses, TypeOK
    <2> QED BY <2>1 DEF ListingFails, Settled
  <1>2. ~CollectsNothing(ns)
    BY <1>1 DEF CollectsNothing
  <1>3. ~SyncSvc(ns) /\ ~SyncSvcDeleted(ns)
    <2>1. queue[ns] # <<>> => Head(queue[ns]).kind \in {"ing", "ingDeleted", "vcfg", "vcfgDeleted"}
      BY WaitingTaken DEF MissedInv, HomeInv, AtHome
    <2> QED BY <2>1 DEF SyncSvc, SyncSvcDeleted, Takes
  <1>4. CASE CollectFails(ns)
    <2>1. /\ step[ns] # "idle" /\ UNCHANGED cluster /\ UNCHANGED config /\ ReturnsError(ns)
          /\ target[ns] \in svcs
      BY <1>4 DEF CollectFails, Step, varnish, MissedInv, HomeInv
    <2> QED BY <2>1, MissedOfReturn
  <1>5. CASE CollectPanics(ns)
    <2>1. \A m \in Namespaces : Waiting(m)' = Waiting(m)
      BY <1>5 DEF CollectPanics, queues, Waiting
    <2> QED BY <1>5, <2>1, MissedOfFailed DEF CollectPanics
  <1>6. CASE Update(ns)
    <2>1. PICK s \in svcs : s = target[ns]
      BY <1>6 DEF Update, MissedInv, HomeInv
    <2>2. /\ step[ns] = "update" /\ UNCHANGED cluster
          /\ \A r \in svcs \ {s} : config'[r] = config[r]
          /\ ReturnsError(ns) \/ (ReturnsNil(ns) /\ config'[s] = collected[ns])
      BY <1>6, <2>1 DEF Update, Step, TypeOK
    <2> QED BY <2>1, <2>2, MissedOfReturn
  <1> QED BY <1>2, <1>3, <1>4, <1>5, <1>6, MissedOfSyncIng, MissedOfSyncVcfg, MissedOfCollect
      DEF Worker

\* Whatever the workers and the changes interleave, fail and try again, no
\* change is missed: a Varnish Service has the configuration that it should
\* have, or it is being made, or an item waits that brings the worker to it.
\* The hypotheses leave out what the code does miss: Services that come or go,
\* an Ingress or a VarnishConfig that moves to another Service, a malformed
\* annotation, and a Service that workers of several namespaces update.
THEOREM MissesNothing ==
    ASSUME Settled
    PROVE  Spec /\ OneWorker => []NothingMissed
  <1>1. Init /\ OneWorker => MissedInv
    <2> SUFFICES ASSUME Init, OneWorker
                 PROVE  MissedInv
      OBVIOUS
    <2>1. svcs \subseteq Services /\ \A s \in svcs : s.ns \in Namespaces
      BY ServicesAssumption DEF Init
    <2>2. \A ns \in Namespaces : Waiting(ns) = {}
      BY DEF Init, Waiting, Range
    <2>3. \A s : IngsBy(s) = {}
      BY DEF Init, IngsBy
    <2>4. \A s \in svcs : config[s] = NotReady /\ Wanted(s) = NotReady
      BY <2>1, <2>3, WantedSources DEF Init
    <2>5. HomeInv /\ MadeInv
      BY <2>2 DEF Init, HomeInv, MadeInv
    <2>6. StoredInv
      BY <2>4 DEF StoredInv, NotReadyIfNone
    <2> QED BY <2>5, <2>6 DEF MissedInv
  <1>2. ASSUME TypeOK, MissedInv, [Next]_vars
        PROVE  MissedInv'
    <2>1. CASE Change
      BY <1>2, <2>1, MissedOfChange
    <2>2. ASSUME NEW ns \in Namespaces, Worker(ns)
          PROVE  MissedInv'
      BY <1>2, <2>2, MissedOfWorker
    <2>3. ASSUME NEW ns \in Namespaces, NEW n \in DOMAIN retries[ns], Retry(ns, n)
          PROVE  MissedInv'
      BY <1>2, <2>3, MissedOfRetry
    <2>4. CASE UNCHANGED vars
      <3>1. \A m \in Namespaces : Waiting(m)' = Waiting(m)
        BY <2>4 DEF vars, Waiting
      <3>2. UNCHANGED <<cluster, locals, varnish>>
        BY <2>4 DEF vars, cluster, locals, varnish
      <3> QED BY <1>2, <3>1, <3>2, MissedOfFailed
    <2> QED BY <1>2, <2>1, <2>2, <2>3, <2>4 DEF Next
  <1>3. TypeOK /\ MissedInv => NothingMissed
    BY MissedInvImplies
  <1> QED BY <1>1, <1>2, <1>3, IngressTypeCorrect, PTL DEF Spec
=============================================================================
