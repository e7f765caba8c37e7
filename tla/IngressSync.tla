----------------------------- MODULE IngressSync -----------------------------
(***************************************************************************)
(* How Ingresses get to Varnish Services (pkg/controller/ingress.go): the  *)
(* rules that assign an Ingress to a Varnish Service, and the workers, one *)
(* for each namespace, that collect the Ingresses of a Service, merge them *)
(* and hand the result to the Varnish controller.                          *)
(*                                                                         *)
(* The state of the cluster is what the informers' caches hold; each       *)
(* change puts an item on the queue of its namespace (NamespaceQueues has  *)
(* the queues in detail).  A worker that adds, updates or deletes an       *)
(* Ingress takes three steps, between which other workers run: it chooses  *)
(* the Varnish Service, it collects that Service's Ingresses, and it       *)
(* updates the Service.  What the Varnish controller then does with the    *)
(* configuration is the subject of VarnishController.                      *)
(*                                                                         *)
(* A VarnishConfig names one Service and does not configure self-sharding, *)
(* and a namespace has at most one.                                        *)
(***************************************************************************)
EXTENDS Integers, SequencesExt

CONSTANTS
    Namespaces,
    Services,      \* Services that may run Varnish, [ns, name]
    Names,         \* their names
    Ingresses,
    Home,          \* Home[i]: the namespace of Ingress i
    Hosts,
    Defs,          \* the definitions that Ingresses may have
    VcfgDefs,      \* the definitions that VarnishConfigs may have
    NoNamespace,   \* an annotation with a Service's name only
    NoAnnotation,  \* no varnish-svc annotation
    Malformed,     \* an annotation that is not namespace/name or name
    Absent,        \* not in the cache; nothing at all
    NotReady,      \* a Varnish Service without a configuration
    Changes,       \* the kinds of changes in the cluster
    MaxChanges,    \* bound on their number
    MaxFaults      \* bound on failed synchronisations that could succeed

Annotations == [ns : Namespaces \cup {NoNamespace}, name : Names]

\* An Ingress, of the controller's class or not: its varnish-svc annotation,
\* whether it has a default backend, and the hosts its rules are for.
IngressDefs == [class : BOOLEAN, svc : Annotations \cup {NoAnnotation, Malformed},
                backend : BOOLEAN, hosts : SUBSET Hosts]

\* A VarnishConfig: the Service it is for, and a version of its content.
VarnishConfigs == [svc : Names, content : Nat]

ASSUME ServicesAssumption == Services \subseteq [ns : Namespaces, name : Names]
ASSUME HomeAssumption == Home \in [Ingresses -> Namespaces]
ASSUME DefsAssumption == Defs \subseteq IngressDefs /\ VcfgDefs \subseteq VarnishConfigs
ASSUME AnnotationAssumption == {NoAnnotation, Malformed} \cap Annotations = {}
                            /\ NoAnnotation # Malformed
                            /\ NoNamespace \notin Namespaces
ASSUME AbsentAssumption == Absent \notin Defs \cup VcfgDefs
ASSUME BoundsAssumption == MaxChanges \in Nat /\ MaxFaults \in Nat

\* A configuration: the Ingresses it was made from, each as it was then, and
\* the VarnishConfig with its namespace.
SourcesOf(I) == [I -> Defs]
Sources == UNION {SourcesOf(I) : I \in SUBSET Ingresses}
Configs == [ings : Sources, vcfg : [ns : Namespaces, def : VcfgDefs] \cup {Absent}]

\* Items of the queues.  A SyncObj for Add or Update is only used for its key.
Items == [kind : {"ing"}, key : Ingresses]
    \cup [kind : {"ingDeleted"}, key : Ingresses, def : Defs]
    \cup [kind : {"svc", "svcDeleted"}, key : Services]
    \cup [kind : {"vcfg"}, key : Namespaces]
    \cup [kind : {"vcfgDeleted"}, key : Namespaces, def : VcfgDefs]

VARIABLES
    \* the caches
    ing,         \* ing[i]: definition of the Ingress
    svcs,        \* the Varnish Services
    vcfg,        \* vcfg[ns]: the VarnishConfig
    \* the workers
    queue,       \* queue[ns]: items of the namespace's queue
    retries,     \* retries[ns]: items that failed, to be added again
    step,        \* "idle", or the next step with an Ingress
    hand,        \* the item at work
    target,      \* the Varnish Service chosen for it
    collected,   \* the configuration made for that Service
    \* the Varnish controller
    config,      \* config[s]: Absent, NotReady, or a configuration
    endpoints,   \* Services whose endpoints the Varnish controller has
    up,          \* the process has not panicked
    changes, faults

cluster == <<ing, svcs, vcfg>>
queues  == <<queue, retries>>
locals  == <<step, hand, target, collected>>
varnish == <<config, endpoints>>
vars == <<ing, svcs, vcfg, queue, retries, step, hand, target, collected,
          config, endpoints, up, changes, faults>>

\* The controller runs in a cluster with some Varnish Services, and no
\* Ingresses or VarnishConfigs so far.
Init ==
    /\ ing = [i \in Ingresses |-> Absent]
    /\ svcs \in SUBSET Services
    /\ vcfg = [ns \in Namespaces |-> Absent]
    /\ queue = [ns \in Namespaces |-> <<>>]
    /\ retries = [ns \in Namespaces |-> <<>>]
    /\ step = [ns \in Namespaces |-> "idle"]
    /\ hand = [ns \in Namespaces |-> Absent]
    /\ target = [ns \in Namespaces |-> Absent]
    /\ collected = [ns \in Namespaces |-> Absent]
    /\ config = [s \in Services |-> IF s \in svcs THEN NotReady ELSE Absent]
    /\ endpoints = svcs
    /\ up = TRUE
    /\ changes = 0
    /\ faults = 0

-----------------------------------------------------------------------------
(* The rules.                                                              *)

Only(S) == \E s \in S : S = {s}

In(ns) == {s \in svcs : s.ns = ns}

\* The Service that an annotation names, for an Ingress of ns.
Named(a, ns) == [ns |-> IF a.ns = NoNamespace THEN ns ELSE a.ns, name |-> a.name]

\* The Varnish Service for an Ingress of namespace ns: none or one.
VarnishSvcForIng(ns, def) ==
    {s \in svcs :
        IF def.svc = NoAnnotation
        THEN svcs = {s} \/ (~Only(svcs) /\ In(ns) = {s})
        ELSE def.svc # Malformed /\ s = Named(def.svc, ns)}

\* Faulty: no test of the class.
Everything == {i \in Ingresses : ing[i] # Absent}

\* isVarnishIngress, of those in the cache.
VarnishIngresses == {i \in Ingresses : ing[i] # Absent /\ ing[i].class}

\* Faulty: any Service of the Ingress's namespace will do.
IsForAnyOfNamespace(s, ns, i) ==
    IF ing[i].svc = NoAnnotation
    THEN Only(svcs) \/ Home[i] = s.ns
    ELSE ing[i].svc # Malformed /\ s = Named(ing[i].svc, Home[i])

\* Faulty: a name without a namespace is for the worker's namespace.
IsForWorkersNamespace(s, ns, i) ==
    IF ing[i].svc = NoAnnotation
    THEN Only(svcs) \/ (Home[i] = s.ns /\ Only(In(ns)))
    ELSE ing[i].svc # Malformed /\ s = Named(ing[i].svc, ns)

\* getIngsForVarnishSvc in the worker of ns: whether Ingress i is for s.
IsFor(s, ns, i) ==
    IF ing[i].svc = NoAnnotation
    THEN Only(svcs) \/ (Home[i] = s.ns /\ Only(In(ns)))
    ELSE ing[i].svc # Malformed /\ s = Named(ing[i].svc, Home[i])

IngsForVarnishSvc(s, ns) == {i \in VarnishIngresses : IsFor(s, ns, i)}

\* getIngsForVarnishSvc returns an error.
ListingFails == \E i \in VarnishIngresses : ing[i].svc = Malformed

\* ings2VCLSpec panics.
TwoDefaults(I) == \E i, j \in I : i # j /\ ing[i].backend /\ ing[j].backend

\* The VarnishConfig that the worker of ns finds for a Service s.
VcfgFor(s, ns) ==
    IF vcfg[ns] # Absent /\ vcfg[ns].svc = s.name
    THEN [ns |-> ns, def |-> vcfg[ns]] ELSE Absent

-----------------------------------------------------------------------------
(* Changes in the cluster.                                                 *)

Changed(kind, ns, item) ==
    /\ kind \in Changes
    /\ changes < MaxChanges
    /\ changes' = changes + 1
    /\ queue' = [queue EXCEPT ![ns] = Append(@, item)]
    /\ UNCHANGED <<retries, locals, varnish, up, faults>>

CreateIng(i, def) ==
    /\ ing[i] = Absent
    /\ ing' = [ing EXCEPT ![i] = def]
    /\ Changed("ing", Home[i], [kind |-> "ing", key |-> i])
    /\ UNCHANGED <<svcs, vcfg>>

\* The class and the annotation stay.
ModifyIng(i, def) ==
    /\ ing[i] # Absent /\ ing[i] # def
    /\ ing[i].class = def.class /\ ing[i].svc = def.svc
    /\ ing' = [ing EXCEPT ![i] = def]
    /\ Changed("ing", Home[i], [kind |-> "ing", key |-> i])
    /\ UNCHANGED <<svcs, vcfg>>

\* The class or the annotation changes.
MoveIng(i, def) ==
    /\ ing[i] # Absent
    /\ ing[i].class # def.class \/ ing[i].svc # def.svc
    /\ ing' = [ing EXCEPT ![i] = def]
    /\ Changed("move", Home[i], [kind |-> "ing", key |-> i])
    /\ UNCHANGED <<svcs, vcfg>>

DeleteIng(i) ==
    /\ ing[i] # Absent
    /\ ing' = [ing EXCEPT ![i] = Absent]
    /\ Changed("ing", Home[i], [kind |-> "ingDeleted", key |-> i, def |-> ing[i]])
    /\ UNCHANGED <<svcs, vcfg>>

CreateSvc(s) ==
    /\ s \notin svcs
    /\ svcs' = svcs \cup {s}
    /\ Changed("svc", s.ns, [kind |-> "svc", key |-> s])
    /\ UNCHANGED <<ing, vcfg>>

DeleteSvc(s) ==
    /\ s \in svcs
    /\ svcs' = svcs \ {s}
    /\ Changed("svc", s.ns, [kind |-> "svcDeleted", key |-> s])
    /\ UNCHANGED <<ing, vcfg>>

SetVcfg(ns, def) ==
    /\ vcfg[ns] # def
    /\ vcfg[ns] # Absent => vcfg[ns].svc = def.svc
    /\ vcfg' = [vcfg EXCEPT ![ns] = def]
    /\ Changed("vcfg", ns, [kind |-> "vcfg", key |-> ns])
    /\ UNCHANGED <<ing, svcs>>

\* The VarnishConfig is for another Service from now on.
MoveVcfg(ns, def) ==
    /\ vcfg[ns] # Absent
    /\ vcfg[ns].svc # def.svc
    /\ vcfg' = [vcfg EXCEPT ![ns] = def]
    /\ Changed("moveVcfg", ns, [kind |-> "vcfg", key |-> ns])
    /\ UNCHANGED <<ing, svcs>>

DeleteVcfg(ns) ==
    /\ vcfg[ns] # Absent
    /\ vcfg' = [vcfg EXCEPT ![ns] = Absent]
    /\ Changed("vcfg", ns, [kind |-> "vcfgDeleted", key |-> ns, def |-> vcfg[ns]])
    /\ UNCHANGED <<ing, svcs>>

Change ==
    \/ \E i \in Ingresses, def \in Defs :
        CreateIng(i, def) \/ ModifyIng(i, def) \/ MoveIng(i, def)
    \/ \E i \in Ingresses : DeleteIng(i)
    \/ \E s \in Services : CreateSvc(s) \/ DeleteSvc(s)
    \/ \E ns \in Namespaces, def \in VcfgDefs : SetVcfg(ns, def) \/ MoveVcfg(ns, def)
    \/ \E ns \in Namespaces : DeleteVcfg(ns)

-----------------------------------------------------------------------------
(* The workers' steps.                                                     *)

\* A step of the worker of ns.
Step(ns) == up /\ UNCHANGED <<cluster, up, changes>>

\* The worker takes an item of kind off its queue.
Takes(ns, kind) ==
    /\ Step(ns)
    /\ step[ns] = "idle"
    /\ queue[ns] # <<>> /\ Head(queue[ns]).kind = kind

\* The item that is taken is done within the step.
Synced(ns) ==
    /\ queue' = [queue EXCEPT ![ns] = Tail(@)]
    /\ UNCHANGED <<retries, locals>>

\* It fails, and will be added again.
Failed(ns) ==
    /\ queue' = [queue EXCEPT ![ns] = Tail(@)]
    /\ retries' = [retries EXCEPT ![ns] = Append(@, Head(queue[ns]))]
    /\ UNCHANGED locals

Fault == faults < MaxFaults /\ faults' = faults + 1
NoFault == UNCHANGED faults

\* AddRateLimited: its delay is over.
Retry(ns, n) ==
    /\ Step(ns)
    /\ n \in DOMAIN retries[ns]
    /\ queue' = [queue EXCEPT ![ns] = Append(@, retries[ns][n])]
    /\ retries' = [retries EXCEPT ![ns] = RemoveAt(@, n)]
    /\ UNCHANGED <<locals, varnish, faults>>

\* Faulty: no test for nil.
AddOrUpdateIngUnchecked(ns, def) ==
    \E s \in Services \cup {Absent} :
        /\ s \in VarnishSvcForIng(ns, def) \/ (s = Absent /\ VarnishSvcForIng(ns, def) = {})
        /\ queue' = [queue EXCEPT ![ns] = Tail(@)]
        /\ hand' = [hand EXCEPT ![ns] = Head(queue[ns])]
        /\ target' = [target EXCEPT ![ns] = s]
        /\ step' = [step EXCEPT ![ns] = "collect"]
        /\ UNCHANGED <<retries, collected>>

\* addOrUpdateIng chooses the Varnish Service, or fails without one.
AddOrUpdateIng(ns, def) ==
    \/ VarnishSvcForIng(ns, def) = {} /\ Failed(ns)
    \/ \E s \in VarnishSvcForIng(ns, def) :
        /\ queue' = [queue EXCEPT ![ns] = Tail(@)]
        /\ hand' = [hand EXCEPT ![ns] = Head(queue[ns])]
        /\ target' = [target EXCEPT ![ns] = s]
        /\ step' = [step EXCEPT ![ns] = "collect"]
        /\ UNCHANGED <<retries, collected>>

SyncIng(ns) ==
    /\ Takes(ns, "ing")
    /\ LET def == ing[Head(queue[ns]).key] IN
        \/ def = Absent /\ Failed(ns)
        \/ def # Absent /\ ~def.class /\ Synced(ns)
        \/ def # Absent /\ def.class /\ AddOrUpdateIng(ns, def)
    /\ NoFault /\ UNCHANGED varnish

\* Faulty: nothing to do for a deleted Ingress.
SyncIngDeletedIgnored(ns) ==
    /\ Takes(ns, "ingDeleted")
    /\ Synced(ns)
    /\ NoFault /\ UNCHANGED varnish

SyncIngDeleted(ns) ==
    /\ Takes(ns, "ingDeleted")
    /\ AddOrUpdateIng(ns, Head(queue[ns]).def)
    /\ NoFault /\ UNCHANGED varnish

\* The worker is done with the Ingress in hand: with success, or to try again.
Returns(ns) ==
    /\ step' = [step EXCEPT ![ns] = "idle"]
    /\ hand' = [hand EXCEPT ![ns] = Absent]
    /\ target' = [target EXCEPT ![ns] = Absent]
    /\ collected' = [collected EXCEPT ![ns] = Absent]
    /\ UNCHANGED queue
ReturnsNil(ns) == Returns(ns) /\ UNCHANGED retries
ReturnsError(ns) ==
    /\ Returns(ns)
    /\ retries' = [retries EXCEPT ![ns] = Append(@, hand[ns])]

\* The Ingresses of the Service and the VarnishConfig.
Collect(ns) ==
    /\ Step(ns)
    /\ step[ns] = "collect"
    /\ ~ListingFails
    /\ LET s == target[ns]
           I == IngsForVarnishSvc(s, ns) IN
        /\ ~TwoDefaults(I)
        /\ collected' = [collected EXCEPT ![ns] =
               IF I = {} THEN NotReady
               ELSE [ings |-> [i \in I |-> ing[i]], vcfg |-> VcfgFor(s, ns)]]
    /\ step' = [step EXCEPT ![ns] = "update"]
    /\ NoFault /\ UNCHANGED <<queues, hand, target, varnish>>

\* The error of getIngsForVarnishSvc is not returned.
CollectsNothing(ns) ==
    /\ Step(ns)
    /\ step[ns] = "collect"
    /\ ListingFails
    /\ ReturnsNil(ns)
    /\ NoFault /\ UNCHANGED varnish

\* Endpoints of a backend are not known, a Secret is missing and the like.
CollectFails(ns) ==
    /\ Step(ns)
    /\ step[ns] = "collect"
    /\ ~ListingFails
    /\ IngsForVarnishSvc(target[ns], ns) # {}
    /\ ReturnsError(ns)
    /\ Fault /\ UNCHANGED varnish

CollectPanics(ns) ==
    /\ up
    /\ step[ns] = "collect"
    /\ ~ListingFails
    /\ TwoDefaults(IngsForVarnishSvc(target[ns], ns))
    /\ up' = FALSE
    /\ UNCHANGED <<cluster, queues, locals, varnish, changes, faults>>

\* HasConfig and Update, or SetNotReady: the configuration is stored whether
\* or not the instances of Varnish can then be updated.
Update(ns) ==
    /\ Step(ns)
    /\ step[ns] = "update"
    /\ LET s == target[ns]
           unknown == config[s] = Absent /\ collected[ns] = NotReady IN
        /\ config' = [config EXCEPT ![s] = IF unknown THEN @ ELSE collected[ns]]
        /\ \/ /\ ~unknown
              /\ s \in endpoints \/ collected[ns] = NotReady
              /\ ReturnsNil(ns) /\ NoFault
           \/ /\ unknown \/ (s \notin endpoints /\ collected[ns] # NotReady)
              /\ ReturnsError(ns) /\ NoFault
           \/ s \in endpoints /\ ReturnsError(ns) /\ Fault
    /\ UNCHANGED endpoints

\* The Ingresses of a namespace, of any class, that have a malformed annotation.
MalformedIn(ns) == {i \in Everything : Home[i] = ns /\ ing[i].svc = Malformed}

\* syncSvc: the Service's endpoints become known to the Varnish controller.
SyncSvc(ns) ==
    /\ Takes(ns, "svc")
    /\ LET s == Head(queue[ns]).key
           fails == s \notin svcs \/ MalformedIn(ns) # {} IN
        \/ fails /\ Failed(ns) /\ NoFault /\ UNCHANGED varnish
        \/ ~fails /\ Failed(ns) /\ Fault /\ UNCHANGED varnish
        \/ /\ ~fails
           /\ endpoints' = endpoints \cup {s}
           /\ config' = [config EXCEPT ![s] = IF @ = Absent THEN NotReady ELSE @]
           /\ \/ Synced(ns) /\ NoFault
              \/ Failed(ns) /\ Fault

\* DeleteVarnishSvc: the Varnish controller forgets the Service if and only if
\* one of its instances could not be set to not ready.
SyncSvcDeleted(ns) ==
    /\ Takes(ns, "svcDeleted")
    /\ LET s == Head(queue[ns]).key IN
        \/ Synced(ns) /\ NoFault /\ UNCHANGED varnish
        \/ /\ s \in endpoints
           /\ Failed(ns) /\ Fault
           /\ config' = [config EXCEPT ![s] = Absent]
           /\ endpoints' = endpoints \ {s}

\* enqueueIngsForVcfg: one Ingress for the Service that the VarnishConfig names.
EnqueueIngsForVcfg(ns, def) ==
    LET s == [ns |-> ns, name |-> def.svc]
        locally == {i \in VarnishIngresses : Home[i] = ns}
        malformed == \E i \in locally : ing[i].svc = Malformed
        candidates == {i \in locally : s \in VarnishSvcForIng(ns, ing[i])} IN
    \/ (malformed \/ s \notin svcs) /\ Failed(ns)
    \/ ~malformed /\ s \in svcs /\ candidates = {} /\ Synced(ns)
    \/ \E i \in candidates :
        /\ ~malformed /\ s \in svcs
        /\ queue' = [queue EXCEPT ![ns] = Append(Tail(@), [kind |-> "ing", key |-> i])]
        /\ UNCHANGED <<retries, locals>>

SyncVcfg(ns) ==
    /\ Takes(ns, "vcfg")
    /\ \/ vcfg[ns] = Absent /\ Failed(ns)
       \/ vcfg[ns] # Absent /\ EnqueueIngsForVcfg(ns, vcfg[ns])
    /\ NoFault /\ UNCHANGED varnish

SyncVcfgDeleted(ns) ==
    /\ Takes(ns, "vcfgDeleted")
    /\ EnqueueIngsForVcfg(ns, Head(queue[ns]).def)
    /\ NoFault /\ UNCHANGED varnish

Worker(ns) ==
    \/ SyncIng(ns) \/ SyncIngDeleted(ns)
    \/ Collect(ns) \/ CollectsNothing(ns) \/ CollectFails(ns) \/ CollectPanics(ns)
    \/ Update(ns)
    \/ SyncSvc(ns) \/ SyncSvcDeleted(ns)
    \/ SyncVcfg(ns) \/ SyncVcfgDeleted(ns)

Next ==
    \/ Change
    \/ \E ns \in Namespaces : Worker(ns) \/ \E n \in DOMAIN retries[ns] : Retry(ns, n)

\* The workers go on, and the delay of each failed item ends.  (An item that
\* fails again goes to the end of retries.)
Fairness == \A ns \in Namespaces : WF_vars(Worker(ns)) /\ WF_vars(Retry(ns, 1))

Spec == Init /\ [][Next]_vars /\ Fairness

-----------------------------------------------------------------------------
(* Properties.                                                             *)

\* Variables keep their types; a worker with an Ingress in hand has a Service
\* for it, and a configuration for the Service before it updates it.
TypeOK ==
    /\ ing \in [Ingresses -> Defs \cup {Absent}]
    /\ svcs \subseteq Services
    /\ vcfg \in [Namespaces -> VcfgDefs \cup {Absent}]
    /\ queue \in [Namespaces -> Seq(Items)]
    /\ retries \in [Namespaces -> Seq(Items)]
    /\ step \in [Namespaces -> {"idle", "collect", "update"}]
    /\ hand \in [Namespaces -> Items \cup {Absent}]
    /\ target \in [Namespaces -> Services \cup {Absent}]
    /\ collected \in [Namespaces -> Configs \cup {NotReady, Absent}]
    /\ \A ns \in Namespaces :
        /\ step[ns] # "idle" => hand[ns] \in Items /\ target[ns] \in Services
        /\ step[ns] = "update" => collected[ns] \in Configs \cup {NotReady}
    /\ config \in [Services -> Configs \cup {NotReady, Absent}]
    /\ endpoints \subseteq Services
    /\ up \in BOOLEAN
    /\ changes \in 0 .. MaxChanges
    /\ faults \in 0 .. MaxFaults

\* The rules of docs/ref-svcs-ingresses-ns.md: the Varnish Service that an
\* Ingress of namespace ns names, the only one of the cluster, or the only one
\* of the namespace.
Rule(s, ns, def) ==
    /\ def.class /\ def.svc # Malformed
    /\ def.svc # NoAnnotation => s = Named(def.svc, ns)
    /\ def.svc = NoAnnotation => svcs = {s} \/ (s.ns = ns /\ In(ns) = {s})

\* The configuration that a Varnish Service should have.
Wanted(s) ==
    LET I == {i \in Ingresses : ing[i] # Absent /\ Rule(s, Home[i], ing[i])} IN
    IF I = {} THEN NotReady
    ELSE [ings |-> [i \in I |-> ing[i]], vcfg |-> VcfgFor(s, s.ns)]

\* A waiting item that will have a worker update Varnish Service s: for an
\* Ingress, or for a VarnishConfig with one of the Ingresses of s.
BringsIngs(item, s) ==
    \/ /\ item.kind = "ing"
       /\ ing[item.key] # Absent /\ ing[item.key].class
       /\ s \in VarnishSvcForIng(s.ns, ing[item.key])
    \/ item.kind = "ingDeleted" /\ s \in VarnishSvcForIng(s.ns, item.def)
BringsVcfg(item, s) ==
    \/ item.kind = "vcfg" /\ vcfg[item.key] # Absent /\ vcfg[item.key].svc = s.name
    \/ item.kind = "vcfgDeleted" /\ item.def.svc = s.name
Brings(item, s) == BringsIngs(item, s) \/ BringsVcfg(item, s)

Waiting(ns) == Range(queue[ns]) \cup Range(retries[ns])

\* The worker of its namespace is about to collect, or to store, what s should
\* have.
InProgress(s) ==
    /\ step[s.ns] # "idle" /\ target[s.ns] = s
    /\ step[s.ns] = "update" => collected[s.ns] = Wanted(s)

\* At any time a Varnish Service has the configuration that it should have, or
\* the worker of its namespace is just making it, or an item waits there that
\* brings the worker to it: no change is lost between the steps of a worker,
\* with a failure, or behind another item for the same Ingress.  (Where the
\* annotations of Ingresses and the names in VarnishConfigs stay.)
NothingMissed ==
    \A s \in svcs :
        \/ config[s] = Wanted(s)
        \/ InProgress(s)
        \/ \E item \in Waiting(s.ns) : Brings(item, s)

IsConfig(c) == c \notin {Absent, NotReady}

\* Whatever changes meanwhile, and whichever worker made the configuration, a
\* Varnish Service only implements Ingresses of the controller's class, not
\* those that name another Service, and one default backend at most.
Addressed(s, c) ==
    IsConfig(c) =>
        /\ \A i \in DOMAIN c.ings :
            /\ c.ings[i].class
            /\ c.ings[i].svc = NoAnnotation \/ s = Named(c.ings[i].svc, Home[i])
        /\ \A i, j \in DOMAIN c.ings : c.ings[i].backend /\ c.ings[j].backend => i = j

OnlyAddressed == \A s \in Services : Addressed(s, config[s])

\* A Varnish Service implements no Ingress that the rules do not give to it,
\* whichever worker made its configuration.  (Where no annotation names a
\* Service of another namespace.)
Assigned(s, c) ==
    IsConfig(c) => \A i \in DOMAIN c.ings : Rule(s, Home[i], c.ings[i])

OnlyAssigned == \A s \in Services : Assigned(s, config[s])

\* When a worker collects the Ingresses of a Varnish Service, it finds those
\* that the rules give to the Service, whichever namespace the worker is for.
\* (With the same restriction.)
CollectsAssigned ==
    \A ns \in Namespaces : step[ns] = "collect" =>
        IngsForVarnishSvc(target[ns], ns)
            = {i \in Ingresses : ing[i] # Absent /\ Rule(target[ns], Home[i], ing[i])}

\* When the cluster no longer changes, each Varnish Service comes to implement
\* the Ingresses that the rules give to it, as they are, with the VarnishConfig
\* of its namespace, and is not ready if there are none.
ConfigsFollow == <>[](\A s \in svcs : config[s] = Wanted(s))

\* "An Ingress is rejected as an error if it would violate either of these
\* restrictions for a merge": a second default backend is not the end of the
\* controller.
DefaultsAreRejected == up

\* "its content is applied to Varnish Services in the same namespace"
VcfgOfSameNamespace ==
    \A s \in Services : IsConfig(config[s]) =>
        config[s].vcfg = Absent \/ config[s].vcfg.ns = s.ns
=============================================================================
