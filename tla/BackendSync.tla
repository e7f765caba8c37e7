---------------------------- MODULE BackendSync ----------------------------
(***************************************************************************)
(* How Services, Endpoints and BackendConfigs get into the configurations  *)
(* of the Ingresses that use them (pkg/controller/service.go, endpoints.go,*)
(* backendconfig.go, utils.go, and ings2VCLSpec of ingress.go).            *)
(*                                                                         *)
(* One namespace, whose Varnish Services are there and have instances; to  *)
(* which of them an Ingress belongs is fixed (IngressSync has the rules).  *)
(* An Ingress names backend Services at its places: the default backend,   *)
(* or a path of a host.  The Pods of a Service and its Endpoints change    *)
(* together, and only Endpoints have events.                               *)
(***************************************************************************)
EXTENDS WorkerQueue

CONSTANTS
    Ingresses,
    VarnishSvcs,
    VarnishOf,     \* VarnishOf[i]: the Varnish Service of the Ingress
    Foreign,       \* Ingresses of another class
    Places,
    Backends,      \* the other Services
    Defs,          \* Defs[i]: what the Ingress may be, [places -> Backends]
    Ports,         \* numbers of target ports
    Named,         \* a target port with a name
    NoPort,        \* the Ingresses' port is not in the Service; no such Pod
    IPs,
    Rollouts,      \* what Pods and Endpoints may be, [port, subsets]
    Bcfgs,         \* BackendConfigs
    BcfgDefs,      \* what they may be, [services, content, valid]
    Absent,        \* not in the cluster
    NotReady,      \* a Varnish Service without a configuration
    Changes,       \* the kinds of changes in the cluster
    Missed,        \* the kinds of deletions that informers may miss
    MaxChanges,    \* bound on their number
    MaxFaults      \* bound on failures of instances of Varnish

ASSUME FiniteAssumption == /\ IsFiniteSet(Ingresses) /\ IsFiniteSet(Places)
                           /\ IsFiniteSet(Backends) /\ IsFiniteSet(Bcfgs)
ASSUME VarnishAssumption == VarnishOf \in [Ingresses -> VarnishSvcs] /\ Foreign \subseteq Ingresses
ASSUME DefsAssumption ==
    \A i \in Ingresses : Defs[i] \subseteq UNION {[P -> Backends] : P \in SUBSET Places}
ASSUME RolloutsAssumption ==
    Rollouts \subseteq [port : Ports \cup {NoPort},
                        subsets : Seq([ports : SUBSET Ports, ips : SUBSET IPs])]
ASSUME BcfgsAssumption ==
    BcfgDefs \subseteq [services : SUBSET Backends, content : Nat, valid : BOOLEAN]
ASSUME PortsAssumption == {Named, NoPort, Absent} \cap Ports = {} /\ NoPort \notin {Named, Absent}
                       /\ Named # Absent
ASSUME AbsentAssumption == Absent \notin BcfgDefs \cup UNION {Defs[i] : i \in Ingresses}
ASSUME BoundsAssumption == MaxChanges \in Nat /\ MaxFaults \in Nat

\* A Service's target port for the Ingresses.
SvcDefs == Ports \cup {Named, NoPort}

\* What a configuration has for a place, for an Ingress, and as a whole.
VclSvcs == [name : Backends, port : Ports, ips : SUBSET IPs, bcfg : BcfgDefs \cup {Absent}]
VclIngs == UNION {[P -> VclSvcs] : P \in SUBSET Places}
Configs == UNION {[I -> VclIngs] : I \in SUBSET Ingresses}

ASSUME NotReadyAssumption == NotReady \notin Configs

Ing(i)         == [kind |-> "ing", key |-> i]
IngDeleted(i)  == [kind |-> "ingDeleted", key |-> i]
Svc(b)         == [kind |-> "svc", key |-> b]
SvcDeleted(b)  == [kind |-> "svcDeleted", key |-> b]
Endp(b)        == [kind |-> "endp", key |-> b]
Bcfg(c)        == [kind |-> "bcfg", key |-> c]
BcfgDeleted(S) == [kind |-> "bcfgDeleted", key |-> S]
Tombstone      == [kind |-> "tombstone", key |-> Absent]

Items == {Ing(i) : i \in Ingresses} \cup {IngDeleted(i) : i \in Ingresses}
    \cup {Svc(b) : b \in Backends} \cup {SvcDeleted(b) : b \in Backends}
    \cup {Endp(b) : b \in Backends}
    \cup {Bcfg(c) : c \in Bcfgs} \cup {BcfgDeleted(def.services) : def \in BcfgDefs}
    \cup {Tombstone}

VARIABLES
    ing,       \* ing[i]: the Ingress
    svc,       \* svc[b]: the Service's target port
    pods,      \* pods[b]: the Service's Pods and Endpoints
    bcfg,      \* bcfg[c]: the BackendConfig
    config,    \* config[v]: what the Varnish controller has for v
    changes, faults

cluster == <<ing, svc, pods, bcfg>>
vars == <<queue, retries, ing, svc, pods, bcfg, config, changes, faults>>

\* The controller starts in a cluster with resources, and has their Add events.
Init ==
    /\ ing \in {f \in [Ingresses -> {Absent} \cup UNION {Defs[i] : i \in Ingresses}] :
                    \A i \in Ingresses : f[i] \in Defs[i] \cup {Absent}}
    /\ svc \in [Backends -> SvcDefs \cup {Absent}]
    /\ pods \in [Backends -> Rollouts]
    /\ bcfg \in [Bcfgs -> BcfgDefs \cup {Absent}]
    /\ queue = SetToSeq({Ing(i) : i \in {i \in Ingresses : ing[i] # Absent}}
                   \cup {Svc(b) : b \in {b \in Backends : svc[b] # Absent}}
                   \cup {Endp(b) : b \in {b \in Backends : pods[b].subsets # <<>>}}
                   \cup {Bcfg(c) : c \in {c \in Bcfgs : bcfg[c] # Absent}})
    /\ retries = <<>>
    /\ config = [v \in VarnishSvcs |-> NotReady]
    /\ changes = 0
    /\ faults = 0

-----------------------------------------------------------------------------
(* Changes in the cluster.                                                 *)

Changed(kind, item) ==
    /\ kind \in Changes
    /\ changes < MaxChanges
    /\ changes' = changes + 1
    /\ Enqueue(<<item>>)
    /\ UNCHANGED <<config, faults>>

SetIng(i, def) ==
    /\ ing[i] # def
    /\ ing' = [ing EXCEPT ![i] = def]
    /\ Changed("ing", Ing(i))
    /\ UNCHANGED <<svc, pods, bcfg>>

SetSvc(b, def) ==
    /\ svc[b] # def
    /\ svc' = [svc EXCEPT ![b] = def]
    /\ Changed("svc", Svc(b))
    /\ UNCHANGED <<ing, pods, bcfg>>

Rollout(b, new) ==
    /\ pods[b] # new
    /\ pods' = [pods EXCEPT ![b] = new]
    /\ Changed("pods", Endp(b))
    /\ UNCHANGED <<ing, svc, bcfg>>

\* "rename" changes which Services a BackendConfig is for.
SetBcfg(c, def) ==
    /\ bcfg[c] # def
    /\ bcfg[c] # Absent /\ bcfg[c].services # def.services => "rename" \in Changes
    /\ bcfg' = [bcfg EXCEPT ![c] = def]
    /\ Changed("bcfg", Bcfg(c))
    /\ UNCHANGED <<ing, svc, pods>>

\* A deletion has the object in its item, unless the informer missed it.
Deleted(kind, item) ==
    \E x \in IF kind \in Missed THEN {item, Tombstone} ELSE {item} : Changed(kind, x)

DeleteIng(i) ==
    /\ ing[i] # Absent
    /\ ing' = [ing EXCEPT ![i] = Absent]
    /\ Deleted("ing", IngDeleted(i))
    /\ UNCHANGED <<svc, pods, bcfg>>

DeleteSvc(b) ==
    /\ svc[b] # Absent
    /\ svc' = [svc EXCEPT ![b] = Absent]
    /\ Deleted("svc", SvcDeleted(b))
    /\ UNCHANGED <<ing, pods, bcfg>>

DeleteBcfg(c) ==
    /\ bcfg[c] # Absent
    /\ bcfg' = [bcfg EXCEPT ![c] = Absent]
    /\ Deleted("bcfg", BcfgDeleted(bcfg[c].services))
    /\ UNCHANGED <<ing, svc, pods>>

Change ==
    \/ \E i \in Ingresses : DeleteIng(i) \/ \E def \in Defs[i] : SetIng(i, def)
    \/ \E b \in Backends : DeleteSvc(b) \/ (\E def \in SvcDefs : SetSvc(b, def))
                                        \/ (\E new \in Rollouts : Rollout(b, new))
    \/ \E c \in Bcfgs : DeleteBcfg(c) \/ \E def \in BcfgDefs : SetBcfg(c, def)

-----------------------------------------------------------------------------
(* From Ingresses to a configuration.                                      *)

\* The Ingress names b at the place.
NamesAt(i, p, b) == ing[i] # Absent /\ p \in DOMAIN ing[i] /\ ing[i][p] = b

\* getIngsForVarnishSvc
IngsOf(v) == {i \in Ingresses \ Foreign : ing[i] # Absent /\ VarnishOf[i] = v}

UsedBy(v) == {b \in Backends : \E i \in IngsOf(v), p \in Places : NamesAt(i, p, b)}

\* getTargetPort, with findPort in the first Pod for a name
TargetPort(b) == IF svc[b] = Named THEN pods[b].port ELSE svc[b]

\* Faulty: any subset, whatever its ports.
AnySubset(b) == {n \in DOMAIN pods[b].subsets : pods[b].subsets[n].ports # {}}

\* The subsets that have the port.
Serving(b) ==
    {n \in DOMAIN pods[b].subsets : TargetPort(b) \in pods[b].subsets[n].ports}

\* ingBackend2Addrs fails without a Service, a port, or a subset with that port.
Resolves(b) == svc[b] # Absent /\ TargetPort(b) \in Ports /\ Serving(b) # {}

\* Faulty: the ports instead of the addresses.
AddressPorts(b) == pods[b].subsets[CHOOSE n \in Serving(b) : \A k \in Serving(b) : n <= k].ports

\* endpsTargetPort2Addrs returns the addresses of the first subset with the port.
Addresses(b) == pods[b].subsets[CHOOSE n \in Serving(b) : \A k \in Serving(b) : n <= k].ips

BcfgsFor(b) == {c \in Bcfgs : bcfg[c] # Absent /\ b \in bcfg[c].services}

\* getVCLSvc applies the first BackendConfig listed, in no certain order.
BcfgsNow(b) == IF BcfgsFor(b) = {} THEN {Absent} ELSE {bcfg[c] : c \in BcfgsFor(b)}
BcfgChoices ==
    {f \in [Backends -> BcfgDefs \cup {Absent}] : \A b \in Backends : f[b] \in BcfgsNow(b)}

VclSvc(b, ips, f) == [name |-> b, port |-> TargetPort(b), ips |-> ips, bcfg |-> f[b]]

\* ings2VCLSpec: all of the backends are resolved, or it fails.
CanMerge(v) == \A b \in UsedBy(v) : Resolves(b)

Merged(v, f) ==
    IF IngsOf(v) = {} THEN NotReady
    ELSE [i \in IngsOf(v) |-> [p \in DOMAIN ing[i] |-> VclSvc(ing[i][p], Addresses(ing[i][p]), f)]]

-----------------------------------------------------------------------------
(* The handlers.                                                           *)

Fault == faults < MaxFaults /\ faults' = faults + 1
NoFault == UNCHANGED faults

Handles(kind) == Takes(kind) /\ UNCHANGED <<cluster, changes>>

\* It is over without an update.
ReturnsNil(items) == Synced(items) /\ UNCHANGED <<config, faults>>
ReturnsError == Failed(<<>>) /\ UNCHANGED <<config, faults>>

\* HasConfig and Update, or SetNotReady, for the Services of D.
UpdateConfigs(D) ==
    \E f \in BcfgChoices :
        config' = [v \in VarnishSvcs |-> IF v \in D THEN Merged(v, f) ELSE config[v]]

\* addOrUpdateIng for one Ingress after another, which belong to the Services
\* of U, up to the first error.  A configuration is stored even if the instances
\* cannot be updated.
AddOrUpdateIngs(U) ==
    \/ /\ \A v \in U : CanMerge(v)
       /\ UpdateConfigs(U)
       /\ Synced(<<>>) /\ NoFault
    \/ \E D \in SUBSET U :
        /\ \A v \in D : CanMerge(v)
        /\ \E v \in U : ~CanMerge(v)
        /\ UpdateConfigs(D)
        /\ Failed(<<>>) /\ NoFault
    \/ \E D \in SUBSET U :
        /\ D # {} /\ \A v \in D : CanMerge(v)
        /\ UpdateConfigs(D)
        /\ Failed(<<>>) /\ Fault

\* syncIng ignores Ingresses of another class.
SyncIng ==
    /\ Handles("ing")
    /\ LET i == Head(queue).key IN
        \/ ing[i] = Absent /\ ReturnsError
        \/ ing[i] # Absent /\ i \in Foreign /\ ReturnsNil(<<>>)
        \/ ing[i] # Absent /\ i \notin Foreign /\ AddOrUpdateIngs({VarnishOf[i]})

\* deleteIng does not look at the class.
SyncIngDeleted == Handles("ingDeleted") /\ AddOrUpdateIngs({VarnishOf[Head(queue).key]})

\* Faulty: default backends only.
DefaultMentions(b) == {m \in (Ingresses \ Foreign) \X {"default"} : NamesAt(m[1], m[2], b)}

\* getIngsForSvc: an Ingress comes once for each place that names the Service,
\* and those of another class are left out.
Mentions(b) == {m \in (Ingresses \ Foreign) \X Places : NamesAt(m[1], m[2], b)}

\* enqueueIngressForService
EnqueueIngressForService(b) ==
    \E order \in SetToSeqs(Mentions(b)) :
        ReturnsNil([n \in DOMAIN order |-> Ing(order[n][1])])

SyncSvc ==
    /\ Handles("svc")
    /\ LET b == Head(queue).key IN
        \/ svc[b] = Absent /\ ReturnsError
        \/ svc[b] # Absent /\ EnqueueIngressForService(b)

SyncSvcDeleted == Handles("svcDeleted") /\ EnqueueIngressForService(Head(queue).key)

\* syncEndp, also for deleted Endpoints.
SyncEndp ==
    /\ Handles("endp")
    /\ LET b == Head(queue).key IN
        \/ svc[b] = Absent /\ ReturnsNil(<<>>)
        \/ svc[b] # Absent /\ AddOrUpdateIngs({VarnishOf[m[1]] : m \in Mentions(b)})

\* enqueueIngsForBackendSvcs: for each of the Services one Ingress that names
\* it, of whatever class; svc2ing keeps the last one listed.
EnqueueIngsForBackendSvcs(S) ==
    LET named == {b \in S : \E i \in Ingresses, p \in Places : NamesAt(i, p, b)} IN
        \E svc2ing \in [named -> Ingresses], order \in SetToSeqs(named) :
            /\ \A b \in named : \E p \in Places : NamesAt(svc2ing[b], p, b)
            /\ ReturnsNil([n \in DOMAIN order |-> Ing(svc2ing[order[n]])])

\* An invalid BackendConfig is an error (validateProbe), one without Services
\* is ignored.
SyncBcfg ==
    /\ Handles("bcfg")
    /\ LET c == Head(queue).key IN
        \/ bcfg[c] = Absent /\ ReturnsError
        \/ bcfg[c] # Absent /\ bcfg[c].services = {} /\ ReturnsNil(<<>>)
        \/ /\ bcfg[c] # Absent /\ bcfg[c].services # {} /\ ~bcfg[c].valid
           /\ ReturnsError
        \/ /\ bcfg[c] # Absent /\ bcfg[c].services # {} /\ bcfg[c].valid
           /\ EnqueueIngsForBackendSvcs(bcfg[c].services)

SyncBcfgDeleted == Handles("bcfgDeleted") /\ EnqueueIngsForBackendSvcs(Head(queue).key)

\* dispatch looks for the tombstone in the wrong place, and drops it.
DropTombstone == Handles("tombstone") /\ ReturnsNil(<<>>)

Worker ==
    \/ SyncIng \/ SyncIngDeleted \/ SyncSvc \/ SyncSvcDeleted \/ SyncEndp
    \/ SyncBcfg \/ SyncBcfgDeleted \/ DropTombstone

Retries(n) == Retry(n) /\ UNCHANGED <<cluster, config, changes, faults>>

Next == Change \/ Worker \/ \E n \in DOMAIN retries : Retries(n)

\* The worker goes on, and the delay of each failed item ends.  (An item that
\* fails again goes to the end of retries.)
Fairness == WF_vars(Worker) /\ WF_vars(Retries(1))

Spec == Init /\ [][Next]_vars /\ Fairness

-----------------------------------------------------------------------------
(* Properties.                                                             *)

\* Variables keep their types.
TypeOK ==
    /\ DOMAIN ing = Ingresses
    /\ \A i \in Ingresses : ing[i] \in Defs[i] \cup {Absent}
    /\ svc \in [Backends -> SvcDefs \cup {Absent}]
    /\ pods \in [Backends -> Rollouts]
    /\ bcfg \in [Bcfgs -> BcfgDefs \cup {Absent}]
    /\ queue \in Seq(Items) /\ retries \in Seq(Items)
    /\ config \in [VarnishSvcs -> Configs \cup {NotReady}]
    /\ changes \in 0 .. MaxChanges
    /\ faults \in 0 .. MaxFaults

\* Every backend of v's Ingresses can be resolved, and no BackendConfig for one
\* of them is invalid: v can have a configuration.
Feasible(v) ==
    \A b \in UsedBy(v) : Resolves(b) /\ \A c \in BcfgsFor(b) : bcfg[c].valid

\* v is configured for its Ingresses, with every address at which their backends
\* are reached now, and with a BackendConfig as it is now if there is one.
AllAddresses(b) ==
    UNION {sub.ips : sub \in {sub \in ToSet(pods[b].subsets) : TargetPort(b) \in sub.ports}}

UpToDate(v) ==
    IF IngsOf(v) = {} THEN config[v] = NotReady
    ELSE /\ config[v] # NotReady /\ DOMAIN config[v] = IngsOf(v)
         /\ \A i \in IngsOf(v) :
                /\ DOMAIN config[v][i] = DOMAIN ing[i]
                /\ \A p \in DOMAIN ing[i] :
                       LET b == ing[i][p] IN
                           config[v][i][p] \in [name : {b}, port : {TargetPort(b)},
                                                ips : {AllAddresses(b)}, bcfg : BcfgsNow(b)]

\* Handling the item leads to an update of v, by itself or by what it enqueues.
Brings(x, v) ==
    \/ \E i \in IngsOf(v) : x = Ing(i)
    \/ \E i \in Ingresses : x = IngDeleted(i) /\ VarnishOf[i] = v
    \/ \E b \in UsedBy(v) : x = SvcDeleted(b) \/ (svc[b] # Absent /\ x \in {Svc(b), Endp(b)})
    \/ \E b \in UsedBy(v) : \E c \in BcfgsFor(b) : x = Bcfg(c) /\ bcfg[c].valid
    \/ \E S \in SUBSET Backends : x = BcfgDeleted(S) /\ S \cap UsedBy(v) # {}

\* At any time, whatever else fails and is retried for ever: a Varnish Service
\* that can have a configuration has the one the cluster asks for, or there is
\* an item waiting that will bring it.
NothingMissed ==
    \A v \in VarnishSvcs : Feasible(v) => UpToDate(v) \/ \E x \in Waiting : Brings(x, v)

\* When the cluster no longer changes, each Varnish Service that can have a
\* configuration comes to have the one the cluster asks for, for good.
BackendsFollow == <>[](\A v \in VarnishSvcs : Feasible(v) => UpToDate(v))
=============================================================================
