# A TLA+ model of the Varnish Ingress controller

The controller runs in a Kubernetes cluster. It watches Ingresses, Services,
Endpoints, Secrets, VarnishConfigs and BackendConfigs, makes a VCL
configuration from those that concern a *Varnish Service* (a Service labelled
`app: varnish-ingress` whose Pods run Varnish), and administers the Varnish
instances behind that Service over their CLI, so that each serves what its
Ingresses define and answers the readiness probe only then.

This directory holds TLA+ modules that model the control flow of the program,
TLC configurations that check them on small instances, and proofs that TLAPS
checks. `src/` stands for the root of the repository in all paths.

- [Inventory](#inventory): the system's parts and what makes each correct
- [Modules](#modules): what models what, and how closely
- [Runs](#runs): what TLC checks, with which bounds and fairness
- [Deviations](#deviations): where the code differs from what it says of itself
- [Proofs](#proofs): what holds for every value of the constants
- [Not modelled](#not-modelled) and [Plan](#plan)

To check a run, `tlc -config <run>.cfg <module>.tla`; to check the proofs of a
module, `tlapm <module>.tla`. `PROJECT.json` lists components, runs, the
mutants by which every property was tried out, the source lines of every
definition, hazards and theorems.

## Inventory

### Goroutines and what they share

    informers --(SyncObj)--> main queue --> dispatcher --> queue of namespace A --> worker A --+
       ^                                       |                                               |
       |                                       +-------> queue of namespace B --> worker B --+ |
    Kubernetes API                                                                           | |
                                                  Varnish controller: svcs, secrets  <-------+-+
                                                       ^          |
                                                    monitor       +--(admin CLI)--> Varnish instances

Informer callbacks put a `SyncObj` on the main queue for each change. The
dispatcher moves it to a queue of the object's namespace and creates queue and
worker for a namespace that it meets for the first time. Each worker handles
one item after the other. Handlers read the informers' caches (of other
namespaces too), put further items on their own queue, and call the Varnish
controller. The monitor goroutine goes over all Varnish Services at intervals.
Workers and monitor share the maps `svcs` and `secrets` and the service objects
without any lock; each instance object has a mutex that is held while one
goroutine talks to that instance. A signal makes the main goroutine shut the
queues down and wait for the workers.

### Components

| component | state | operations | hard about it | correct if |
|---|---|---|---|---|
| Varnish controller, `pkg/varnish/varnish.go` | `svcs`, `secrets`; per service its instances, spec, `secrName`, `cfgLoaded`; per instance its address, secret pointer, mutex | `AddOrUpdateVarnishSvc`, `DeleteVarnishSvc`, `Update`, `SetNotReady`, `HasConfig`, `SetAdmSecret`, `UpdateSvcForSecret`, `DeleteAdmSecret`, `Quit` | callers of several namespaces and the monitor overlap; commands fail half way; state is checked, then used after a lock | a ready instance serves an Ingress configuration; every instance gets to the present one; calls return |
| monitor, `pkg/varnish/monitor.go` | none | check of each instance, discarding of cold configurations, update of each service | runs against every call of a worker | it repairs what failed, and discards nothing in use |
| Varnish, `container/start.cli` | loaded configurations, their temperature, two labels | `vcl.load`, `vcl.label`, `vcl.list`, `vcl.discard` | may restart at any time and then has nothing but its start configuration | (external) |
| queues, `pkg/controller/worker.go` | main queue, queues and workers by namespace, WaitGroup | `next`, `work`, `Run`, `Stop` | dispatcher, workers, retries and shutdown interleave | nothing is lost or synchronised twice at once; each namespace in order and on its own; `Stop` returns when the workers have |
| start and termination, `cmd/main.go`, `pkg/controller/controller.go` | `stopCh`, `DoneChan` | `Run`, `Stop`, `handleTermination` | three goroutines end in no fixed order | the process ends after interactions with Varnish have |
| informers and their filter, `pkg/controller/controller.go` | caches (client-go) | `addObj`, `updateObj`, `deleteObj` | deletions may be missed (tombstones); unchanged objects are ignored | every change leads to an item |
| Ingress synchronisation, `pkg/controller/ingress.go` | none but the caches | `getVarnishSvcForIng`, `getIngsForVarnishSvc`, `ings2VCLSpec`, `addOrUpdateIng`, `deleteIng` | workers of several namespaces collect and update the same Varnish Service; two forms of one rule | each Varnish Service implements the Ingresses that the documented rules give to it |
| Service and Endpoints synchronisation, `service.go`, `endpoints.go`, `utils.go` | none | `syncSvc`, `deleteSvc`, `syncEndp` | depends on Pods, Endpoints and Secrets that come in any order | instances and their secret are those of the Pods |
| Secret synchronisation, `secret.go` | none | `syncSecret`, `deleteSecret` | a Secret may go and come back while a retry waits | the secret in use is the present one |
| VarnishConfig, BackendConfig synchronisation, `varnishconfig.go`, `backendconfig.go` | none | enqueue the Ingresses concerned; validation | which Ingresses are concerned before and after a change | every Ingress concerned is synchronised |
| VCL specification, `pkg/varnish/vcl/spec.go` | none | `Canonical`, `DeepHash` | what listers and maps return is in any order; an update is only loaded under a new name | same configuration, same name; other configuration, other name |
| generation and VCL templates, `ingress.go`, `pkg/varnish/vcl/*.tmpl` | none | `config...`, `GetSrc` | defaults, optional fields and negations pass through four representations, the last of which is a program | Varnish treats each request as the documentation says of the resources |
| metrics, events, generated client, deployment | counters | | | |

## Modules

| module | models | as |
|---|---|---|
| `VarnishInstances` | what is promised about an instance's labels | specification, implemented by `VarnishController` |
| `VarnishController` | Varnish controller, monitor, Varnish | state machine |
| `VarnishController_proofs` | | theorems |
| `NamespaceSync` | "each namespace is synced separately and sequentially, and all of the namespaces are synced in parallel" | specification, implemented by `NamespaceQueues` |
| `NamespaceQueues` | dispatcher, workers, queues, shutdown | state machine |
| `NamespaceQueues_proofs` | | theorems |
| `IngressSync` | assignment and synchronisation of Ingresses, with the Service and VarnishConfig handlers that lead to it | state machine |
| `IngressSync_proofs` | | theorems |
| `WorkerQueue` | the queue of one worker, as its handlers see it | operators and actions for the next two |
| `WorkerQueue_proofs` | | lemmas |
| `SecretSync` | Secrets, the Pods that name them, and the admin secret of a Varnish Service | state machine |
| `SecretSync_proofs` | | theorems |
| `BackendSync` | Services, Pods, Endpoints and BackendConfigs behind Ingresses | state machine |
| `BackendSync_proofs` | | theorems |
| `VclSpec` | `spec.go`: canonical form and hash | operators |
| `VclSpec_proofs` | | theorems on sorting |
| `VclMeaning` | `template.go` and the templates: what the generated VCL does to a request | operators |
| `VarnishConfigs` | validation, generation, naming and loading of what a VarnishConfig and the Ingresses ask for | state machine |
| `VarnishConfigs_proofs` | | theorems |
| `MC...` | values of the constants for TLC | |

The state machines meet at calls. What `IngressSync` calls
`config[s]` being set is a call of `Update` or `SetNotReady`, which
`VarnishController` takes apart into connections and commands; an item that a
worker of `IngressSync` takes is one that `NamespaceQueues` has brought to the
front of the namespace's queue. `SecretSync` and `BackendSync` stand beside
`IngressSync`: each has the handlers of other resources and one worker, and ends
where an instance's secret or the Service's configuration is set.
`VarnishConfigs` takes the step that is one assignment in those, from the
resources to what Varnish executes. They are separate modules because their
interleavings are independent: a product would multiply states without a new
interaction.

### VarnishController

A thread is a worker or the monitor, and `th[t]` its frame: where it is (`pc`),
which loop over instances it is in (`kind`), the service object it holds
(`ref`), the configuration it has captured (`cfg`), the instances still to
visit, and for the instance at work what the list of VCLs left to do (`need`,
`drop`). One step is one thing that another goroutine can observe: a call into
the controller up to its first loop, a turn of the loop, the connection (which
takes the mutex), one CLI command, the release. Service and instance
objects are allocated and garbage-collected (`SvcRefs`, `Gens`), because the
code keeps pointers across changes of the map: an address that is removed and
added again gets a new object with a new mutex while a goroutine may still hold
the old one.

| code | actions |
|---|---|
| `syncSvc` with `AddOrUpdateVarnishSvc` and `updateVarnishSvcAddrs`; `deleteSvc` with `DeleteVarnishSvc` | `syncSvc`, `DeleteVarnishSvc`, then loops of kind `remove`, `update`, `delete` |
| `addOrUpdateIng` with `HasConfig` and `Update`; `SetNotReady` | `addOrUpdateIng`, `Update`, `SetNotReady`, then loops of kind `update`, `notReady` |
| `syncSecret`, `deleteSecret` with `SetAdmSecret`, `DeleteAdmSecret`, `UpdateSvcForSecret` | `syncSecret`, `deleteSecret`, then a loop of kind `update` |
| `updateVarnishSvc`, `removeVarnishInstances`, `SetNotReady`: the loops | `NextInst` and, by kind, `EndUpdate`, `EndCheck`, `EndRemove`, `EndDelete`, `EndNotReady` |
| `updateVarnishInstance`, `setCfgLabel`, `checkInst` | `Connect`, `VCLInline`, `VCLLabelRegular`, `VCLLabelReady`, `VCLLabelNotReady`, `VCLDiscard`, `Finish`; `ConnectFails`, `ConnectionLost`, `CommandRefused`, `CommandFails` |
| `monitor` | `monitor`, enabled if `monIntvl > 0`, then loops of kind `check` and `update` |
| panics of the code | `PanicHasConfig`, `PanicDial` (the process starts anew, as after `Crash`) |
| Varnish | `Cool`, `Restart` (`container/start.cli` decides what is left) |

Abstracted: one Varnish Service (services share nothing but the maps); a
configuration is its own name and canonical form; `GetSrc` does not fail; a
secret is there or not, and a dial with one may fail; metrics, events, and
`Quit`.

### NamespaceQueues

`queue`, `nsQueue[ns]` and `retries` are the work queues of client-go, `taken`
and `hand[ns]` what dispatcher and workers hold. The creation of a worker is
three steps (`FindWorker` writes the map, then the `go` statement, then
`wg.Add`), since the worker runs meanwhile. `main` follows `Run` and `Stop`,
`signal` follows `handleTermination`. A handler is its result, and the items it
adds. The unsynchronised access to the map of workers while `Stop` iterates
over it is a choice between the outcomes that the Go runtime may produce: the
loop meets the new worker or does not, or the process ends (`MapFatal`).

### IngressSync

The caches are `ing`, `svcs` and `vcfg`. A change of a resource puts its item on
the queue of the namespace in the same step (so that the dispatcher's order is
kept). A worker that synchronises an Ingress takes three steps, as another
namespace's worker may run in between: it chooses the Varnish Service
(`SyncIng`, `SyncIngDeleted`), it collects the Service's Ingresses
(`Collect` and its failures), and it updates the Service (`Update`).
`VarnishSvcForIng` and `IngsForVarnishSvc` are the two forms of the assignment
in the code; `Rule` is the one of `docs/ref-svcs-ingresses-ns.md`, against which
they are checked.

Abstracted: a namespace has one VarnishConfig at most, which names one Service
and does not set self-sharding; backends, Endpoints, BackendConfigs and Secrets
appear as synchronisations that fail; a configuration is the set of Ingresses,
each as it was when it was collected, and the VarnishConfig.

### SecretSync

`WorkerQueue` gives the queue of the one namespace; handlers run to their end
before the next (the namespace is sequential, as `NamespaceQueues` shows). What
makes this hard is that the controller's map `secrets`, the Services' pointers
and the instances' share one slice of bytes: `heap` holds the slices, `secrets`
and `svc` refer to them, and `SetAdmSecret` writes into the one that is there
(`SliceFor`, `Copy`). `SyncSecret` and `SyncSecretDeleted` are `setSecret` and
`deleteSecret`, `SyncSvc` and `SyncEndp` set the secret that the Pods' volumes
name, `SyncVcfg` and `SyncIng` take the credentials of an `auth` into the
configuration. A value has a length and a content.

### BackendSync

Two Ingresses and the Services they use, with a target port as a number or a
name; Pods by rollout, each with the number of its named port; Endpoints in
subsets; BackendConfigs with a Service each. `Missed` are the resources whose
deletion the informer reports late, as a tombstone. `Resolves` and `VclSvc` follow
`ingBackend2Addrs` and `getVCLSvc` (`TargetPort`, `Serving`, `BcfgChoices`), `Merged`
follows `ings2VCLSpec`, and each handler is one action.

### VclSpec, VclMeaning, VarnishConfigs

A string is a sequence of character codes, short ones, because what the hash
runs together, how strings are sorted, prefixes and substitutions depend on
them. `VclSpec` has one operator for each `hash` method, which returns what is
written to the hash, and `Canonical` with each of its sorts (`StableSort` inserts
as `sort.Stable` does, so that `byIPPort`, which is no order, is what it is; the
elements of a list are put into canonical form before they are sorted and not after,
which the keys do not depend on).
`VclMeaning` reads the templates as programs: a request is a record of the
variables of VCL, each generated statement an operator on requests
(`AclStatement`, `AuthStatement`, `RewriteStatement`, `DispositionStatement`,
`ShardStatement`), `Received` their sequence in `vcl_recv`, and `Outcome` what
becomes of the request. The path rules of a host are a sequence in the Ingress and a map
in the `Spec` (`PathMap`), whose order is that of the strings when the template ranges over
it; `Compiles` includes that no two rules declare one object. `VarnishConfigs` has `validate...` and `config...` as in
the code, and five actions: a change of the resources, `syncVcfg`,
`addOrUpdateIng`, a restart of the controller, and within `addOrUpdateIng` the
loading under a name that Varnish may have already (`Update`). The order in
which listers and Go's maps return things is chosen anew each time
(`GeneratedFrom`).  `label` is the name that `vk8s_regular` points to, `loaded` what
Varnish compiled under each name.

The reference against which all this is checked is the second half of
`VarnishConfigs`, from `Relation` to `Documented`: what
`docs/ref-varnish-cfg.md`, `docs/ref-match-flags.md` and
`docs/ref-req-disposition.md` say becomes of a request, in terms of the resources
alone.

Abstracted: patterns are literal texts; an address has three bits; a number that
is formatted has one digit; a director's choice of an address is left open; see
[Not modelled](#not-modelled).

## Runs

Each run gives its constants in the `.cfg`. All switch the deadlock check off:
the bounded number of changes, calls, items or faults lets every behaviour
come to rest, and the process may end.

| run | bounds | shows |
|---|---|---|
| `ControllerConverges` | 1 worker, monitor, 1 address with 2 instance objects, 2 service objects, 2 configurations, 4 calls, 1 fault | `ReadyImpliesConfigured`: a ready instance never sends traffic to `vk8s_notavailable`. `ImplementsInstances`: refinement. `Converges`: whatever failed or overlapped, the monitor brings every instance it can administer to the present configuration, for good. `UnusedAreDiscarded`: replaced configurations go |
| `ControllerMutex` | 2 workers, monitor, 1 instance object, 2 configurations, 3 calls, 1 fault | `ListStaysValid`: what was read in the list of VCLs stays true until the commands derived from it are done. `CallsReturn`: no call waits for ever for the mutex |
| `QueuesSafety` | 2 namespaces, 3 items, 1 failure, shutdown | `ItemsAccounted`, `BegunInOrder`, `WaitGroupCounts`, and the refinement of `NamespaceSync` |
| `QueuesProgress` | 2 namespaces, in one of which everything fails, 2 items, shutdown | `EachIsSynced`: the other namespace is not held up. `StopReturnsUnlessMissed` |
| `IngressSafety` | 2 namespaces with a Varnish Service each, or none; 2 Ingresses with every kind of annotation; 3 changes of every kind, 1 fault | `OnlyAddressed`: under any interleaving and change, no Varnish Service implements an Ingress of another class or for another Service, or two default backends |
| `IngressRules` | up to 3 Varnish Services in 2 namespaces, 2 Ingresses, 4 changes, 1 fault | `CollectsAssigned`: a worker collects what the documented rules say. `OnlyAssigned`: no Varnish Service implements what the rules do not give to it |
| `IngressFollows` | 2 Varnish Services and 2 Ingresses of one namespace, 4 changes, 1 fault | `NothingMissed`: what a Varnish Service lacks is being made, or an item waits for it. `ConfigsFollow`: the configurations come to be those that the rules ask for |
| `SecretsFollow` | an admin secret with two values, a Secret with credentials, a Varnish Service with or without Pods, 2 changes, 1 fault | `SettledSecrets`: once all is synchronised, the instances have the present value. `SecretsFollow`: they come to have it, and the configuration the present credentials |
| `BackendsSafety` | 2 Ingresses of one Varnish Service, one Service for both, 2 rollouts, a BackendConfig valid or not; 1 change, 1 fault | `NothingMissed`: what the configuration lacks is always on its way, as an item or a retry |
| `BackendsFollow` | an Ingress with a default backend or a path, one of another class, 2 changes to what is behind them | `BackendsFollow`: the configuration comes to have the ports and addresses of the Pods |
| `VcfgServed` | 72 states of the resources, any change from one to another, 1 restart, 25 requests | `ServesResources`: Varnish answers every request as documented. `NamesResources`: no change that matters is missed. `ResyncKeepsConfig`: a name depends on the resources alone. `GetsServed`: what is valid compiles and is loaded |

One invariant of each module, `TypeOK`, is its type.

**Why the bounds are enough.** A race in the controller needs a reader and a
writer of one service or instance and a third party at most (two workers and
the monitor); a configuration that is overtaken needs two; an object that is
confused with its successor needs two; a repair needs the fault that it repairs.
A queue needs two items to be out of order and another namespace to be held
up. An assignment depends on no Service, one, or more than one, in the namespace
and in the cluster, which three Services in two namespaces cover. A change of a
Secret, a backend or a BackendConfig interferes with one other at most, since
their handlers run one after the other; two values of equal length are needed
for a slice to be shared. The states of the resources of `VcfgServed` have, for
each field of a VarnishConfig, two that differ in it and a request that tells
them apart, every comparison, method, selection and flag that the code treats
differently, and two elements where an order could matter. Names matter between
two states only, so that one change from any to any other covers the confusion of
one for the other. What matters most is proved for all bounds.

**Fairness.** `VarnishController`: each goroutine that can take a step does
(weak fairness; the Go scheduler), taking a mutex is strongly fair (a Go mutex
that starves a waiter for a millisecond hands over to it), and a configuration
without a label gets cold in the end (Varnish's behaviour). Calls, failures,
restarts and changes of the cluster have no fairness.
`NamespaceQueues`: weak fairness of the dispatcher, of each worker, of the
goroutines of termination once they have a signal, and of each delayed addition
(a timer). `IngressSync`: weak fairness of each worker and of the first retry
that waits; so in `SecretSync` and `BackendSync`. `VarnishConfigs`: weak fairness of
the synchronisation of an Ingress and of the VarnishConfig, which the worker
takes up again as long as they fail.

**Liveness and the monitor.** `Converges` needs the monitor (`monIntvl > 0`,
the default). An instance whose secret is not known cannot be administered and
is left out.

## Deviations

Where the code does not do what a document or a comment of the repository says,
a configuration exhibits a counterexample. One of them is a run:

| run | property | what happens |
|---|---|---|
| `HasConfigPanics` | `HasConfigFindsSpec` | `SetNotReady` sets the spec to nil and leaves `cfgLoaded` true; the next `HasConfig` dereferences it (`varnish.go:669`) |

Further counterexamples, kept for the time when the code changes (each is a
`.cfg` for the `MC` module, and TLC reports the property as violated):

- `HasConfigOverlap.cfg`, `HasConfigMeansServed` (`pkg/varnish/varnish.go:340`).
  updateVarnishSvc captures the configuration and the instances and sets
  cfgLoaded at its end, whatever another goroutine has stored in the service
  meanwhile; the comment at src/pkg/varnish/varnish.go:650 says: "HasConfig
  returns true iff a configuration is already loaded for a Varnish Service (so a
  new sync attempt is not necessary)."
- `DialWithoutSecret.cfg`, `DialHasSecret` (`pkg/varnish/varnish.go:217`). The
  secret is checked for nil before the mutex is locked and dereferenced after
  it: when UpdateSvcForSecret sets it to nil in between, the process panics,
  where src/pkg/varnish/varnish.go:208 promises an error: "No known admin
  secret".
- `NotReadyOvertaken.cfg`, `NotReadyWhenReturned`
  (`pkg/varnish/varnish.go:629`). SetNotReady does not stop an update that has
  already captured the spec, which makes instances ready again after they were
  made not ready; no later turn of the monitor repairs it, since the spec is
  nil; the comment at src/pkg/varnish/varnish.go:621 says: "The Service is set
  to the not ready state, by relabelling VCL so that readiness checks are not
  answered with status 200."
- `NotReadyStillServed.cfg`, `NotServedWhenNotReady`
  (`pkg/varnish/varnish.go:633`). SetNotReady relabels readiness only and leaves
  the label of regular traffic on the deleted Ingress's configuration;
  docs/varnish-as-ingress.md:55 says: "If there is no valid Ingress definition
  (none has been defined since the Varnish instance started, or the only valid
  definition was deleted), then Varnish generates a synthetic 503 Service Not
  Available response for every request."
- `DeletedIsRevived.cfg`, `DeletedStaysNotReady` (`pkg/varnish/varnish.go:561`).
  DeleteVarnishSvc removes the service from the map only if there was an error;
  after a success the monitor goes on to update it and makes its instances ready
  again; the comment at src/pkg/varnish/varnish.go:552 says: "The Varnish
  instance is set to the unready state, and no further action is taken (other
  resources in the cluster may shut down the Varnish instances)."
- `StopHangs.cfg`, `StopReturns` (`pkg/controller/worker.go:383`). Stop iterates
  over the workers while the dispatcher, which may have taken an item before the
  shutdown, goes on to create one: that worker's queue is never shut down and
  wg.Wait at line 389 never returns, so neither Run nor handleTermination does;
  the comment at src/pkg/controller/worker.go:378 says: "Stop shuts down the
  main queue loop initiated by Run(), and in turn shuts down all of the
  NamespaceWorkers."
- `StopReturnsEarly.cfg`, `StoppedMeansShutDown`
  (`pkg/controller/worker.go:361`). The worker is started (line 361) before it
  is counted (line 362): its own Done can come first, so that the counter is
  zero while another worker still runs and Stop closes DoneChan (a negative
  counter would panic); the comment at src/pkg/controller/worker.go:378 says:
  "Stop shuts down the main queue loop initiated by Run(), and in turn shuts
  down all of the NamespaceWorkers."
- `ExitBeforeQuit.cfg`, `ExitAfterQuit` (`cmd/main.go:208`). Run returns as soon
  as Stop has closed DoneChan, and main with it, which ends the process;
  handleTermination may not have reached vc.Quit (line 229), whose comment at
  src/pkg/varnish/varnish.go:760 says: "Quit stops the Varnish controller." and
  which waits for the interactions with Varnish (varnish.go:764).
- `IngressOverwritten.cfg`, `ConfigsFollow` (`pkg/controller/ingress.go:940`).
  The worker of each namespace collects the Ingresses of the Varnish Service at
  line 839 and updates it at line 940 with nothing in between that keeps the
  workers of other namespaces from doing the same: an older collection
  overwrites a newer one, and no later event repairs it;
  docs/ref-svcs-ingresses-ns.md:66 says: "if there is only one Varnish Service
  (with the ``app:varnish-ingress`` label) in the entire cluster, then that
  Service implements the Ingress rules."
- `IngressMoved.cfg`, `ConfigsFollow` (`pkg/controller/ingress.go:827`). An
  Update of an Ingress whose annotation has changed only updates the Varnish
  Service that is named now; the one before is not updated and goes on
  implementing the Ingress; docs/ref-svcs-ingresses-ns.md:56 says: "An Ingress
  definition may have the annotation" ``ingress.varnish-cache.org/varnish-svc``
  "to specify the Varnish Service that implements its rules".
- `IngressDefaults.cfg`, `DefaultsAreRejected`
  (`pkg/controller/ingress.go:324`). A second default backend is a panic in the
  worker's goroutine, which ends the controller (and again after each restart,
  while both Ingresses are there); docs/ref-svcs-ingresses-ns.md:91 says: "An
  Ingress is rejected as an error if it would violate either of these
  restrictions for a merge."
- `IngressMalformed.cfg`, `ConfigsFollow` (`pkg/controller/ingress.go:841`).
  When an annotation of any Ingress of the class is malformed,
  getIngsForVarnishSvc fails for every Varnish Service and addOrUpdateIng
  returns nil: the other Ingresses are reported as synced and not implemented;
  docs/monitor.md:86 says: "If there is an unrecoverable error, such as an error
  in your configuration that must be corrected, then the ``SyncFailure`` event
  will be repeatedly generated" and "``SyncSuccess`` will never appear, until
  the problem is fixed".
- `VcfgOfOther.cfg`, `VcfgOfSameNamespace` (`pkg/controller/ingress.go:864`).
  VarnishConfigs are listed in the worker's namespace, that of the Ingress, and
  compared with the name of the Varnish Service, which may be in another
  namespace; docs/ref-varnish-cfg.md:49 says: "its content is applied to Varnish
  Services in the same namespace."
- `SecretReturns.cfg`, `SecretsFollow` (`pkg/controller/secret.go:198`).
  deleteSecret calls UpdateSvcForSecret after the Secret is gone, which is an
  error for a Service that is known, so that the deletion is retried for ever; a
  Secret that was created again meanwhile is removed by the retry (line 196),
  and every instance loses it; docs/monitor.md:86 says: "If there is an
  unrecoverable error, such as an error in your configuration that must be
  corrected, then the ``SyncFailure`` event will be repeatedly generated", and
  here the configuration is in order.
- `SecretLonger.cfg`, `SettledSecrets` (`pkg/varnish/varnish.go:713`). copy
  writes into the slice made for the first value of the Secret, no more than its
  length: a longer value is cut off and a shorter one keeps the end of the
  former; the comment at src/pkg/varnish/varnish.go:703 says: "SetAdmSecret
  stores the Secret data identified by the" namespace/name key.
- `BackendShared.cfg`, `NothingMissed` (`pkg/controller/backendconfig.go:54`).
  svc2ing keeps one Ingress for each Service, the last one listed, so that a
  Varnish Service that uses the same backend for another Ingress keeps the old
  values (and if the one kept is of another class, nothing is updated at all);
  docs/ref-backend-cfg.md:75 says: "If the Service is specified as a backend in
  an Ingress to be implemented by Varnish, then the BackendConfig is applied to
  it."
- `BcfgMoved.cfg`, `NothingMissed` (`pkg/controller/backendconfig.go:111`).
  syncBcfg enqueues the Ingresses of the Services that the BackendConfig names
  now, not of those that it named before, which keep its values;
  docs/ref-backend-cfg.md:84 says of the Services named: "configuration in the
  Resource is applied to those Services".
- `SecondSubset.cfg`, `NothingMissed` (`pkg/controller/utils.go:88`).
  endpsTargetPort2Addrs returns at the first subset with the port; the addresses
  of other subsets are left out (for a Service whose Pods are partly of another
  kind, or whose named port has several numbers). The comment at
  src/pkg/controller/utils.go:77 says: "endpsTargetPort2Addrs returns a list of
  addresses for VCL backend" config, given "the Endpoints of a Service and a
  target port number for their Pods".
- `MissedDeletion.cfg`, `NothingMissed` (`pkg/controller/worker.go:202`). the
  type test for a tombstone is made on the SyncObj, and never true; the
  tombstone in it is an unhandled type, and dropped.
- `NegationLost.cfg`, `ServesResources`
  (`pkg/varnish/vcl/recv_disposition.tmpl:33`). A condition without a matcher
  (`equal` and one value, or a count) that is negated is written as `! x !=
  "v"`: line 27 writes the `!` for every negated condition, and cmpRelation,
  called in line 33, the negated operator, so that `not-equal` means equal;
  docs/ref-req-disposition.md:158 says: "``equal`` (default), ``not-equal``:
  test for equality or inequality with ``values`` or ``count``".
- `PathOrderLost.cfg`, `ServesResources` (`pkg/controller/ingress.go:366`). the
  path rules of a host are put into a Go map (line 350), which the template
  ranges over in the order of the strings (vcl.tmpl:112), and the first path of
  that order that leads the URL is selected (line 134): of `/xy` and `/x`, in
  this order, `/x` gets the requests for both; docs/ref-svcs-ingresses-ns.md:96
  says: "For each host, the first path rule that matches the URL determines how
  a request is routed."

The passing runs avoid these by what they range over (`IngressRules`: no
annotation that names another namespace; `IngressFollows`: one namespace, in
which an Ingress that changes keeps its annotation, and a VarnishConfig its Service; `SecretsFollow`: values of
one length, a Secret is not created anew while its deletion is still to be
handled, and is not an admin secret and the credentials of an `auth` at once; `BackendsSafety` and `BackendsFollow`: a
BackendConfig keeps its Services, which Ingresses of one Varnish Service use, one
subset has the port, and of the deletions only those of Services are missed;
`VcfgServed`: the states below are left out) or say so in the property
(`StopReturnsUnlessMissed`).

With `CrossDefs` in place of `LocalDefs`, `IngressRules.cfg` has a counterexample to
each of `OnlyAssigned` and `CollectsAssigned`. An annotation may name a Varnish Service of
another namespace (`docs/ref-svcs-ingresses-ns.md:57`: "by name and optionally by
namespace"). The worker of such an Ingress, `b1` in `B` for `A/v`, collects the
Ingresses of `A/v`, and for those without an annotation counts the Varnish Services of its
own namespace (`worker.svc`, `ingress.go:117` and `145`) and not those of the namespace of
the Ingress. If that is one, `A/v` implements the plain `a1` of `A`, though `A` has two (conversely,
`A/v` would lose its own if `A` had no other and `B` two). The
documentation (line 70): "otherwise if there is only one Varnish Service in the same
namespace as the Ingress, then that Service implements its rules", and "otherwise the
Ingress definition is rejected as an error." The worker of `A` decides as documented
(`getVarnishSvcForIng`), so that what `A/v` implements depends on which worker comes last.

`IngressFollows` lets no Varnish Service come or go, and no VarnishConfig name another
Service. With `"svc"` in its `Changes`, TLC finds that a second Varnish Service in a namespace
leaves the first one implementing the Ingresses without an annotation, which by
`docs/ref-svcs-ingresses-ns.md` are rejected as an error from then on: `syncSvc` at most
enqueues Ingresses of the Service that came (`service.go:157`). With `"moveVcfg"` in
`Changes` and `VcfgsMoved` in place of `VcfgOfV`, it finds counterexamples to `NothingMissed`
and to `ConfigsFollow`: a VarnishConfig that names another Service than before is applied to
that one (`varnishconfig.go:81`), and the one it named before keeps its content until
something else is synchronised for it; `docs/ref-varnish-cfg.md:73`: "Lists the Service names of
Varnish services in the same namespace to which this config is to be applied."

The states of the resources that are not served as documented are defined in
`MCVarnishConfigs`. With one of them in place of `ValidClusters`, `VcfgServed.cfg`
has a counterexample to `ServesResources` (`LongerPathFirst` and those of
`NegationLost.cfg` are above):

- `PathTwice`: of two path rules for one path the last one counts, as it is the one
  that stays in the map (`ingress.go:366`); `docs/ref-svcs-ingresses-ns.md:96`: "the first
  path rule that matches the URL determines how a request is routed."
- `NotEqualToCount`: as `NotEqualToOne`, for a count.
- `OneInAnyCase`: one value that is compared with `equal` and `case-sensitive:
  false` is compared with `==`, case and all (`template.go:379`);
  `docs/ref-match-flags.md`: "case insensitivity can be specified for all comparison
  operations".
- `NoNextToLast` (with `Requests <- WithoutXff`): an `X-Forwarded-For` without a
  next-to-last field does not match the pattern of `template.go:301`, so that
  `regsub` returns it whole and the only field, the client's, is compared.
- `SourceOfResponse`: `rewrSub` infers the subroutine from the target alone
  (`template.go:465`); a request header set from a response header goes to
  `vcl_recv`, where there is no response.
- `OutOfOrder`: rewrites are sorted by `vcl-sub` before the templates resolve the
  one that is left out (`spec.go:870`), so that of two for the same subroutine the
  one that names it comes second whatever its place in the array.
- `KindOfList`: the hash of an ACL leaves out whether it is a whitelist
  (`spec.go:405`); a change of it alone is never loaded. `spec.go:786`: "two Specs
  are deeply equal iff their hash values are equal".
- `Reasons`: the hash of a disposition leaves out its reason (`spec.go:741`).
- `RunTogether`: strings are hashed one after the other without a delimiter.

and to `GetsServed`:

- `OverlappingHosts`: nothing rejects Ingresses with a host in common (`ingMergeError`,
  `ingress.go:153`, is called by its test only). Two rules of one host declare one
  object twice (`vcl.tmpl:111`; `urlMatcher`, `template.go:288`), which does not compile:
  `addOrUpdateIng` fails again and again, and of what changes later about any Ingress of the
  Varnish Service nothing is applied. `docs/ref-svcs-ingresses-ns.md:91`: "An Ingress is
  rejected as an error if it would violate either of these restrictions for a merge."
- `DefaultTTL`: a `max-secondary-ttl` that is left out stays empty
  (`ingress.go:449`), and what `self-shard.tmpl:86` writes does not compile;
  `docs/ref-varnish-cfg.md:114`: "``max-secondary-ttl`` defaults to ``5m``".
- `InitialOnly`: `getVCLProbe` dereferences `Window` for `Initial`
  (`ingress.go:237`), and the process ends.
- `SourceIsTarget`: an append, prepend or replace with one rule and no `source` has
  no source (`ingress.go:672`), and does not compile.
- `FlagsOfDefault`: the validation takes a `compare` that is left out for none
  (`varnishconfig.go:125`), and rejects match flags; the documented default is
  `match`.
- `SelectsOfMatch` is rejected by the validation, as it should be, but the next
  event of an Ingress applies it.

## Proofs

| theorem | statement |
|---|---|
| `VarnishController_proofs!TypeCorrect` | `Spec => []TypeOK` |
| `VarnishController_proofs!ReadyIsServed` | `Spec => []ReadyImpliesConfigured` |
| `VarnishController_proofs!Refinement` | `Spec => ImplementsInstances` |
| `VarnishController_proofs!ListIsValid` | `Spec => []ListStaysValid`, if the objects made for an address do not overlap (`OneObject`) |
| `NamespaceQueues_proofs!QueuesTypeCorrect` | `Spec => []TypeOK` |
| `NamespaceQueues_proofs!WaitGroupCorrect` | `Spec => []WaitGroupCounts` |
| `NamespaceQueues_proofs!NoItemLost` | `Spec => []ItemsAccounted` |
| `NamespaceQueues_proofs!QueuesInOrder` | `Spec => []BegunInOrder` |
| `NamespaceQueues_proofs!QueuesRefinement` | `Spec => ImplementsSync` |
| `IngressSync_proofs!IngressTypeCorrect` | `Spec => []TypeOK` |
| `IngressSync_proofs!AddressedOnly` | `Spec => []OnlyAddressed` |
| `IngressSync_proofs!CollectedByRules` | `Spec => []CollectsAssigned`, under `Local` |
| `IngressSync_proofs!AssignedOnly` | `Spec => []OnlyAssigned`, under `Local` |
| `IngressSync_proofs!MissesNothing` | `Spec /\ OneWorker => []NothingMissed`, under `Settled` |
| `SecretSync_proofs!SecretTypeCorrect` | `Spec => []TypeOK` |
| `SecretSync_proofs!NoSecretMissed` | `Spec => []SettledSecrets`, under `Separate` |
| `BackendSync_proofs!BackendTypeCorrect` | `Spec => []TypeOK` |
| `BackendSync_proofs!NoChangeMissed` | `Spec => []NothingMissed`, under `Undivided` |
| `VarnishConfigs_proofs!TypesOK` | `Spec => []TypeOK` |
| `VarnishConfigs_proofs!NamedAfterResources` | `Spec => []NamesResources` |
| `VarnishConfigs_proofs!RoutedAsDocumented` | what is generated routes every request to the Service of the first path rule of its host that leads the URL, else the default one, else answers 404, under `Distinct` and `ShorterFirst` |
| `VarnishConfigs_proofs!UpdateKeepsConfig` | `Spec => ResyncKeepsConfig`, under `Distinct` |
| `VclSpec_proofs!AddressesSorted`, `StringsSorted`, `HostsSorted`, `NamesSorted` | any two lists of the same addresses of one port, strings, rules or nodes are sorted to the same list |

They hold for any number of workers, namespaces, addresses, Services, Ingresses
and configurations, and any bounds, from the assumptions named in the modules
(nil values differ from others, bounds are natural numbers, resources are finite,
`Namespaces` is
finite where the WaitGroup counts).

**VarnishController.** `ReadyImpliesConfigured` is not inductive: that the
command that makes an instance ready comes after the labelling has to be carried
along in the frames. `LabelsInv` adds that the regular label is on a loaded
configuration, that a frame still to make ready but not to label has the label
in place, and that readiness comes last. It holds even if two objects
administer one Varnish at once, since no step ever takes the regular label off
an Ingress configuration but a restart, and a restart takes readiness too.
`ListStaysValid` does depend on mutual exclusion. `MutexInv` says that a frame
inside a connection holds its mutex, that what is to be discarded is cold and
not labelled, that a frame either updates or discards, and the property itself.
With two objects for one address it is false (the old object's mutex excludes
nobody), hence the assumption.

**NamespaceQueues.** `ItemsInv` strengthens `ItemsAccounted` by the numbering
(an item that is anywhere was handed over); with `ShutInv`, which ties the
queues' shutdown to the main goroutine's progress, each step moves one item from
one place to one other. The refinement maps what is in queues, in the
dispatcher's hand or waiting for a retry to `pending`. `OrderInv` is why a worker
begins in order what is reported: a reported item that was neither begun nor dropped
is still coming or in its worker's queue (`Whereabouts`), what is coming and what
waits unbegun is in the order of its numbers (`ComeInOrder`), and a retried item or a
handler's own one, which may come in between, is no part of that order.

**IngressSync.** A configuration in a worker's hand or at a Service was valid
for the cluster when it was collected, and stays so (`AddressedInv`,
`AssignedInv`) although the cluster changes, because a configuration records the
definitions it was made from and Varnish Services stay (`Local`). That the two
forms of the rule agree is lemma `RulesAgree`; `ChosenService` carries what was
chosen to the step that collects.
`MissesNothing` is the safety half of `ConfigsFollow`. Its hypotheses are the ones
under which the code keeps it, and a configuration of the deviations shows for
each that it does not otherwise: Varnish Services stay (`Local`; `"svc"`
in `Changes`), Ingresses keep their annotation (`IngressMoved`), no
annotation is malformed (`IngressMalformed`), and one worker serves a Service
(`OneWorker`: a Varnish Service that is the only one of the cluster is in the
Ingresses' namespace; `IngressOverwritten` is the other case); any number of
namespaces, each with its Varnish Services and Ingresses, is left. `NothingMissed`
is not inductive, for three reasons that make up `MissedInv`. What is in a worker's
hand has left the queue, and must bring the worker to its Service if it fails and is
added again, or something else that waits must (`MadeInv`): the Ingress may have been deleted
since, and then its deletion waits. What a worker has collected may be
out of date when it is stored; then what changed it waits. And an
item for a VarnishConfig is dropped when it finds no Ingress to enqueue, which is
right only if the Service without Ingresses is not ready by then, or an item for an Ingress
waits (`NotReadyIfNone`). `MissedOfIng` to `MissedOfReturn` are the steps; those
that only take from the queues, or only change the cluster, are all cases of
`NothingDropped`.

**SecretSync.** `SettledSecrets` speaks of the moments at which nothing waits. The
invariant says of every moment that what is not right yet has an item in the
queue or among the retries that will see to it: of the Service or of its Secret
for an instance's secret (`Right`, `Covered`), of a Service that has no addresses
yet (`Addressed`), and for credentials of the Secret, the VarnishConfig or an
Ingress (`CredCovered`). A step that does not handle such an item leaves what is
right alone, as slices of different Secrets are different (`SliceForType`) and a
copy of equal length leaves the whole value behind (`CopyType`). `Separate` is
what the documentation and the deviation `SecretLonger` leave: Pods have one
Secret volume at most, values one length, and an admin secret is no credentials
of an `auth`. (A Secret may be created anew at any time here, as in
`SecretReturns`: then something waits for ever.)

**BackendSync.** Type correctness rests on what is resolved: each address, port and
BackendConfig in a configuration is one of the cluster (`ServingType`,
`MergedType`, `UpdateTypes`). `NothingMissed` is inductive as it stands, because it
speaks of the items that bring an update and not of how: a change that concerns a
Varnish Service adds such an item or makes a configuration impossible, and one
that does not leaves alone whatever the configuration is made from (`Untouched`,
`ChangedKeeps`); a handler that is done with such an item has updated the Service
(`UpdateKeeps`) or enqueued an Ingress of it (`EnqueueKeeps`,
`EnqueueForBackendsKeeps`), and one that failed keeps the item. `Undivided` has
three parts, each the complement of deviations: a port is in one subset
(`SecondSubset`); the Ingresses that may use a Service with a BackendConfig are of
one Varnish Service (`BackendShared`); a BackendConfig keeps its Services
(`BcfgMoved`) and no deletion but a Service's is missed (`MissedDeletion`). Several
BackendConfigs may be for one Service. `WorkerQueue_proofs` has what both modules
need of the queue: what waits after an item was synchronised, failed or was put
back.

**VclSpec.** `InsertionSorted` is a recursive function, so `InsertionSteps` gets what
each insertion yields from the well-founded order of the numbers, and
`InsertionSortedOrdered` that the result has the elements of the list and is in order,
whenever the comparison is a strict total order on them (`Orders`). A set has one
list in that order (`OrderedUnique`): the same elements, listed in any order, are
sorted to the same list (`SortedFromAnyList`). Go's comparison of strings is such an
order (`BeforeAsymmetric`, `BeforeTransitive`, `BeforeTotal`), and so is one by a key that
identifies an element (`KeysOrder`). `byIPPort` is not: of two addresses each may be
before the other. `AddressesSorted` shows why this does no harm: among
addresses of one port it is the order of their IPs.

**VarnishConfigs.** `ConfigsInv` adds three things to the types. What Varnish has under a
name was generated and given that name (`LoadedByName`). The label is on what was
generated from the resources of the last update (`LabelOfLast`). And if no update is
due, the resources are those of the last one but for a VarnishConfig that is due itself
and for Pods that are not sharded (`DueUnlessDone`): this is where the guards of the
handlers matter, such as `isVarnishInVCLSpec`, which ignores changes of the Pods, or
`deleteVcfg` against `syncVcfg`. `NamesResources` follows, since what is generated does
not depend on Pods that are not sharded (`PodsOnlyIfSharded`). `UpdateKeepsConfig` rests on `OneGenerated`: exactly one
configuration is generated from a state of the resources, because each list that may
come in any order is sorted by what identifies its elements. `Distinct` names what
does: a host is in one rule (documented, and not enforced: `OverlappingHosts` in
[Deviations](#deviations)), and the hostnames of the Pods differ. That the addresses of a
Service have one port is in `ResourcesAssumption`, as `endpsTargetPort2Addrs` returns those of
the first subset that has it (`utils.go:94`). `RoutedAsDocumented` follows the rules from the
Ingress through the map, the canonical form and the template to the set: for any
number of rules, paths and addresses, what the set selects is what the first rule
says. It needs `ShorterFirst` (no path rule is behind one for a path that it leads), since of
the paths that lead a URL the least string is the shortest (`FirstRuleFound`), and this one is
selected whatever the Ingress' order was; `PathOrderLost` shows what happens otherwise.

TLC checked the inductive invariants before they were proved. Liveness
(`Converges`, `UnusedAreDiscarded`, `CallsReturn`, `EachIsSynced`,
`StopReturnsUnlessMissed`, `ConfigsFollow`, `SecretsFollow`, `BackendsFollow`,
`GetsServed`) is only model-checked: TLAPS does not reason about fairness and
`ENABLED`.
That a state of the resources is served as documented in all else that a VarnishConfig may
ask for (`ServesResources`), a computation over texts, is evaluated by TLC for the states of
`VcfgServed`.

## Not modelled

- *Resyncs of the informers*: they have no effect in the code, as unchanged
  versions are ignored.
- *Several VarnishConfigs for a Service, a VarnishConfig for several Services*: which
  of several applies is not documented; of several Services each is as if alone.
- *The choice of a shard and the TTLs of its answers* (`self-shard.tmpl` from line
  70), *the choice of an address by a director, retries, caching*: Varnish's own
  algorithms. What self-sharding does to requests in `vcl_recv` is modelled.
- *Patterns other than literal texts, their flags (UTF-8, POSIX, ...), custom VCL,
  mangled names and lines too long*: the patterns' language is RE2's; the hash of
  the flags is in `VclSpec`.
- *Values of a BackendConfig field by field*: one value in `BackendSync`; they are
  copied, and `VclSpec` has their hash.
- *Metrics, events, logging, command line, generated client, deployment,
  examples*: no state that another part of the program depends on.
- *Concurrent access to the maps `svcs` and `secrets`*: each access is atomic in
  the model. That the Go runtime may end the process on such an access is a
  `Crash`, which no property forbids.

## Plan

Done, in this order, the most important behaviour first: `VarnishController` with
`VarnishInstances`; `NamespaceQueues` with `NamespaceSync`; `IngressSync`;
`WorkerQueue`, `SecretSync`, `BackendSync`; `VclSpec`, `VclMeaning`,
`VarnishConfigs`; and the theorems on each. Next:

1. `IngressSync`: several VarnishConfigs for a Service, once it is decided which
   should apply.
2. Sharding from `vcl_backend_fetch` on, with one state for each Pod of the cluster.
