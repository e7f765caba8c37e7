----------------------------- MODULE SecretSync -----------------------------
(***************************************************************************)
(* Secrets of one namespace (pkg/controller/secret.go, the Varnish part of *)
(* service.go and endpoints.go, configAuth of ingress.go, and the Secret   *)
(* operations of pkg/varnish/varnish.go).  A Secret is the admin secret of *)
(* the Varnish Services whose Pods have a volume for it, or it holds       *)
(* credentials that a VarnishConfig names.                                 *)
(*                                                                         *)
(* The Varnish controller keeps the bytes of an admin secret in a slice    *)
(* for each Secret, and a pointer to a slice for each Varnish Service (all *)
(* of its instances have the same one).  A slice that is no longer in the  *)
(* map of secrets stays as long as a Service points to it.                 *)
(*                                                                         *)
(* Services and their Endpoints are there from the start, and the Pods of  *)
(* a Service come and go and are replaced by others.  The VarnishConfig    *)
(* names all of AuthSecrets, and one Ingress is enqueued for it.           *)
(***************************************************************************)
EXTENDS WorkerQueue

CONSTANTS
    Secrets,
    Labelled,      \* those with the label app: varnish-ingress
    VarnishSvcs,
    Configured,    \* those with an Ingress: instances get configurations
    AuthSecrets,   \* those the VarnishConfig names for credentials
    Contents,      \* values of the key "admin", sequences of bytes
    NoKey,         \* a Secret without that key
    Absent,        \* not in the cluster
    PodSpecs,      \* the Secret volumes of Pods, sequences of Secrets
    NoPods,
    Gens,          \* slices made for the same Secret
    Nil,           \* no slice
    Changes,       \* the kinds of changes in the cluster
    MaxChanges,    \* bound on their number
    MaxFaults      \* bound on failures of instances of Varnish

ASSUME FiniteAssumption == IsFiniteSet(Secrets) /\ IsFiniteSet(VarnishSvcs)
ASSUME SubsetsAssumption ==
    Labelled \subseteq Secrets /\ AuthSecrets \subseteq Secrets /\ Configured \subseteq VarnishSvcs
ASSUME ContentsAssumption == Contents \subseteq Seq(Nat) /\ {NoKey, Absent} \cap Seq(Nat) = {}
                          /\ NoKey # Absent
ASSUME PodsAssumption == PodSpecs \subseteq Seq(Secrets) /\ NoPods \notin Seq(Secrets)
ASSUME SlicesAssumption == Nil \notin Secrets \X Gens
ASSUME GensAssumption ==     \* there is always room for another slice
    \A p \in [VarnishSvcs -> (Secrets \X Gens) \cup {Nil}], s \in Secrets :
        \E g \in Gens : \A v \in VarnishSvcs : p[v] # <<s, g>>
ASSUME BoundsAssumption == MaxChanges \in Nat /\ MaxFaults \in Nat

\* What a Secret may be: its key's value, or no key, or not there.
Values == Contents \cup {NoKey, Absent}

Slices == Secrets \X Gens

Vcfg == [kind |-> "vcfg", key |-> "auth"]
Ing  == [kind |-> "ing", key |-> "auth"]
Secret(s)  == [kind |-> "secret", key |-> s]
Deleted(s) == [kind |-> "secretDeleted", key |-> s]
Svc(v)  == [kind |-> "svc", key |-> v]
Endp(v) == [kind |-> "endp", key |-> v]

Items == {Vcfg, Ing} \cup {Secret(s) : s \in Secrets} \cup {Deleted(s) : s \in Secrets}
      \cup {Svc(v) : v \in VarnishSvcs} \cup {Endp(v) : v \in VarnishSvcs}

VARIABLES
    secret,    \* secret[s]: the Secret in the cluster
    pods,      \* pods[v]: the first Pod of the Service
    stored,    \* stored[s]: the slice in the map of secrets
    bytes,     \* bytes[slice]
    svc,       \* svc[v]: unknown to the Varnish controller, known without
               \* instances, or known with its addresses
    pointer,   \* pointer[v]: the slice that its instances use
    creds,     \* creds[s]: credentials in the configuration
    changes, faults

cluster == <<secret, pods>>
varnish == <<stored, bytes, svc, pointer>>
vars == <<queue, retries, secret, pods, stored, bytes, svc, pointer, creds, changes, faults>>

\* The controller starts in a cluster with Secrets, Services and Pods, and has
\* their Add events, those of the Secrets first or last.
Init ==
    /\ secret \in [Secrets -> Contents \cup {Absent}]
    /\ pods \in [VarnishSvcs -> PodSpecs \cup {NoPods}]
    /\ LET first == SetToSeq({Secret(s) : s \in {s \in Secrets : secret[s] # Absent}})
           others == SetToSeq({Svc(v) : v \in VarnishSvcs}) \o <<Vcfg>> IN
        queue \in {first \o others, others \o first}
    /\ retries = <<>>
    /\ stored = [s \in Secrets |-> Nil]
    /\ bytes = [slice \in Slices |-> <<>>]
    /\ svc = [v \in VarnishSvcs |-> "unknown"]
    /\ pointer = [v \in VarnishSvcs |-> Nil]
    /\ creds = [s \in AuthSecrets |-> Absent]
    /\ changes = 0
    /\ faults = 0

-----------------------------------------------------------------------------
(* Changes in the cluster.                                                 *)

Changed(kind, item) ==
    /\ kind \in Changes
    /\ changes < MaxChanges
    /\ changes' = changes + 1
    /\ Enqueue(<<item>>)
    /\ UNCHANGED <<varnish, creds, faults>>

UpdateSecret(s, value) ==
    /\ secret[s] # Absent /\ value \notin {secret[s], Absent}
    /\ secret' = [secret EXCEPT ![s] = value]
    /\ Changed("update", Secret(s))
    /\ UNCHANGED pods

\* "recreate" allows it while the Secret's deletion is still to be handled.
CreateSecret(s, value) ==
    /\ secret[s] = Absent /\ value # Absent
    /\ Deleted(s) \in Waiting => "recreate" \in Changes
    /\ secret' = [secret EXCEPT ![s] = value]
    /\ Changed("create", Secret(s))
    /\ UNCHANGED pods

DeleteSecret(s) ==
    /\ secret[s] # Absent
    /\ secret' = [secret EXCEPT ![s] = Absent]
    /\ Changed("delete", Deleted(s))
    /\ UNCHANGED pods

\* Pods come, go, or have other volumes; the Endpoints change with them.
ReplacePods(v, spec) ==
    /\ pods[v] # spec
    /\ pods' = [pods EXCEPT ![v] = spec]
    /\ Changed("pods", Endp(v))
    /\ UNCHANGED secret

Change ==
    \/ \E s \in Secrets, value \in Values : UpdateSecret(s, value) \/ CreateSecret(s, value)
    \/ \E s \in Secrets : DeleteSecret(s)
    \/ \E v \in VarnishSvcs, spec \in PodSpecs \cup {NoPods} : ReplacePods(v, spec)

-----------------------------------------------------------------------------
(* The Varnish controller's operations.                                    *)

Fault == faults < MaxFaults /\ faults' = faults + 1
NoFault == UNCHANGED faults

\* Go's copy: no more than the length of the slice, and the rest stays.
Copy(slice, data) ==
    [i \in DOMAIN slice |-> IF i \in DOMAIN data THEN data[i] ELSE slice[i]]

\* A slice for s that nobody points to.
Fresh(s) == CHOOSE slice \in {s} \X Gens : \A v \in VarnishSvcs : pointer[v] # slice

\* The slice for s, of the map or a new one.
SliceFor(s) == IF stored[s] = Nil THEN Fresh(s) ELSE stored[s]

\* Faulty: a Secret that is stored is left as it is.
StoreAdmSecret(s) ==
    /\ stored' = [stored EXCEPT ![s] = SliceFor(s)]
    /\ bytes' = [bytes EXCEPT ![SliceFor(s)] = IF stored[s] = Nil THEN secret[s] ELSE @]

\* A new slice has the Secret's value, and one of the map what fits into it.
SetAdmSecret(s) ==
    /\ stored' = [stored EXCEPT ![s] = SliceFor(s)]
    /\ bytes' = [bytes EXCEPT ![SliceFor(s)] =
           IF stored[s] = Nil THEN secret[s] ELSE Copy(@, secret[s])]

\* Faulty: a Service that is not known is not created.
AssociateOnly(D, slice) ==
    /\ pointer' = [v \in VarnishSvcs |-> IF v \in D THEN slice ELSE pointer[v]]
    /\ UNCHANGED svc

\* The first steps of UpdateSvcForSecret, for the Services of D.
Associate(D, slice) ==
    /\ pointer' = [v \in VarnishSvcs |-> IF v \in D THEN slice ELSE pointer[v]]
    /\ svc' = [v \in VarnishSvcs |->
           IF v \in D /\ svc[v] = "unknown" THEN "created" ELSE svc[v]]

\* updateVarnishSvcsForSecret: UpdateSvcForSecret for each of U, up to the
\* first error.  Without the Secret (Nil) it is an error for each Service that
\* is known (there is no secrName), and there is nothing to do for others.
UpdateSvcsForSecret(U, slice) ==
    \/ /\ \A v \in U : slice # Nil \/ svc[v] = "unknown"
       /\ Associate(IF slice = Nil THEN {} ELSE U, slice)
       /\ Synced(<<>>) /\ NoFault
    \/ \E v \in U :
        /\ slice = Nil /\ svc[v] # "unknown"
        /\ Associate({v}, Nil)
        /\ Failed(<<>>) /\ NoFault
    \/ \E D \in SUBSET U, v \in Configured :
        /\ slice # Nil /\ v \in D /\ svc[v] = "addressed"
        /\ Associate(D, slice)
        /\ Failed(<<>>) /\ Fault

\* AddOrUpdateVarnishSvc, which fails if an instance that is to be configured
\* has no secret, or is not to be reached.
AddOrUpdateVarnishSvc(v, slice) ==
    /\ pointer' = [pointer EXCEPT ![v] = slice]
    /\ svc' = [svc EXCEPT ![v] = "addressed"]
    /\ \/ (slice # Nil \/ v \notin Configured) /\ Synced(<<>>) /\ NoFault
       \/ slice = Nil /\ v \in Configured /\ Failed(<<>>) /\ NoFault
       \/ slice # Nil /\ v \in Configured /\ Failed(<<>>) /\ Fault

-----------------------------------------------------------------------------
(* The handlers.                                                           *)

\* A handler's step.
Handles(kind) == Takes(kind) /\ UNCHANGED <<cluster, changes>>

\* It is over before it gets to the Varnish controller.
ReturnsNil(items) == Synced(items) /\ UNCHANGED <<varnish, creds, faults>>
ReturnsError == Failed(<<>>) /\ UNCHANGED <<varnish, creds, faults>>

HasVolumes(v) == pods[v] \notin {NoPods, <<>>}

\* getVarnishSvcsForSecret: any of the volumes.
VarnishSvcsForSecret(s) ==
    {v \in VarnishSvcs : pods[v] # NoPods /\ s \in ToSet(pods[v])}

\* Faulty: only Varnish Services have Secrets.
NoVcfgsForSecret(s) == <<>>

\* updateVcfgsForSecret
VcfgsForSecret(s) == IF s \in AuthSecrets THEN <<Vcfg>> ELSE <<>>

SyncSecret ==
    /\ Handles("secret")
    /\ LET s == Head(queue).key
           U == VarnishSvcsForSecret(s) IN
        \/ secret[s] = Absent /\ ReturnsError
        \/ secret[s] # Absent /\ s \notin Labelled /\ ReturnsNil(<<>>)
        \/ /\ secret[s] # Absent /\ s \in Labelled /\ U = {}
           /\ ReturnsNil(VcfgsForSecret(s))
        \/ secret[s] = NoKey /\ s \in Labelled /\ U # {} /\ ReturnsError
        \/ /\ secret[s] \notin {Absent, NoKey} /\ s \in Labelled /\ U # {}
           /\ SetAdmSecret(s)
           /\ UpdateSvcsForSecret(U, SliceFor(s))
           /\ UNCHANGED creds

SyncSecretDeleted ==
    /\ Handles("secretDeleted")
    /\ LET s == Head(queue).key
           U == VarnishSvcsForSecret(s) IN
        \/ U = {} /\ ReturnsNil(VcfgsForSecret(s))
        \/ /\ U # {}
           /\ stored' = [stored EXCEPT ![s] = Nil]
           /\ UpdateSvcsForSecret(U, Nil)
           /\ UNCHANGED <<bytes, creds>>

\* syncSvc for a Varnish Service: the Secret of the first Secret volume, with
\* the label or without.
SyncSvc ==
    /\ Handles("svc")
    /\ LET v == Head(queue).key
           s == pods[v][1]
           found == HasVolumes(v) /\ secret[s] # Absent IN
        \/ pods[v] = NoPods /\ ReturnsError
        \/ pods[v] = <<>> /\ AddOrUpdateVarnishSvc(v, Nil) /\ UNCHANGED <<stored, bytes, creds>>
        \/ /\ HasVolumes(v) /\ ~found
           /\ AddOrUpdateVarnishSvc(v, stored[s])
           /\ UNCHANGED <<stored, bytes, creds>>
        \/ found /\ secret[s] = NoKey /\ ReturnsError
        \/ /\ found /\ secret[s] # NoKey
           /\ SetAdmSecret(s)
           /\ AddOrUpdateVarnishSvc(v, SliceFor(s))
           /\ UNCHANGED creds

\* syncEndp for a Varnish Service.
SyncEndp == Handles("endp") /\ ReturnsNil(<<Svc(Head(queue).key)>>)

\* syncVcfg, whose VarnishConfig is as it was.
SyncVcfg == Handles("vcfg") /\ ReturnsNil(<<Ing>>)

\* syncIng as far as configAuth goes: all of the Secrets, or an error.
SyncIng ==
    /\ Handles("ing")
    /\ \/ (\E s \in AuthSecrets : secret[s] = Absent) /\ ReturnsError
       \/ /\ \A s \in AuthSecrets : secret[s] # Absent
          /\ creds' = [s \in AuthSecrets |-> secret[s]]
          /\ Synced(<<>>)
          /\ UNCHANGED <<varnish, faults>>

Worker ==
    \/ SyncSecret \/ SyncSecretDeleted \/ SyncSvc \/ SyncEndp \/ SyncVcfg \/ SyncIng

Retries(n) == Retry(n) /\ UNCHANGED <<cluster, varnish, creds, changes, faults>>

Next == Change \/ Worker \/ \E n \in DOMAIN retries : Retries(n)

\* The worker goes on, and the delay of each failed item ends.  (An item that
\* fails again goes to the end of retries.)
Fairness == WF_vars(Worker) /\ WF_vars(Retries(1))

Spec == Init /\ [][Next]_vars /\ Fairness

-----------------------------------------------------------------------------
(* Properties.                                                             *)

\* Variables keep their types; a slice in the map is one of its Secret, and a
\* Service that is not known has no secret.
TypeOK ==
    /\ secret \in [Secrets -> Values]
    /\ pods \in [VarnishSvcs -> PodSpecs \cup {NoPods}]
    /\ queue \in Seq(Items) /\ retries \in Seq(Items)
    /\ stored \in [Secrets -> Slices \cup {Nil}]
    /\ \A s \in Secrets : stored[s] \in ({s} \X Gens) \cup {Nil}
    /\ bytes \in [Slices -> Seq(Nat)]
    /\ svc \in [VarnishSvcs -> {"unknown", "created", "addressed"}]
    /\ pointer \in [VarnishSvcs -> Slices \cup {Nil}]
    /\ \A v \in VarnishSvcs : svc[v] = "unknown" => pointer[v] = Nil
    /\ creds \in [AuthSecrets -> Values]
    /\ changes \in 0 .. MaxChanges
    /\ faults \in 0 .. MaxFaults

\* The Service has Pods with a Secret volume, and the Secret is there, with
\* the label and the key: it can be the admin secret.
HasAdmSecret(v) ==
    HasVolumes(v) /\ pods[v][1] \in Labelled /\ secret[pods[v][1]] \notin {Absent, NoKey}

\* The instances have the value of the Secret's key now.
UsesAdmSecret(v) ==
    svc[v] = "addressed" /\ pointer[v] # Nil /\ bytes[pointer[v]] = secret[pods[v][1]]

\* The configuration has the credentials that the Secrets have now.
UsesCredentials ==
    (\A s \in AuthSecrets \cap Labelled : secret[s] # Absent)
        => \A s \in AuthSecrets \cap Labelled : creds[s] = secret[s]

\* Once everything is synchronised, with no item waiting and none to be tried
\* again, the instances of each Service authenticate with the value that their
\* admin secret has, and the configuration has the credentials of the Secrets:
\* no change was missed.
SettledSecrets ==
    Waiting = {} =>
        /\ \A v \in VarnishSvcs : HasAdmSecret(v) => UsesAdmSecret(v)
        /\ UsesCredentials

\* When the cluster no longer changes, that comes about and stays, whatever
\* waits.
SecretsFollow ==
    <>[](/\ \A v \in VarnishSvcs : HasAdmSecret(v) => UsesAdmSecret(v)
         /\ UsesCredentials)
=============================================================================
