-------------------------- MODULE VarnishInstances --------------------------
(***************************************************************************)
(* What the controller promises about each Varnish instance, whatever the  *)
(* number of goroutines that administer it: an instance is labelled ready  *)
(* only while its regular traffic is labelled with an Ingress              *)
(* configuration, and only a restart of Varnish takes that label away.     *)
(* VarnishController implements this specification.                        *)
(***************************************************************************)

CONSTANTS
    Addrs,      \* the admin addresses of the Varnish instances
    Configs,    \* the names of Ingress configurations
    NotAvail    \* vk8s_notavailable, the configuration that answers 503

VARIABLES
    regular,    \* regular[a]: the configuration labelled vk8s_regular at a
    ready       \* ready[a]: vk8s_readiness is the label of vk8s_ready at a

vars == <<regular, ready>>

TypeOK ==
    /\ regular \in [Addrs -> Configs \cup {NotAvail}]
    /\ ready \in [Addrs -> BOOLEAN]

\* The state that Varnish starts in: both labels point to vk8s_notavailable.
Init ==
    /\ regular = [a \in Addrs |-> NotAvail]
    /\ ready = [a \in Addrs |-> FALSE]

Configure(a, c) ==
    /\ regular' = [regular EXCEPT ![a] = c]
    /\ UNCHANGED ready

MakeReady(a) ==
    /\ regular[a] \in Configs
    /\ ready' = [ready EXCEPT ![a] = TRUE]
    /\ UNCHANGED regular

MakeNotReady(a) ==
    /\ ready' = [ready EXCEPT ![a] = FALSE]
    /\ UNCHANGED regular

Restart(a) ==
    /\ regular' = [regular EXCEPT ![a] = NotAvail]
    /\ ready' = [ready EXCEPT ![a] = FALSE]

Next ==
    \E a \in Addrs :
        \/ \E c \in Configs : Configure(a, c)
        \/ MakeReady(a)
        \/ MakeNotReady(a)
        \/ Restart(a)

Spec == Init /\ [][Next]_vars
=============================================================================
