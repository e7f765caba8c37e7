------------------------ MODULE MCVarnishController ------------------------
(* Instances of VarnishController for TLC.                                *)
EXTENDS VarnishController, TLC

CONSTANTS w1, w2, mon

OneWorker  == {w1}
TwoWorkers == {w1, w2}

\* Every call from every worker.
AllCalls == [w \in Workers |-> CallNames]

\* The Varnish Service stays, and its Secret.
ServiceStays ==
    [w \in Workers |-> {"SyncService", "SyncIngress", "IngressGone", "SyncSecret"}]

\* Ingresses and services come and go.
IngressLife == [w \in Workers |-> {"SyncService", "SyncIngress", "IngressGone"}]
ServiceLife == [w \in Workers |-> {"SyncService", "SyncIngress", "ServiceGone"}]

\* The Secret is deleted while an Ingress is synchronised.
SecretLife ==
    [w \in Workers |-> IF w = w1 THEN {"SyncService", "SecretGone"}
                                 ELSE {"SyncIngress"}]

Symm == Permutations(Configs) \cup Permutations(Gens) \cup Permutations(SvcRefs)
=============================================================================
