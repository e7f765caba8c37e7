---------------------------- MODULE MCIngressSync ----------------------------
(* Instances of IngressSync for TLC.                                       *)
EXTENDS IngressSync

Two == {"A", "B"}

\* Services: one, two in A and one in B, one in each namespace.
Av == [ns |-> "A", name |-> "v"]
Aw == [ns |-> "A", name |-> "w"]
Bv == [ns |-> "B", name |-> "v"]
OneSvc == {Av}
SvcsOfA == {Av, Aw}
OneEach == {Av, Bv}
ThreeSvcs == {Av, Aw, Bv}

\* Ingresses: one in A, two in A, one in each namespace.
IngOfA == ("a1" :> "A")
IngsOfA == ("a1" :> "A") @@ ("a2" :> "A")
IngEach == ("a1" :> "A") @@ ("b1" :> "B")

\* Definitions: a plain one, one for another host, with a default backend, of
\* another class, and with annotations.
Plain == [class |-> TRUE, svc |-> NoAnnotation, backend |-> FALSE, hosts |-> {"h1"}]
Other == [Plain EXCEPT !.hosts = {"h2"}]
Default == [Plain EXCEPT !.backend = TRUE, !.hosts = {}]
Foreign == [Plain EXCEPT !.class = FALSE]
For(name) == [Plain EXCEPT !.svc = [ns |-> NoNamespace, name |-> name]]
ForIn(ns, name) == [Plain EXCEPT !.svc = [ns |-> ns, name |-> name]]
Wrong == [Plain EXCEPT !.svc = Malformed]

LocalDefs == {Plain, For("w"), Foreign}
RulesDefs == {Plain, Other, For("w")}
CrossDefs == {Plain, ForIn("A", "v")}
MoveDefs == {For("v"), For("w")}
PlainDefs == {Plain}
DefaultDefs == {Default}
WrongDefs == {Plain, Wrong}
AllDefs == {Default, ForIn("A", "v"), Foreign, Wrong}

Vcfg(name) == [svc |-> name, content |-> 1]
NoVcfgs == {}
VcfgOfV == {Vcfg("v")}
VcfgsMoved == {Vcfg("v"), Vcfg("w")}
=============================================================================
