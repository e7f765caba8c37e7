---------------------------- MODULE MCBackendSync ---------------------------
(***************************************************************************)
(* Instances of BackendSync for TLC.                                       *)
(***************************************************************************)
EXTENDS BackendSync

CONSTANTS v, w

\* What Ingresses may be: all for b, at one place or another, or each for its own.
Shared == [i \in Ingresses |-> {("/" :> "b")}]
EitherPlace == [i \in Ingresses |-> {("default" :> "b"), ("/" :> "b")}]
OneEach == ("i1" :> {("/" :> "b")}) @@ ("i2" :> {("/" :> "d")})

\* Ingresses of one Varnish Service, of two, and of another class.
OfV == [i \in Ingresses |-> v]
OfEach == ("i1" :> v) @@ ("i2" :> w)

Subset(ports, ips) == [ports |-> ports, ips |-> ips]
None  == [port |-> NoPort, subsets |-> <<>>]
Plain == [port |-> 1, subsets |-> <<Subset({1}, {11})>>]
Mixed == [port |-> 2, subsets |-> <<Subset({1}, {11}), Subset({2}, {12})>>]
Split == [port |-> 1, subsets |-> <<Subset({1}, {11}), Subset({1, 2}, {12})>>]

PlainOrMixed == {Plain, Mixed}
SplitRollouts == {Plain, Split}
OneRollout == {Plain}

For(S, n, ok) == [services |-> S, content |-> n, valid |-> ok]
NoBcfgs == {}
TwoContents == {For({"b"}, 1, TRUE), For({"b"}, 2, TRUE)}
OrInvalid == {For({"b"}, 1, TRUE), For({"b"}, 2, FALSE), For({}, 1, TRUE)}
EitherService == {For({"b"}, 1, TRUE), For({"d"}, 1, TRUE)}
=============================================================================
