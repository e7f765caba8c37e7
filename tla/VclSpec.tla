------------------------------ MODULE VclSpec ------------------------------
(***************************************************************************)
(* What a configuration consists of, its canonical form, and its hash      *)
(* (pkg/varnish/vcl/spec.go).                                              *)
(*                                                                         *)
(* A string is a sequence of character codes below 256.  What the hash     *)
(* gets in a fixed number of bytes, a number or a boolean, is a single     *)
(* code from 256 on, and so is the name of a match flag.  An optional      *)
(* value is a sequence of one element at most.  SHA-512 is taken to be     *)
(* injective: the hash is what is written to it.                           *)
(***************************************************************************)
EXTENDS Integers, FiniteSets, SequencesExt

Word(n) == <<256 + n>>
Bit(b) == Word(IF b THEN 1 ELSE 0)
Concat(Bytes(_), s) == FlattenSeq([n \in DOMAIN s |-> Bytes(s[n])])

\* Strings are compared code by code.
Before(s, t) ==
    \E k \in 0 .. Len(s) :
        /\ k < Len(t)
        /\ SubSeq(s, 1, k) = SubSeq(t, 1, k)
        /\ k = Len(s) \/ s[k + 1] < t[k + 1]

\* x is put behind all that it is not to precede; less is a set of pairs.
Inserted(less, t, x) ==
    InsertAt(t, 1 + Max({0} \cup {k \in DOMAIN t : <<x, t[k]>> \notin less}), x)

\* sort.Stable inserts one element after another into what is sorted so far (up
\* to 20 of them), which is defined even if less is no order.
InsertionSorted(less, s) ==
    LET sorted[n \in 0 .. Len(s)] ==
            IF n = 0 THEN <<>> ELSE Inserted(less, sorted[n - 1], s[n])
    IN  sorted[Len(s)]

StableSort(Less(_, _), s) ==
    InsertionSorted({p \in Range(s) \X Range(s) : Less(p[1], p[2])}, s)

SortedStrings(S) == SetToSortSeq(S, Before)

-----------------------------------------------------------------------------
(* Services and routing.                                                   *)

\* byIPPort
AddressBefore(a, b) == Before(a.ip, b.ip) \/ a.port < b.port
ByAddress(s) == [s EXCEPT !.addresses = StableSort(AddressBefore, s.addresses)]

AddressBytes(a) == a.ip \o Word(a.port)

DirectorBytes(d) == d.rampup \o Word(d.warmup) \o Word(d.type)

ProbeBytes(p) ==
    p.url \o FlattenSeq(p.request) \o Word(p.expResponse) \o p.timeout \o p.interval
        \o p.initial \o p.window \o p.threshold

NoProbe ==
    [url |-> <<>>, request |-> <<>>, expResponse |-> 0, timeout |-> <<>>, interval |-> <<>>,
     initial |-> <<>>, window |-> <<>>, threshold |-> <<>>]

NoService ==
    [name |-> <<>>, addresses |-> <<>>, probe |-> <<>>, director |-> <<>>, hostHeader |-> <<>>,
     timeouts |-> <<<<>>, <<>>, <<>>>>, proxyHeader |-> 0, maxConnections |-> 0]

\* Its timeouts are those for connecting, for the first byte, and between bytes.
ServiceBytes(s) ==
    s.name \o Concat(AddressBytes, s.addresses) \o Concat(ProbeBytes, s.probe)
        \o Concat(DirectorBytes, s.director) \o s.hostHeader \o FlattenSeq(s.timeouts)
        \o Word(s.proxyHeader) \o Word(s.maxConnections)

\* Of a map from strings to Services, in the order of the strings.
ServicesBytes(f) == Concat(LAMBDA k : k \o ServiceBytes(f[k]), SortedStrings(DOMAIN f))

RuleBytes(r) == r.host \o ServicesBytes(r.paths)

ShardBytes(s) == Concat(ServiceBytes, s.nodes) \o ProbeBytes(s.probe) \o s.maxTTL

-----------------------------------------------------------------------------
(* Authentication and access control.                                      *)

MatchTermBytes(t) == t.comparand \o t.value \o Word(t.compare) \o Bit(t.negate)

AuthBytes(a) ==
    a.realm \o FlattenSeq(a.credentials) \o Word(a.status) \o Concat(MatchTermBytes, a.conditions)
        \o (IF a.utf8 THEN Word(1) ELSE <<>>)

AclAddressBytes(a) == a.addr \o Word(a.maskBits) \o (IF a.negate THEN Word(1) ELSE <<>>)

\* Faulty: without the conditions.
AclHeadBytes(a) ==
    a.name \o a.comparand \o Word(a.failStatus) \o Concat(AclAddressBytes, a.addresses)
        \o a.header \o a.success \o a.failure

\* The kind of the list is left out.
AclBytes(a) ==
    a.name \o a.comparand \o Word(a.failStatus) \o Concat(AclAddressBytes, a.addresses)
        \o Concat(MatchTermBytes, a.conditions) \o a.header \o a.success \o a.failure

-----------------------------------------------------------------------------
(* Rewrites and dispositions.                                              *)

\* The flags that are set are given by their places in the code's order.
FlagsBytes(f) ==
    Word(f.maxMem) \o Word(f.anchor) \o Concat(Word, SetToSortSeq(f.set, <))

CaseSensitive == 6

RewriteBytes(r) ==
    Concat(LAMBDA rule : rule.value \o rule.rewrite, r.rules) \o FlagsBytes(r.flags)
        \o r.target \o r.source \o Word(r.method) \o Word(r.compare) \o Bit(r.negate)
        \o Word(r.sub) \o Word(r.select)

ConditionBytes(c) ==
    FlattenSeq(c.values) \o FlagsBytes(c.flags) \o Concat(Word, c.count)
        \o c.comparand \o Word(c.compare) \o Bit(c.negate)

Synth == "synth"

\* The reason is left out.
DispositionBytes(d) ==
    Concat(ConditionBytes, d.conditions) \o Word(CASE d.action = "hash" -> 1 [] d.action = "pass" -> 2
        [] d.action = "pipe" -> 3 [] d.action = Synth -> 4 [] OTHER -> 5)
        \o (IF d.action = Synth THEN Word(d.status) ELSE <<>>)

-----------------------------------------------------------------------------
(* A Spec as a whole.                                                      *)

DeepHash(spec) ==
    ServiceBytes(spec.default) \o Concat(RuleBytes, spec.rules) \o ServicesBytes(spec.services)
        \o ShardBytes(spec.shard) \o spec.vcl \o Concat(AuthBytes, spec.auths)
        \o Concat(AclBytes, spec.acls) \o Concat(RewriteBytes, spec.rewrites)
        \o Concat(DispositionBytes, spec.dispositions)

Map(Op(_), s) == [n \in DOMAIN s |-> Op(s[n])]
SortedValues(c) == [c EXCEPT !.values = StableSort(Before, c.values)]

\* byHost, byName and byACLName, byRealm, byACLAddr, byComparand, byVCLSub
HostBefore(x, y) == Before(x.host, y.host)
NameBefore(x, y) == Before(x.name, y.name)
RealmBefore(x, y) == Before(x.realm, y.realm)
AddrBefore(x, y) == Before(x.addr, y.addr)
ComparandBefore(x, y) == Before(x.comparand, y.comparand)
SubBefore(x, y) == x.sub < y.sub

CanonicalRule(r) == [r EXCEPT !.paths = Map(ByAddress, @)]
CanonicalAuth(a) == [a EXCEPT !.credentials = StableSort(Before, @)]
CanonicalAcl(a) ==
    [a EXCEPT !.addresses = StableSort(AddrBefore, @), !.conditions = StableSort(ComparandBefore, @)]
CanonicalDisposition(d) == [d EXCEPT !.conditions = Map(SortedValues, @)]

\* Faulty: what was listed stays as it is.
CanonicalUnsorted(spec) == [spec EXCEPT !.default = [NoService EXCEPT !.name = spec.default.name]]

\* The elements of a list are put into canonical form before they are sorted,
\* which their keys do not depend on.
Canonical(spec) ==
    [default |-> [NoService EXCEPT !.name = spec.default.name],
     rules |-> StableSort(HostBefore, Map(CanonicalRule, spec.rules)),
     services |-> Map(ByAddress, spec.services),
     shard |-> [spec.shard EXCEPT !.nodes = StableSort(NameBefore, Map(ByAddress, @))],
     vcl |-> spec.vcl,
     auths |-> StableSort(RealmBefore, Map(CanonicalAuth, spec.auths)),
     acls |-> StableSort(NameBefore, Map(CanonicalAcl, spec.acls)),
     rewrites |-> StableSort(SubBefore, spec.rewrites),
     dispositions |-> Map(CanonicalDisposition, spec.dispositions)]
=============================================================================
