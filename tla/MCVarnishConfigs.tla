------------------------- MODULE MCVarnishConfigs -------------------------
EXTENDS VarnishConfigs

\* Texts are ASCII, addresses three bits.
x == <<120>>
y == <<121>>
X == <<88>>
xy == <<120, 121>>
SlashX == <<47, 120>>
SlashXY == <<47, 120, 121>>
Slash == <<47>>
H1 == <<104, 49>>
H2 == <<104, 50>>
Tea == <<116>>
Coffee == <<99>>
Ip(b1, b2, b3) == <<48 + b1, 48 + b2, 48 + b3>>
Foo == Header(20)
Bar == Header(21)
RespFoo == <<RESP, HTTP, 20>>
BereqUrl == <<BE>> \o Url
BerespFoo == <<BE>> \o RespFoo
Restarts == <<REQ, 17>>

Path(path, service) == [path |-> path, service |-> service]

Base ==
    [rules |-> {[host |-> H1, paths |-> <<Path(SlashX, Tea), Path(SlashXY, Coffee)>>],
                [host |-> H2, paths |-> <<Path(Slash, Coffee)>>]},
     default |-> <<>>,
     endpoints |-> (Tea :> {[ip |-> Ip(1, 0, 0), port |-> 80], [ip |-> Ip(1, 0, 1), port |-> 80]})
                       @@ (Coffee :> {[ip |-> Ip(1, 1, 0), port |-> 80]}),
     vcfg |-> <<>>,
     secrets |-> ("creds" :> {x, y}) @@ ("empty" :> {}),
     pods |-> {[name |-> x, ip |-> Ip(0, 0, 1)], [name |-> y, ip |-> Ip(0, 1, 0)]},
     httpPort |-> 80]

\* Conditions.
Term(comparand, compare, value) == [comparand |-> comparand, compare |-> compare, value |-> value]
Cond(comparand, compare, values) ==
    [comparand |-> comparand, compare |-> compare, values |-> values, count |-> <<>>, flags |-> <<>>]
Counted(compare, n) == [Cond(Restarts, compare, <<>>) EXCEPT !.count = <<n>>]
AnyCase == [maxMem |-> <<>>, anchor |-> "", caseSensitive |-> <<FALSE>>, set |-> {}]
Anchored(a) == [AnyCase EXCEPT !.anchor = a, !.caseSensitive = <<>>]

\* Access control.
Range1 == [addr |-> Ip(1, 0, 0), maskBits |-> <<1>>, negate |-> FALSE]
But == [addr |-> Ip(1, 0, 1), maskBits |-> <<>>, negate |-> TRUE]
Acl == [name |-> x, type |-> "", comparand |-> <<>>, failStatus |-> <<>>, addrs |-> <<Range1, But>>,
        conditions |-> <<>>, result |-> <<>>]
Reporting == [Acl EXCEPT !.name = y, !.type = "blacklist", !.comparand = XffFirst, !.failStatus = <<0>>,
                         !.result = <<[header |-> Bar, success |-> x, failure |-> y]>>]
Restricted == [Acl EXCEPT !.comparand = Xff2ndLast, !.addrs = <<Range1>>,
                  !.conditions = <<Term(Url, "match", x), Term(Host, "not-equal", H2)>>]

\* Authentication.
Auth == [realm |-> x, secret |-> "creds", type |-> "", utf8 |-> FALSE, conditions |-> <<>>]
Either == [Auth EXCEPT !.type = "proxy", !.conditions = <<Term(Bar, "not-equal", x)>>]

\* Rewrites.
Rule(value, rewrite) == [value |-> value, rewrite |-> rewrite]
Rewrite(target, method, rules) ==
    [target |-> target, source |-> target, rules |-> rules, method |-> method, compare |-> "match",
     sub |-> "", select |-> "", flags |-> <<>>]

\* Dispositions.
Disp(action, conditions) ==
    [action |-> action, status |-> <<>>, reason |-> <<>>, conditions |-> conditions]
Forbid(conditions) == [Disp(Synth, conditions) EXCEPT !.status = <<405>>]

\* Self-sharding.
Sharding == [maxTTL |-> x, probe |-> [url |-> <<>>, request |-> <<>>, expResponse |-> <<>>, timeout |-> <<>>,
                interval |-> <<>>, initial |-> <<>>, window |-> <<2>>, threshold |-> <<1>>]]

WithAcl(acls) == [NoVcfg EXCEPT !.acl = acls]
WithAuth(auths) == [NoVcfg EXCEPT !.auth = auths]
WithRewrites(rewrites) == [NoVcfg EXCEPT !.rewrites = rewrites]
WithDisps(dispositions) == [NoVcfg EXCEPT !.dispositions = dispositions]
With(vcfg) == [Base EXCEPT !.vcfg = <<vcfg>>]

AccessConfigs ==
    {WithAcl(<<Acl>>), WithAcl(<<Reporting, Acl>>), WithAcl(<<Restricted>>),
     WithAcl(<<[Restricted EXCEPT !.conditions = <<Term(Url, "match", x)>>]>>),
     WithAcl(<<[Restricted EXCEPT !.conditions = <<Term(Url, "match", x), Term(Host, "not-equal", H1)>>]>>),
     WithAcl(<<[Acl EXCEPT !.comparand = Foo, !.failStatus = <<404>>]>>),
     WithAcl(<<[Acl EXCEPT !.comparand = Foo, !.failStatus = <<405>>]>>),
     WithAcl(<<[Acl EXCEPT !.comparand = Foo, !.addrs = <<But, Range1>>]>>),
     WithAcl(<<[Acl EXCEPT !.comparand = Foo, !.addrs = <<[But EXCEPT !.negate = FALSE]>>]>>),
     WithAcl(<<[Acl EXCEPT !.comparand = Foo, !.addrs = <<[Range1 EXCEPT !.maskBits = <<3>>]>>]>>),
     WithAcl(<<Acl, [Acl EXCEPT !.name = y, !.comparand = XffFirst, !.failStatus = <<404>>]>>),
     WithAcl(<<[Reporting EXCEPT !.result[1].success = xy]>>),
     WithAuth(<<Auth>>), WithAuth(<<[Auth EXCEPT !.type = "proxy"]>>),
     WithAuth(<<[Auth EXCEPT !.conditions = <<Term(Url, "not-match", y)>>]>>),
     WithAuth(<<[Auth EXCEPT !.conditions = <<Term(Url, "match", y)>>]>>),
     WithAuth(<<[Auth EXCEPT !.secret = "empty"]>>),
     WithAuth(<<[Auth EXCEPT !.realm = y], [Auth EXCEPT !.conditions = <<Term(Host, "equal", H1)>>]>>),
     [WithAuth(<<Either>>) EXCEPT !.acl = <<Reporting>>]}

Selecting(select) ==
    WithRewrites(<<[Rewrite(Url, "replace", <<Rule(SlashX, Slash), Rule(SlashXY, SlashX)>>)
                       EXCEPT !.compare = "prefix", !.select = select]>>)

RewriteConfigs ==
    {WithRewrites(<<Rewrite(Url, "sub", <<Rule(x, xy)>>), Rewrite(Foo, "append", <<Rule(x, y)>>)>>),
     WithRewrites(<<Rewrite(Foo, "append", <<Rule(x, y)>>), Rewrite(Foo, "prepend", <<Rule(xy, X)>>)>>),
     WithRewrites(<<Rewrite(Foo, "prepend", <<Rule(xy, X)>>), Rewrite(Foo, "append", <<Rule(x, y)>>)>>),
     WithRewrites(<<[Rewrite(Foo, "suball", <<Rule(x, xy)>>) EXCEPT !.source = <<>>, !.flags = <<AnyCase>>]>>),
     WithRewrites(<<[Rewrite(Foo, "delete", <<>>) EXCEPT !.source = <<>>],
                    [Rewrite(Bar, "replace", <<>>) EXCEPT !.source = Url]>>),
     WithRewrites(<<[Rewrite(Foo, "delete", <<Rule(x, <<>>), Rule(y, <<>>)>>) EXCEPT !.compare = "equal"]>>),
     WithRewrites(<<[Rewrite(Foo, "rewrite", <<Rule(x, y)>>) EXCEPT !.flags = <<Anchored("both")>>]>>),
     WithRewrites(<<Rewrite(BereqUrl, "replace", <<Rule(<<>>, Slash)>>),
                    [Rewrite(RespFoo, "append", <<>>) EXCEPT !.source = Foo],
                    [Rewrite(BerespFoo, "prepend", <<Rule(x, y)>>) EXCEPT !.sub = "backend_response"]>>)}
        \cup {WithRewrites(<<[Rewrite(Foo, "delete", <<Rule(v, <<>>)>>) EXCEPT !.compare = c, !.flags = f]>>) :
                  v \in {x, xy}, c \in {"match", "prefix"}, f \in {<<>>, <<AnyCase>>}}
        \cup {WithRewrites(<<[Rewrite(Foo, "sub", <<Rule(x, y)>>) EXCEPT !.flags = <<Anchored(a)>>]>>) :
                  a \in {"", "start", "both"}}
        \cup {WithRewrites(<<[Rewrite(Foo, "sub", <<Rule(X, y)>>) EXCEPT !.flags = <<AnyCase>>]>>)}
        \cup {Selecting(s) : s \in {"", "first", "last", "exact", "longest", "shortest"}}

DispositionConfigs ==
    {WithDisps(<<Disp("pass", <<Cond(Url, "prefix", <<SlashX>>), Counted("less", 1)>>),
                 Forbid(<<Cond(Foo, "exists", <<>>)>>)>>),
     WithDisps(<<Forbid(<<Cond(Foo, "exists", <<>>)>>),
                 Disp("pass", <<Cond(Url, "prefix", <<SlashX>>), Counted("less", 1)>>)>>),
     WithDisps(<<Forbid(<<Cond(Foo, "not-equal", <<x, xy>>)>>), Disp("pipe", <<Counted("equal", 1)>>)>>),
     WithDisps(<<Disp("restart", <<Cond(Foo, "equal", <<x>>), Counted("equal", 0)>>),
                 Disp("fail", <<Cond(Foo, "not-match", <<x>>), Cond(Host, "not-exists", <<>>)>>)>>),
     WithDisps(<<Disp("purge", <<[Cond(Foo, "match", <<x>>) EXCEPT !.flags = <<AnyCase>>]>>),
                 Disp("pass", <<Cond(Url, "not-prefix", <<SlashX, x>>)>>)>>)}
        \cup {WithDisps(<<Forbid(<<Counted(c, n)>>)>>) :
                  c \in {"greater", "greater-equal", "less", "less-equal"}, n \in {0, 1}}
        \cup {WithDisps(<<[Disp(a, <<Cond(Foo, "prefix", <<X, x>>)>>) EXCEPT !.status = <<st>>]>>) :
                  a \in {"hash", "pass", Synth}, st \in {404, 405}}

Sharded == With([WithAcl(<<Acl>>) EXCEPT !.sharding = <<Sharding>>])

OtherClusters ==
    {Base, Sharded, [Sharded EXCEPT !.pods = {[name |-> x, ip |-> Ip(0, 0, 1)], [name |-> y, ip |-> Ip(1, 0, 0)]}],
     [Base EXCEPT !.default = Tea],
     [Base EXCEPT !.endpoints[Tea] = {[ip |-> Ip(1, 0, 1), port |-> 80]}],
     [Base EXCEPT !.rules = {[host |-> H1, paths |-> <<Path(SlashX, Coffee)>>]}],
     [With(WithAuth(<<Auth>>)) EXCEPT !.secrets["creds"] = {y, xy}],
     [With(WithAuth(<<Auth>>)) EXCEPT !.secrets["creds"] = {}]}

ValidClusters ==
    OtherClusters \cup {With(v) : v \in AccessConfigs \cup RewriteConfigs \cup DispositionConfigs}

-----------------------------------------------------------------------------
(* Resources that are not served as the documentation says.                *)

NotEqualToOne == {With(WithDisps(<<Forbid(<<Cond(Foo, "not-equal", <<x>>)>>)>>))}
NotEqualToCount == {With(WithDisps(<<Forbid(<<Counted("not-equal", 1)>>)>>))}
OneInAnyCase == {With(WithDisps(<<Forbid(<<[Cond(Foo, "equal", <<X>>) EXCEPT !.flags = <<AnyCase>>]>>)>>))}
NoNextToLast == {With(WithAcl(<<[Acl EXCEPT !.comparand = Xff2ndLast]>>))}
SourceOfResponse == {With(WithRewrites(<<[Rewrite(Foo, "replace", <<>>) EXCEPT !.source = RespFoo]>>))}
OutOfOrder ==
    {With(WithRewrites(<<[Rewrite(Foo, "append", <<Rule(x, y)>>) EXCEPT !.sub = "recv"],
                         Rewrite(Foo, "prepend", <<Rule(xy, X)>>)>>))}

\* Changes that the hash does not show.
KindOfList == {With(WithAcl(<<Acl>>)), With(WithAcl(<<[Acl EXCEPT !.type = "blacklist"]>>))}
Reasons ==
    {With(WithDisps(<<[Forbid(<<Cond(Foo, "exists", <<>>)>>) EXCEPT !.reason = t]>>)) : t \in {x, y}}
RunTogether ==
    {With(WithDisps(<<Forbid(<<Cond(Foo, "prefix", <<t, u>>)>>)>>)) : <<t, u>> \in {<<x, y \o y>>, <<xy, y>>}}

\* Path rules whose order the code does not keep.
LongerPathFirst ==
    {[Base EXCEPT !.rules = {[host |-> H1, paths |-> <<Path(SlashXY, Coffee), Path(SlashX, Tea)>>]}]}
PathTwice ==
    {[Base EXCEPT !.rules = {[host |-> H1, paths |-> <<Path(SlashX, Coffee), Path(SlashX, Tea)>>]}]}

\* Never served.
OverlappingHosts ==
    {[Base EXCEPT !.rules = {[host |-> H1, paths |-> <<Path(SlashX, s)>>] : s \in {Tea, Coffee}}]}
DefaultTTL == {With([NoVcfg EXCEPT !.sharding = <<[Sharding EXCEPT !.maxTTL = <<>>]>>])}
InitialOnly == {With([NoVcfg EXCEPT !.sharding = <<[Sharding EXCEPT !.probe.initial = <<1>>, !.probe.window = <<>>]>>])}
SourceIsTarget == {With(WithRewrites(<<[Rewrite(Foo, "append", <<Rule(x, y)>>) EXCEPT !.source = <<>>]>>))}
FlagsOfDefault ==
    {With(WithRewrites(<<[Rewrite(Foo, "sub", <<Rule(x, y)>>) EXCEPT !.compare = "", !.flags = <<Anchored("both")>>]>>))}

\* Invalid, but served after an event of an Ingress.
SelectsOfMatch == {With(WithRewrites(<<[Rewrite(Url, "sub", <<Rule(x, y)>>) EXCEPT !.select = "longest"]>>))}

-----------------------------------------------------------------------------
Request(host, url, foo, auth, ip, xff, restarts_) ==
    [vars |-> (Host :> host) @@ (Url :> url) @@ (XForwardedFor :> xff \o <<Comma>> \o ip)
                  @@ (BerespFoo :> x)
                  @@ (IF foo = <<>> THEN <<>> ELSE Foo :> foo)
                  @@ (IF auth = <<>> THEN <<>> ELSE (Authorization :> auth) @@ (ProxyAuthorization :> auth)),
     numbers |-> (Restarts :> restarts_),
     ips |-> (ClientIp :> ip) @@ (RemoteIp :> ip),
     answer |-> <<>>, backend |-> {}]

WithoutXff == {[r EXCEPT !.vars[XForwardedFor] = r.ips[ClientIp]] :
                  r \in {Request(H1, SlashX, x, x, Ip(1, 0, 0), <<>>, 0)}}

SomeRequests ==
    {Request(h, u, f, a, ip, xff, n) :
        h \in {H1, H2}, u \in {SlashX, SlashXY}, f \in {<<>>, x}, a \in {x}, ip \in {Ip(1, 0, 0)},
        xff \in {Ip(1, 1, 0)}, n \in {0}}
    \cup {Request(H1, u, f, a, ip, xff, 1) :
        u \in {Slash, SlashXY \o x}, f \in {xy \o X, Ip(1, 1, 1)}, a \in {<<>>, xy},
        ip \in {Ip(1, 0, 1), Ip(0, 0, 1)}, xff \in {Ip(0, 1, 0)}}
    \cup {Request(ClusterHost, u, X, x, ip, Ip(1, 0, 0), 0) : u \in {ClusterHealth, SlashX}, ip \in {Ip(0, 1, 0)}}
=============================================================================
