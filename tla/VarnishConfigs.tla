-------------------------- MODULE VarnishConfigs --------------------------
(***************************************************************************)
(* From a VarnishConfig to the VCL that the Varnish instances of a Service *)
(* execute: the validation of the resource, the Spec generated from it and *)
(* from the Ingresses, Secrets and Pods, its name, and the loading under   *)
(* that name (pkg/controller/ingress.go, varnishconfig.go,                 *)
(* pkg/varnish/varnish.go).                                                *)
(*                                                                         *)
(* IngressSync decides which resources apply to a Varnish Service and when *)
(* they are synchronised; here they are what applies to one Service.  An   *)
(* optional field is a sequence of one element at most.                    *)
(***************************************************************************)
EXTENDS VclMeaning

CONSTANTS
    Clusters,       \* the states of the resources
    Requests,       \* as vcl_recv finds them
    MaxChanges,     \* a bound on the changes of resources
    MaxRestarts     \* a bound on the restarts of the controller

ASSUME BoundsAssumption == MaxChanges \in Nat /\ MaxRestarts \in Nat

VARIABLES
    res,        \* the resources
    vcfgDue,    \* the VarnishConfig is to be synchronised
    ingDue,     \* an Ingress of the Service is to be synchronised
    loaded,     \* loaded[name]: the Spec that Varnish compiled under a name
    label,      \* the name that vk8s_regular points to, or nothing
    done,       \* the resources of the last update, or nothing
    changes, restarts

vars == <<res, vcfgDue, ingDue, loaded, label, done, changes, restarts>>

Lookup(table, x, default) == IF x \in DOMAIN table THEN table[x] ELSE default

-----------------------------------------------------------------------------
(* The Spec generated from the resources.                                  *)

configComparison(cmp) ==
    Lookup("equal" :> <<Equal, FALSE>> @@ "not-equal" :> <<Equal, TRUE>>
        @@ "match" :> <<Match, FALSE>> @@ "not-match" :> <<Match, TRUE>>
        @@ "prefix" :> <<Prefix, FALSE>> @@ "not-prefix" :> <<Prefix, TRUE>>
        @@ "exists" :> <<Exists, FALSE>> @@ "not-exists" :> <<Exists, TRUE>>
        @@ "greater" :> <<Greater, FALSE>> @@ "greater-equal" :> <<GreaterEqual, FALSE>>
        @@ "less" :> <<Less, FALSE>> @@ "less-equal" :> <<LessEqual, FALSE>>,
        cmp, <<Equal, FALSE>>)

configCondition(c) ==
    [comparand |-> c.comparand, value |-> c.value,
     compare |-> configComparison(c.compare)[1], negate |-> configComparison(c.compare)[2]]

Or(option, default) == IF option = <<>> THEN default ELSE option[1]

\* Numbers are formatted.  Initial is set to the window.
Itoa(n) == <<48 + n>>
getVCLProbe(p) ==
    [url |-> p.url, request |-> p.request, expResponse |-> Or(p.expResponse, 0),
     timeout |-> p.timeout, interval |-> p.interval,
     initial |-> IF p.initial = <<>> THEN <<>> ELSE Itoa(p.window[1]),
     window |-> FlattenSeq(Map(Itoa, p.window)),
     threshold |-> FlattenSeq(Map(Itoa, p.threshold))]

VclNode(p, port) == [NoService EXCEPT !.name = p.name, !.addresses = <<[ip |-> p.ip, port |-> port]>>]

\* The Pods in the order in which they are listed.
configSharding(sharding, pods, httpPort) ==
    IF sharding = <<>> THEN [nodes |-> <<>>, probe |-> NoProbe, maxTTL |-> <<>>]
    ELSE [nodes |-> Map(LAMBDA p : VclNode(p, httpPort), pods),
          probe |-> getVCLProbe(sharding[1].probe), maxTTL |-> sharding[1].maxTTL]

\* A realm whose Secret has no data is left out.
WithData(auths, secrets) == SelectSeq(auths, LAMBDA a : secrets[a.secret] # {})

VclAuth(a, credentials) ==
    [realm |-> a.realm, credentials |-> Lookup(credentials, a.secret, <<>>),
     conditions |-> Map(configCondition, a.conditions), utf8 |-> a.utf8,
     status |-> IF a.type \in {"", "basic"} THEN 401 ELSE 407]

configAuth(auths, credentials) == Map(LAMBDA a : VclAuth(a, credentials), auths)

NoMaskBits == 255
configACL(acls) ==
    LET VclAddr(a) == [addr |-> a.addr, negate |-> a.negate, maskBits |-> Or(a.maskBits, NoMaskBits)]
        Result(a) == Or(a.result, [header |-> <<>>, success |-> <<>>, failure |-> <<>>])
        VclAcl(a) ==
            [name |-> a.name, comparand |-> IF a.comparand = <<>> THEN ClientIp ELSE a.comparand,
             whitelist |-> a.type \in {"", "whitelist"}, failStatus |-> Or(a.failStatus, 403),
             addresses |-> Map(VclAddr, a.addrs), conditions |-> Map(configCondition, a.conditions),
             header |-> Result(a).header, success |-> Result(a).success,
             failure |-> Result(a).failure]
    IN  Map(VclAcl, acls)

\* For flags that are left out: only case is considered.
configMatchFlags(option) ==
    IF option = <<>> THEN [maxMem |-> 0, anchor |-> 0, set |-> {CaseSensitive}]
    ELSE [maxMem |-> Or(option[1].maxMem, 0),
          anchor |-> Lookup("start" :> AnchorStart @@ "both" :> AnchorBoth, option[1].anchor, 0),
          set |-> option[1].set \cup (IF Or(option[1].caseSensitive, TRUE) THEN {CaseSensitive} ELSE {})]

Methods ==
    "replace" :> Replace @@ "sub" :> Sub @@ "suball" :> Suball @@ "rewrite" :> RewriteMethod
        @@ "append" :> MethodAppend @@ "prepend" :> Prepend @@ "delete" :> Delete
Subs ==
    "recv" :> Recv @@ "pipe" :> 2 @@ "pass" :> 3 @@ "hash" :> 4 @@ "purge" :> 5 @@ "miss" :> 6
        @@ "hit" :> 7 @@ "deliver" :> Deliver @@ "synth" :> 9 @@ "backend_fetch" :> BackendFetch
        @@ "backend_response" :> BackendResponse @@ "backend_error" :> 12
Selects ==
    "unique" :> Unique @@ "first" :> First @@ "last" :> LastRule @@ "exact" :> Exact
        @@ "longest" :> Longest @@ "shortest" :> Shortest

\* Faulty: the target is never the source.
GivenSource(w) == w.source

SourceOf(w) ==
    IF /\ w.source = <<>>
       /\ \/ w.method \in {"sub", "suball", "rewrite"}
          \/ w.method \in {"replace", "append", "prepend"} /\ Len(w.rules) # 1
    THEN w.target
    ELSE w.source

configRewrites(rewrites) ==
    LET Comparison(w) == configComparison(IF w.compare = "" THEN "match" ELSE w.compare)
        VclRewrite(w) ==
            [target |-> w.target, source |-> SourceOf(w), rules |-> w.rules,
             method |-> Methods[w.method], compare |-> Comparison(w)[1],
             negate |-> Comparison(w)[2], sub |-> Lookup(Subs, w.sub, Unspecified),
             select |-> Lookup(Selects, w.select, Unique), flags |-> configMatchFlags(w.flags)]
    IN  Map(VclRewrite, rewrites)

configReqDisps(dispositions) ==
    LET VclCondition(c) ==
            [comparand |-> c.comparand, values |-> c.values, count |-> c.count,
             compare |-> configComparison(c.compare)[1],
             negate |-> configComparison(c.compare)[2], flags |-> configMatchFlags(c.flags)]
        VclDisp(d) ==
            [conditions |-> Map(VclCondition, d.conditions), action |-> d.action,
             status |-> IF d.action = Synth THEN d.status[1] ELSE 0,
             reason |-> IF d.action = Synth THEN d.reason ELSE <<>>]
    IN  Map(VclDisp, dispositions)

NoVcfg ==
    [acl |-> <<>>, auth |-> <<>>, rewrites |-> <<>>, dispositions |-> <<>>, sharding |-> <<>>,
     vcl |-> <<>>]

VclService(s, addresses) == [NoService EXCEPT !.name = s, !.addresses = addresses[s]]

\* The path rules of a host are put into a map, one after the other.
PathMap(paths, addresses) ==
    [p \in {paths[n].path : n \in DOMAIN paths} |->
        VclService(paths[Max({n \in DOMAIN paths : paths[n].path = p})].service, addresses)]

VclRule(r, addresses) == [host |-> r.host, paths |-> PathMap(r.paths, addresses)]

\* The Services that are used, of the rules and by default.
UsedServices(c) ==
    ({c.default} \ {<<>>}) \cup UNION {{r.paths[n].service : n \in DOMAIN r.paths} : r \in c.rules}

\* What the listers and Go's maps return is in some order, given here.
SpecOf(c, rules, addresses, pods, credentials) ==
    LET vcfg == Or(c.vcfg, NoVcfg)
    IN  [default |-> IF c.default = <<>> THEN NoService ELSE VclService(c.default, addresses),
         rules |-> Map(LAMBDA r : VclRule(r, addresses), rules),
         services |-> [s \in UsedServices(c) |-> VclService(s, addresses)],
         shard |-> configSharding(vcfg.sharding, pods, c.httpPort),
         vcl |-> vcfg.vcl,
         auths |-> configAuth(WithData(vcfg.auth, c.secrets), credentials),
         acls |-> configACL(vcfg.acl),
         rewrites |-> configRewrites(vcfg.rewrites),
         dispositions |-> configReqDisps(vcfg.dispositions)]

\* The choices of an order for every value of a function from keys to sets.
OrdersOf(f) ==
    {g \in [DOMAIN f -> UNION {SetToSeqs(f[k]) : k \in DOMAIN f}] : \A k \in DOMAIN f : Range(g[k]) = f[k]}

\* What may be generated from a state of the resources, with its name.
GeneratedFrom(c) ==
    {Canonical(SpecOf(c, rules, addresses, pods, credentials)) :
        rules \in SetToSeqs(c.rules), addresses \in OrdersOf(c.endpoints),
        pods \in SetToSeqs(c.pods), credentials \in OrdersOf(c.secrets)}

Generated == [c \in Clusters |-> {[spec |-> s, name |-> DeepHash(s)] : s \in GeneratedFrom(c)}]

\* A record of the resources.  The addresses of a Service are those for one port
\* of its Endpoints (endpsTargetPort2Addrs).
ASSUME ResourcesAssumption ==
    \A c \in Clusters :
        /\ c = [rules |-> c.rules, default |-> c.default, endpoints |-> c.endpoints, vcfg |-> c.vcfg,
                secrets |-> c.secrets, pods |-> c.pods, httpPort |-> c.httpPort]
        /\ IsFiniteSet(c.rules)
        /\ \A r \in c.rules :
               /\ r = [host |-> r.host, paths |-> r.paths] /\ r.host \in Seq(Nat)
               /\ r.paths \in Seq([path : Seq(Nat), service : DOMAIN c.endpoints])
        /\ UsedServices(c) \subseteq DOMAIN c.endpoints
        /\ \A s \in DOMAIN c.endpoints :
               /\ IsFiniteSet(c.endpoints[s]) /\ c.endpoints[s] \subseteq [ip : Seq(Nat), port : Nat]
               /\ \A a, b \in c.endpoints[s] : a.port = b.port
        /\ c.vcfg = <<>> \/ c.vcfg = <<c.vcfg[1]>>
        /\ \A k \in DOMAIN c.secrets : IsFiniteSet(c.secrets[k]) /\ c.secrets[k] \subseteq Seq(Nat)
        /\ IsFiniteSet(c.pods) /\ \A p \in c.pods : p.name \in Seq(Nat)

-----------------------------------------------------------------------------
(* Validation.                                                             *)

validateProbe(p) == p.window # <<>> /\ p.threshold # <<>> => p.threshold[1] <= p.window[1]

\* The comparison is taken as it is written: match, if left out, is not.
validateRewrite(w) ==
    /\ w.method = "delete" => w.target[Len(w.target)] # Url[2]
    /\ w.source # <<>> => ((w.target[1] = BE) <=> (w.source[1] = BE))
    /\ w.select \in {"exact", "longest", "shortest"} => w.compare = "prefix"
    /\ w.flags # <<>> /\ w.compare # "match" =>
           /\ Or(w.flags[1].maxMem, 0) = 0
           /\ w.flags[1].anchor \in {"", "none"}
           /\ w.flags[1].set = {}
    /\ \A m, n \in DOMAIN w.rules : m # n => w.rules[m].value # w.rules[n].value
    /\ w.method # "delete" => \A n \in DOMAIN w.rules : w.rules[n].rewrite # <<>>

Relations == {"greater", "greater-equal", "less", "less-equal"}
Numbers == {<<REQ, 16>>, <<REQ, 17>>}       \* req.esi_level and req.restarts
IsText(comparand) == comparand[1] = REQ /\ comparand \notin Numbers

validateCondition(c) ==
    /\ c.values = <<>> /\ c.count = <<>> => c.compare \in {"exists", "not-exists"}
    /\ c.values = <<>> \/ c.count = <<>>
    /\ c.values # <<>> => c.compare \notin Relations /\ c.comparand \notin Numbers
    /\ c.count # <<>> =>
           /\ c.compare \notin {"match", "not-match", "prefix", "not-prefix", "exists", "not-exists"}
           /\ ~IsText(c.comparand)

validateReqDisp(d) ==
    /\ d.action = Synth => d.status # <<>>
    /\ \A n \in DOMAIN d.conditions : validateCondition(d.conditions[n])

Valid(vcfg) ==
    /\ \A n \in DOMAIN vcfg.sharding : validateProbe(vcfg.sharding[n].probe)
    /\ \A n \in DOMAIN vcfg.rewrites : validateRewrite(vcfg.rewrites[n])
    /\ \A n \in DOMAIN vcfg.dispositions : validateReqDisp(vcfg.dispositions[n])

-----------------------------------------------------------------------------
(* The synchronisation.                                                    *)

Init ==
    /\ res \in Clusters
    /\ vcfgDue = (res.vcfg # <<>>)
    /\ ingDue = TRUE
    /\ loaded = <<>>
    /\ label = <<>>
    /\ done = <<>>
    /\ changes = 0
    /\ restarts = 0

\* An event for what changed.  The Varnish Service, for its Pods, is only of
\* interest if it is sharded.
Shards(r) == \E n \in DOMAIN r.vcfg : r.vcfg[n].sharding # <<>>
\* Faulty: not for Pods.
IngressesDueUnsharded(r) ==
    \/ \E f \in DOMAIN res \ {"vcfg", "pods"} : r[f] # res[f]
    \/ r.vcfg # res.vcfg /\ r.vcfg = <<>>

IngressesDue(r) ==
    \/ \E f \in DOMAIN res \ {"vcfg", "pods"} : r[f] # res[f]
    \/ r.pods # res.pods /\ Shards(r)
    \/ r.vcfg # res.vcfg /\ r.vcfg = <<>>

\* Faulty: also for a VarnishConfig that was deleted.
AnyVcfgDue(r) == vcfgDue \/ r.vcfg # res.vcfg
VcfgDue(r) == r.vcfg # <<>> /\ (vcfgDue \/ r.vcfg # res.vcfg)

Change(r) ==
    /\ changes < MaxChanges
    /\ r # res
    /\ res' = r
    /\ vcfgDue' = VcfgDue(r)
    /\ ingDue' = (ingDue \/ IngressesDue(r))
    /\ changes' = changes + 1
    /\ UNCHANGED <<loaded, label, done, restarts>>

\* An invalid VarnishConfig is tried again until it changes.
syncVcfg ==
    /\ vcfgDue
    /\ Valid(res.vcfg[1])
    /\ vcfgDue' = FALSE
    /\ ingDue' = TRUE
    /\ UNCHANGED <<res, loaded, label, done, changes, restarts>>

\* The resources for which a Spec is generated: others are tried again.
NoErrors(vcfg) ==
    /\ vcfg.sharding # <<>> => res.httpPort # 0 /\ Cardinality(res.pods) > 1
    /\ \A n \in DOMAIN vcfg.auth : vcfg.auth[n].secret \in DOMAIN res.secrets
    /\ \A n \in DOMAIN vcfg.rewrites : vcfg.rewrites[n].method \in DOMAIN Methods

\* A nil pointer is dereferenced: the controller crashes, restarts, and gets
\* here again.
Panics(vcfg) ==
    \/ \E n \in DOMAIN vcfg.dispositions :
           vcfg.dispositions[n].action = Synth /\ vcfg.dispositions[n].status = <<>>
    \/ \E n \in DOMAIN vcfg.sharding :
           vcfg.sharding[n].probe.initial # <<>> /\ vcfg.sharding[n].probe.window = <<>>

\* A Spec whose name Varnish has is not compiled again.
Update(g) ==
    /\ g.name \in DOMAIN loaded \/ Compiles(g.spec)
    /\ loaded' = [n \in DOMAIN loaded \cup {g.name} |-> IF n \in DOMAIN loaded THEN loaded[n] ELSE g.spec]
    /\ label' = <<g.name>>

addOrUpdateIng ==
    /\ ingDue
    /\ NoErrors(Or(res.vcfg, NoVcfg))
    /\ ~Panics(Or(res.vcfg, NoVcfg))
    /\ \E g \in Generated[res] : Update(g)
    /\ ingDue' = FALSE
    /\ done' = <<res>>
    /\ UNCHANGED <<res, vcfgDue, changes, restarts>>

\* The controller is told of all resources when it starts.
Restart ==
    /\ restarts < MaxRestarts
    /\ vcfgDue' = (res.vcfg # <<>>)
    /\ ingDue' = TRUE
    /\ restarts' = restarts + 1
    /\ UNCHANGED <<res, loaded, label, done, changes>>

Next ==
    \/ \E r \in Clusters : Change(r)
    \/ syncVcfg
    \/ addOrUpdateIng
    \/ Restart

\* The workers do not stop while anything is due.
Spec == Init /\ [][Next]_vars /\ WF_vars(syncVcfg) /\ WF_vars(addOrUpdateIng)

TypeOK ==
    /\ res \in Clusters
    /\ vcfgDue \in BOOLEAN
    /\ ingDue \in BOOLEAN
    /\ label = <<>> <=> done = <<>>
    /\ label # <<>> => label[1] \in DOMAIN loaded
    /\ vcfgDue => res.vcfg # <<>>
    /\ changes \in 0 .. MaxChanges
    /\ restarts \in 0 .. MaxRestarts

-----------------------------------------------------------------------------
(* What the documentation says of the resources.                           *)

Relation(cmp) ==
    Lookup("" :> "equal" @@ "not-equal" :> "equal" @@ "not-match" :> "match"
               @@ "not-prefix" :> "prefix", cmp, cmp)
IsNegative(cmp) == cmp \in {"not-equal", "not-match", "not-prefix"}

\* case-sensitive is true if it is left out.
InCase(flags, t) == IF \E n \in DOMAIN flags : flags[n].caseSensitive = <<FALSE>> THEN Lower(t) ELSE t

CompareAs(relation, flags, text, value) ==
    LET anchor == IF flags = <<>> THEN "" ELSE flags[1].anchor
        t == InCase(flags, text)
        v == InCase(flags, value)
    IN  \E m \in 1 .. Len(t) + 1, n \in 0 .. Len(t) :
            /\ SubSeq(t, m, n) = v
            /\ relation \in {"equal", "prefix"} \/ anchor \in {"start", "both"} => m = 1
            /\ relation = "equal" \/ anchor = "both" => n = Len(t)

\* A condition of an ACL or of an authentication.
TermOf(r, c) ==
    CompareAs(Relation(c.compare), <<>>, Text(r, c.comparand), c.value) # IsNegative(c.compare)

\* A condition of a disposition.
ConditionOf(r, c) ==
    CASE c.compare = "exists" -> c.comparand \in DOMAIN r.vars
      [] c.compare = "not-exists" -> c.comparand \notin DOMAIN r.vars
      [] c.count = <<>> ->
             (\E v \in Range(c.values) :
                 CompareAs(Relation(c.compare), c.flags, Text(r, c.comparand), v)) # IsNegative(c.compare)
      [] OTHER ->
             LET n == r.numbers[c.comparand]
                 k == c.count[1]
             IN  \/ n = k /\ c.compare \in {"", "equal", "greater-equal", "less-equal"}
                 \/ n < k /\ c.compare \in {"less", "less-equal", "not-equal"}
                 \/ n > k /\ c.compare \in {"greater", "greater-equal", "not-equal"}

\* An address that is excepted from the ranges of an ACL is not in it.
InAclOf(ip, addrs) ==
    LET Covers(a) == LET bits == Or(a.maskBits, Len(ip))
                     IN  SubSeq(a.addr, 1, bits) = SubSeq(ip, 1, bits)
    IN  /\ \E n \in DOMAIN addrs : Covers(addrs[n]) /\ ~addrs[n].negate
        /\ \A n \in DOMAIN addrs : Covers(addrs[n]) => ~addrs[n].negate

\* X-Forwarded-For ends with the client's address, and may have no other.
IpOf(r, comparand) ==
    LET xff == Text(r, XForwardedFor)
    IN  CASE comparand = <<>> -> r.ips[ClientIp]
          [] comparand[1] = REQ -> StdIp(Text(r, comparand))
          [] comparand = XffFirst -> SubSeq(xff, 1, 3)
          [] comparand = Xff2ndLast ->
                 IF Len(xff) > 3 THEN SubSeq(xff, Len(xff) - 6, Len(xff) - 4) ELSE NoIp
          [] OTHER -> r.ips[comparand]

AclFails(r, a) ==
    /\ \A n \in DOMAIN a.conditions : TermOf(r, a.conditions[n])
    /\ InAclOf(IpOf(r, a.comparand), a.addrs) = (a.type = "blacklist")

\* The requests that some ACL, or else some authentication, rejects.
AclAnswers(r, vcfg) ==
    {<<Synth, Or(a.failStatus, 403)>> :
        a \in {a \in Range(vcfg.acl) : AclFails(r, a) /\ Or(a.failStatus, 403) >= 100}}

\* The headers that report the results of ACLs.
WithResults(r, vcfg) ==
    LET reported == {a \in Range(vcfg.acl) : a.result # <<>>}
        Reporting(h) == CHOOSE a \in reported : a.result[1].header = h
        headers == {a.result[1].header : a \in reported}
    IN  [r EXCEPT !.vars =
            [h \in headers |-> IF AclFails(r, Reporting(h)) THEN Reporting(h).result[1].failure
                               ELSE Reporting(h).result[1].success] @@ @]

AuthAnswers(r, c, vcfg) ==
    LET Sent(a) == Text(r, IF a.type = "proxy" THEN ProxyAuthorization ELSE Authorization)
        Fails(a) == /\ \A n \in DOMAIN a.conditions : TermOf(r, a.conditions[n])
                    /\ c.secrets[a.secret] # {}
                    /\ Sent(a) \notin c.secrets[a.secret]
    IN  {<<Synth, IF a.type = "proxy" THEN 407 ELSE 401, a.realm>> :
            a \in {a \in Range(vcfg.auth) : Fails(a)}}

\* The subroutine of a rewrite is inferred from its target and its source.
SubroutineOf(w) ==
    LET kinds == {Context \in {"req", "resp", "bereq", "beresp"} :
                     \E v \in {w.target, w.source} \ {<<>>} :
                         Context = CASE v[1] = REQ -> "req" [] v[1] = RESP -> "resp"
                                     [] v[2] = REQ -> "bereq" [] OTHER -> "beresp"}
    IN  CASE w.sub # "" -> w.sub
          [] "resp" \in kinds -> "deliver"
          [] "beresp" \in kinds -> "backend_response"
          [] kinds = {"bereq"} -> "backend_fetch"
          [] OTHER -> "recv"

\* Substituted for the first matching part of a text, or for all.
Substitute(flags, text, v, s, all) ==
    LET Rest(k) == SubSeq(text, k, Len(text))
        from[k \in 1 .. Len(text) + 1] ==
            CASE k + Len(v) > Len(text) + 1 -> Rest(k)
              [] InCase(flags, SubSeq(text, k, k + Len(v) - 1)) = InCase(flags, v) ->
                     s \o (IF all THEN from[k + Len(v)] ELSE Rest(k + Len(v)))
              [] OTHER -> <<text[k]>> \o from[k + 1]
    IN  from[1]

RewriteOf(r, w) ==
    LET source == Text(r, IF w.source = <<>> THEN w.target ELSE w.source)
        target == Text(r, w.target)
        relation == IF w.compare = "" THEN "match" ELSE w.compare
        matching == {n \in DOMAIN w.rules : CompareAs(relation, w.flags, source, w.rules[n].value)}
        Length(n) == Len(w.rules[n].value)
        selected ==
            CASE w.select \in {"", "unique"} -> IF Cardinality(matching) = 1 THEN matching ELSE {}
              [] w.select = "first" -> {n \in matching : \A m \in matching : n <= m}
              [] w.select = "last" -> {n \in matching : \A m \in matching : n >= m}
              [] w.select = "exact" -> {n \in matching : w.rules[n].value = source}
              [] w.select = "longest" -> {n \in matching : \A m \in matching : Length(n) >= Length(m)}
              [] w.select = "shortest" -> {n \in matching : \A m \in matching : Length(n) <= Length(m)}
        Written(rule) ==
            CASE w.method = "replace" -> rule.rewrite
              [] w.method = "rewrite" -> rule.rewrite
              [] w.method = "append" -> source \o rule.rewrite
              [] w.method = "prepend" -> rule.rewrite \o source
              [] OTHER -> Substitute(w.flags, source, rule.value, rule.rewrite, w.method = "suball")
    IN  CASE w.rules = <<>> /\ w.method = "delete" -> Unset(r, w.target)
          [] w.rules = <<>> /\ w.method = "replace" -> Assign(r, w.target, source)
          [] w.rules = <<>> /\ w.method = "append" -> Assign(r, w.target, target \o source)
          [] w.rules = <<>> /\ w.method = "prepend" -> Assign(r, w.target, source \o target)
          [] w.rules # <<>> /\ w.rules[1].value = <<>> -> Assign(r, w.target, Written(w.rules[1]))
          [] matching = {} -> r
          [] w.method = "delete" -> Unset(r, w.target)
          [] selected = {} -> Return(r, <<"fail">>)
          [] OTHER -> Assign(r, w.target, Written(w.rules[CHOOSE n \in selected : TRUE]))

\* In the order of the array.
RewrittenIn(sub, r, vcfg) ==
    Execute(RewriteOf, SelectSeq(vcfg.rewrites, LAMBDA w : SubroutineOf(w) = sub), r)

\* The first disposition whose conditions hold.
DispositionOf(r, vcfg) ==
    LET holding == {n \in DOMAIN vcfg.dispositions :
                       \A c \in Range(vcfg.dispositions[n].conditions) : ConditionOf(r, c)}
        d == vcfg.dispositions[Min(holding)]
    IN  CASE vcfg.dispositions = <<>> -> <<"builtin">>
          [] vcfg.dispositions # <<>> /\ holding = {} -> <<"hash">>
          [] d.action = Synth -> <<Synth, d.status[1], d.reason>>
          [] OTHER -> <<d.action>>

\* For each host, the first path rule that leads the URL determines the Service;
\* else it is the default one, or there is none.
BackendsOf(r, c) ==
    LET matching(rule) == {n \in DOMAIN rule.paths : IsPrefix(rule.paths[n].path, Text(r, Url))}
        services == {rule.paths[Min(matching(rule))].service :
                        rule \in {rule \in c.rules : rule.host = Text(r, Host) /\ matching(rule) # {}}}
    IN  {{a.ip : a \in c.endpoints[s]} :
            s \in IF services # {} THEN services ELSE {c.default} \ {<<>>}}

PassedOn(r, backend, vcfg) ==
    LET bereq == Copied([r EXCEPT !.answer = <<>>], {v \in DOMAIN r.vars : v[1] = REQ},
                        LAMBDA v : <<BE>> \o v)
        beresp == RewrittenIn("backend_response", RewrittenIn("backend_fetch", bereq, vcfg), vcfg)
        resp == Copied(beresp, {v \in DOMAIN beresp.vars : v[1] = BE /\ v[2] = RESP}, Tail)
        q == RewrittenIn("deliver", resp, vcfg)
    IN  IF q.answer # <<>> THEN <<q.answer>> ELSE <<r.answer, backend, q.vars>>

Forwarded(r, c, vcfg) ==
    IF BackendsOf(r, c) = {} THEN {<<<<Synth, 404>>>>}
    ELSE {PassedOn(r, b, vcfg) : b \in BackendsOf(r, c)}

Unsharded(r, c, vcfg) ==
    LET checked == WithResults(r, vcfg)
        recv == RewrittenIn("recv", checked, vcfg)
        answers == AclAnswers(r, vcfg) \cup AuthAnswers(checked, c, vcfg)
        answer == IF recv.answer # <<>> THEN recv.answer ELSE DispositionOf(recv, vcfg)
        q == Return(recv, answer)
    IN  CASE answers # {} -> {<<a>> : a \in answers}
          [] answer[1] \notin ToBackend -> {<<answer>>}
          [] OTHER -> Forwarded(q, c, vcfg)

\* Requests of the Pods among themselves are looked up, or are health probes.
DocumentedOf(c, r) ==
    LET vcfg == Or(c.vcfg, NoVcfg)
        probe == Text(r, Host) = ClusterHost
    IN  IF vcfg.sharding = <<>> \/ r.ips[RemoteIp] \notin {p.ip : p \in c.pods} THEN Unsharded(r, c, vcfg)
        ELSE IF ~probe THEN Forwarded(Return(r, <<"hash">>), c, vcfg)
        ELSE {<<<<Synth, IF Text(r, Url) = ClusterHealth THEN 200 ELSE 404>>>>}

Documented == [c \in Clusters |-> [r \in Requests |-> DocumentedOf(c, r)]]

-----------------------------------------------------------------------------
(* Properties.                                                             *)

\* When nothing is left to do, the configuration that the instances execute
\* treats every request as the documentation says of the resources as they are:
\* nothing is lost or confused in the validation, the generation, the canonical
\* form, the hash that names the configuration, and the templates.
ServesResources ==
    ~vcfgDue /\ ~ingDue => \A r \in Requests : Outcome(loaded[label[1]], r) \in Documented[res][r]

\* When nothing is left to do, the configuration that the instances execute has
\* the name of what is generated from the resources as they are: every change
\* that matters leads to an update, whatever else changes or restarts between the
\* two, and one that leads to none (of Pods that are not sharded) does not matter.
NamesResources == ~vcfgDue /\ ~ingDue => \E g \in Generated[res] : label = <<g.name>>

\* Unless the resources have changed since the last update, another one leaves
\* the instances with the configuration they have: the name of a configuration
\* does not depend on the order of what listers and maps return (ings2VCLSpec,
\* configAuth, configSharding), because the Spec is put into canonical form.
ResyncKeepsConfig == [][label # <<>> /\ label' # label => done' # done]_vars

\* Resources that the documentation allows are served in the end: they pass the
\* validation, and what is generated from them compiles.
GetsServed == <>[](~vcfgDue /\ ~ingDue)
=============================================================================
