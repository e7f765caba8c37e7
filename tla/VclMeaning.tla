---------------------------- MODULE VclMeaning ----------------------------
(***************************************************************************)
(* What the VCL generated from a canonical Spec does to a request: the     *)
(* templates of pkg/varnish/vcl and template.go, read as Varnish executes  *)
(* what they write.                                                        *)
(*                                                                         *)
(* A request has the variables of VCL that are texts, vars[v] for every v  *)
(* that is present, those that are numbers, numbers[v], and those that are *)
(* addresses, ips[v].  Its answer is empty until a return.  The name of a  *)
(* variable is a sequence, so that prefixes of names are what they are in  *)
(* VCL.  Patterns are literal: a text matches those it contains.           *)
(***************************************************************************)
EXTENDS VclSpec, TLC

BE == 1         \* the first part of bereq and beresp
REQ == 2
RESP == 3
HTTP == 4
Header(h) == <<REQ, HTTP, h>>
Url == <<REQ, 5>>
Host == Header(6)
Authorization == Header(7)
ProxyAuthorization == Header(8)
XForwardedFor == Header(9)
ClientIp == <<10, 12>>
RemoteIp == <<11, 12>>
XffFirst == <<13, 14>>
Xff2ndLast == <<13, 15>>

Text(r, v) == IF v \in DOMAIN r.vars THEN r.vars[v] ELSE <<>>
Assign(r, v, t) == [r EXCEPT !.vars = (v :> t) @@ @]
Unset(r, v) == [r EXCEPT !.vars = [w \in DOMAIN @ \ {v} |-> @[w]]]
Return(r, answer) == [r EXCEPT !.answer = answer]

\* The statements of a subroutine are executed until one of them returns.
Execute(Statement(_, _), s, r) ==
    FoldLeft(LAMBDA q, x : IF q.answer = <<>> THEN Statement(q, x) ELSE q, r, s)

-----------------------------------------------------------------------------
(* Comparisons.                                                            *)

\* CompareType
Equal == 0
Match == 1
Prefix == 2
Exists == 3
Greater == 4
GreaterEqual == 5
Less == 6
LessEqual == 7

\* cmpRelation
Related(compare, negate, x, y) ==
    CASE compare = Equal -> (x = y) # negate
      [] compare = Match -> (y \in SubSeqs(x)) # negate
      [] compare = Greater -> x > y
      [] compare = GreaterEqual -> x >= y
      [] compare = Less -> x < y
      [] compare = LessEqual -> x <= y

\* A matcher of vmod selector or vmod re2, with matcherFlags.
Lower(t) == [n \in DOMAIN t |-> IF t[n] \in 65 .. 90 THEN t[n] + 32 ELSE t[n]]
AnchorStart == 1
AnchorBoth == 2

Folded(flags, t) == IF CaseSensitive \in flags.set THEN t ELSE Lower(t)

MatcherFinds(compare, flags, text, value) ==
    LET t == Folded(flags, text)
        v == Folded(flags, value)
    IN  CASE compare = Equal \/ (compare = Match /\ flags.anchor = AnchorBoth) -> t = v
          [] compare = Prefix \/ (compare = Match /\ flags.anchor = AnchorStart) -> IsPrefix(v, t)
          [] OTHER -> v \in SubSeqs(t)

-----------------------------------------------------------------------------
(* self-shard.tmpl, acl.tmpl and auth.tmpl in vcl_recv.                     *)

ClusterHost == <<118>>
ClusterHealth == <<47, 118>>

ShardStatement(r, nodes) ==
    CASE r.ips[RemoteIp] \notin {nodes[n].addresses[1].ip : n \in DOMAIN nodes} -> r
      [] Text(r, Host) # ClusterHost -> Return(r, <<"hash">>)
      [] Text(r, Url) = ClusterHealth -> Return(r, <<"synth", 200>>)
      [] OTHER -> Return(r, <<"synth", 404>>)

\* An address has three bits, and std.ip returns this one for other texts.
NoIp == <<48, 48, 48>>
StdIp(t) == IF t \in [1 .. 3 -> {48, 49}] THEN t ELSE NoIp

\* The regsub of X-Forwarded-For for its last field but one leaves a text alone
\* that it does not match.
Comma == 44
XffField(t, comparand) ==
    LET commas == {n \in DOMAIN t : t[n] = Comma}
        last == Max(commas)
    IN  CASE commas = {} -> t
          [] comparand = XffFirst -> SubSeq(t, 1, Min(commas) - 1)
          [] OTHER -> SubSeq(t, Max({0} \cup (commas \ {last})) + 1, last - 1)

\* aclCmp
AclIp(r, comparand) ==
    CASE comparand \in {XffFirst, Xff2ndLast} -> StdIp(XffField(Text(r, XForwardedFor), comparand))
      [] comparand[1] = REQ -> StdIp(Text(r, comparand))
      [] OTHER -> r.ips[comparand]

\* aclMask; the most specific of the entries that cover an address decides.
Bits(a) == IF a.maskBits > 128 THEN Len(a.addr) ELSE a.maskBits
InAcl(ip, addresses) ==
    \E n \in DOMAIN addresses :
        /\ IsPrefix(SubSeq(addresses[n].addr, 1, Bits(addresses[n])), ip)
        /\ ~addresses[n].negate
        /\ \A m \in DOMAIN addresses :
               IsPrefix(SubSeq(addresses[m].addr, 1, Bits(addresses[m])), ip)
                   => Bits(addresses[m]) <= Bits(addresses[n])

TermsHold(r, terms) ==
    \A n \in DOMAIN terms :
        Related(terms[n].compare, terms[n].negate, Text(r, terms[n].comparand), terms[n].value)

AclStatement(r, a) ==
    LET fails == TermsHold(r, a.conditions)
                     /\ InAcl(AclIp(r, a.comparand), a.addresses) # a.whitelist
        q == IF a.header = <<>> THEN r
             ELSE Assign(r, a.header, IF fails THEN a.failure ELSE a.success)
    IN  IF fails /\ a.failStatus >= 100 THEN Return(q, <<"synth", a.failStatus>>) ELSE q

\* The realm is in the header that vcl_synth adds to the answer.
AuthStatement(r, a) ==
    LET sent == Text(r, IF a.status = 401 THEN Authorization ELSE ProxyAuthorization)
    IN  IF TermsHold(r, a.conditions) /\ sent \notin Range(a.credentials)
        THEN Return(r, <<"synth", a.status, a.realm>>)
        ELSE r

-----------------------------------------------------------------------------
(* rewrite.tmpl                                                            *)

\* MethodType, SubType and SelectType
Replace == 0
Sub == 1
Suball == 2
RewriteMethod == 3
MethodAppend == 4
Prepend == 5
Delete == 6

Unspecified == 0
Recv == 1
Deliver == 8
BackendFetch == 10
BackendResponse == 11

Unique == 0
First == 1
LastRule == 2
Exact == 3
Longest == 4
Shortest == 5

\* rewrSub: the source of the rewrite is not considered.
SubOf(w) ==
    CASE w.sub # Unspecified -> w.sub
      [] w.target[1] = RESP -> Deliver
      [] w.target[1] = BE /\ w.target[2] = RESP -> BackendResponse
      [] w.target[1] = REQ -> Recv
      [] OTHER -> BackendFetch

NeedsMatcher(w) ==
    \/ w.method \notin {MethodAppend, Prepend, Delete, Replace}
    \/ Len(w.rules) > 1
    \/ Len(w.rules) = 1 /\ w.rules[1].value # <<>>

FirstHasValue(w) == w.rules # <<>> /\ w.rules[1].value # <<>>

NeedsUniqueCheck(w) ==
    /\ w.compare # Equal
    /\ w.select = Unique
    /\ w.method # Delete
    /\ w.method \in {Sub, Suball, RewriteMethod} \/ FirstHasValue(w)

Selected(w, hits, text) ==
    CASE w.select = LastRule -> Max(hits)
      [] w.select = Exact -> CHOOSE n \in hits : w.rules[n].value = text
      [] w.select = Longest -> CHOOSE n \in hits :
             \A m \in hits : Len(w.rules[m].value) <= Len(w.rules[n].value)
      [] w.select = Shortest -> CHOOSE n \in hits :
             \A m \in hits : Len(w.rules[m].value) >= Len(w.rules[n].value)
      [] OTHER -> Min(hits)

\* Occurrences of v in t, up to a number of them from the left, are replaced by s;
\* they are found as the set does that was built with the flags.
Replaced(limit, flags, s, v, t) ==
    LET Found(k) == IsPrefix(Folded(flags, v), Folded(flags, SubSeq(t, k, Len(t))))
        Step(done, k) ==
            CASE k < done.next -> done
              [] done.number < limit /\ Found(k) ->
                     [text |-> done.text \o s, next |-> k + Len(v), number |-> done.number + 1]
              [] OTHER -> [done EXCEPT !.text = Append(@, t[k]), !.next = k + 1]
    IN  FoldLeft(Step, [text |-> <<>>, next |-> 1, number |-> 0], [k \in DOMAIN t |-> k]).text

\* sub, suball and extract.  The regex that saveRegex adds to a fixed string is
\* anchored at the start, where the string was found.
Rewritten(w, rule, text) ==
    CASE w.method = RewriteMethod -> rule.rewrite
      [] w.compare # Match -> rule.rewrite \o SubSeq(text, Len(rule.value) + 1, Len(text))
      [] OTHER -> Replaced(IF w.method = Suball THEN Len(text) ELSE 1, w.flags,
                           rule.rewrite, rule.value, text)

RewriteStatement(r, w) ==
    LET source == Text(r, w.source)
        hits == {n \in DOMAIN w.rules : MatcherFinds(w.compare, w.flags, source, w.rules[n].value)}
        rule == w.rules[IF NeedsMatcher(w) THEN Selected(w, hits, source) ELSE 1]
        operand1 == IF w.rules = <<>> THEN Text(r, w.target) ELSE source
        operand2 == IF FirstHasValue(w) \/ Len(w.rules) = 1 THEN rule.rewrite ELSE source
    IN  CASE NeedsMatcher(w) /\ hits = {} -> r
          [] NeedsMatcher(w) /\ NeedsUniqueCheck(w) /\ Cardinality(hits) > 1 -> Return(r, <<"fail">>)
          [] /\ NeedsMatcher(w) /\ w.method # Delete /\ w.select = Exact
             /\ \A n \in hits : w.rules[n].value # source -> Return(r, <<"fail">>)
          [] w.method = Delete -> Unset(r, w.target)
          [] w.method = MethodAppend -> Assign(r, w.target, operand1 \o operand2)
          [] w.method = Prepend -> Assign(r, w.target, operand2 \o operand1)
          [] w.method = Replace -> Assign(r, w.target, operand2)
          [] OTHER -> Assign(r, w.target, Rewritten(w, rule, source))

\* The name of the object for the paths of a host has underscores for its dots.
urlMatcher(rule) == [n \in DOMAIN rule.host |-> IF rule.host[n] = 46 THEN 95 ELSE rule.host[n]]

Differ(Name(_), s) == \A m, n \in DOMAIN s : m # n => Name(s[m]) # Name(s[n])

\* The compiler of Varnish rejects a second object of one name, a statement that
\* lacks its source and, in the VCL for self-sharding, a TTL that is missing.
MentionsSource(w) ==
    \/ NeedsMatcher(w)
    \/ w.method \in {MethodAppend, Prepend}
    \/ w.method = Replace /\ w.rules = <<>>

Compiles(spec) ==
    /\ Differ(urlMatcher, spec.rules)
    /\ Differ(LAMBDA a : a.name, spec.acls)
    /\ Differ(LAMBDA a : a.realm, spec.auths)
    /\ Differ(LAMBDA n : n.name, spec.shard.nodes)
    /\ \A n \in DOMAIN spec.rewrites :
           MentionsSource(spec.rewrites[n]) => spec.rewrites[n].source # <<>>
    /\ spec.shard.nodes # <<>> => spec.shard.maxTTL # <<>>

RewritesOf(spec, sub) == SelectSeq(spec.rewrites, LAMBDA w : SubOf(w) = sub)

-----------------------------------------------------------------------------
(* recv_disposition.tmpl                                                   *)

\* reqNeedsMatcher
ReqNeedsMatcher(c) ==
    \/ c.compare \in {Match, Prefix}
    \/ c.compare = Equal /\ c.count = <<>> /\ Len(c.values) # 1

\* Both the `!` and the relation express that a condition is negated.
ConditionHolds(r, c) ==
    (CASE ReqNeedsMatcher(c) ->
              \E v \in Range(c.values) : MatcherFinds(c.compare, c.flags, Text(r, c.comparand), v)
       [] c.compare = Exists -> c.comparand \in DOMAIN r.vars
       [] c.count # <<>> -> Related(c.compare, c.negate, r.numbers[c.comparand], c.count[1])
       [] OTHER -> Related(c.compare, c.negate, Text(r, c.comparand), c.values[1])) # c.negate

DispositionStatement(r, d) ==
    IF \A n \in DOMAIN d.conditions : ConditionHolds(r, d.conditions[n])
    THEN Return(r, IF d.action = Synth THEN <<Synth, d.status, d.reason>> ELSE <<d.action>>)
    ELSE r

\* Without dispositions the built-in vcl_recv decides.
Received(spec, r) ==
    LET recv == Execute(RewriteStatement, RewritesOf(spec, Recv),
                    Execute(AuthStatement, spec.auths,
                        Execute(AclStatement, spec.acls, ShardStatement(r, spec.shard.nodes))))
        q == Execute(DispositionStatement, spec.dispositions, recv)
    IN  IF q.answer # <<>> THEN q
        ELSE Return(q, <<IF spec.dispositions = <<>> THEN "builtin" ELSE "hash">>)

-----------------------------------------------------------------------------
(* vcl.tmpl                                                                *)

ToService(name, spec, r) ==
    [r EXCEPT !.backend = {a.ip : a \in Range(spec.services[name].addresses)}]

LeastString(S) == CHOOSE p \in S : \A q \in S : ~Before(q, p)

\* vk8s_set_backend.  Go's templates range over the paths of a map in the order of
\* the strings, in which the set has them then.
Routed(spec, r) ==
    LET hosts == {n \in DOMAIN spec.rules : spec.rules[n].host = Text(r, Host)}
        paths == spec.rules[Min(hosts)].paths
        hits == {p \in DOMAIN paths : IsPrefix(p, Text(r, Url))}
    IN  IF Cardinality(hosts) > 1 THEN Return(r, <<"fail">>)
        ELSE IF hosts # {} /\ hits # {} THEN ToService(paths[LeastString(hits)].name, spec, r)
        ELSE IF spec.default.name # <<>> THEN ToService(spec.default.name, spec, r)
        ELSE Return(r, <<Synth, 404>>)

\* Varnish sends a copy of the request to the backend, and the client a copy of
\* what the backend responds.
Copied(r, names, Copy(_)) ==
    [r EXCEPT !.vars = [v \in {Copy(w) : w \in names} |-> r.vars[CHOOSE w \in names : Copy(w) = v]] @@ @]

Fetched(spec, r) ==
    LET bereq == Copied(r, {v \in DOMAIN r.vars : v[1] = REQ}, LAMBDA v : <<BE>> \o v)
    IN  Execute(RewriteStatement, RewritesOf(spec, BackendFetch) \o RewritesOf(spec, BackendResponse),
                [bereq EXCEPT !.answer = <<>>])

Delivered(spec, r) ==
    LET resp == Copied(r, {v \in DOMAIN r.vars : v[1] = BE /\ v[2] = RESP}, Tail)
    IN  Execute(RewriteStatement, RewritesOf(spec, Deliver), resp)

\* What becomes of a request that is not answered by Varnish itself.
Passed(spec, r) ==
    LET routed == Routed(spec, r)
        q == Delivered(spec, Fetched(spec, routed))
    IN  IF routed.answer # r.answer THEN <<routed.answer>>
        ELSE IF q.answer # <<>> THEN <<q.answer>>
        ELSE <<r.answer, q.backend, q.vars>>

ToBackend == {"hash", "pass", "pipe", "builtin"}
Outcome(spec, r) ==
    LET q == Received(spec, r)
    IN  IF q.answer[1] \in ToBackend THEN Passed(spec, q) ELSE <<q.answer>>
=============================================================================
