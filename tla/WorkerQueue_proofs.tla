------------------------- MODULE WorkerQueue_proofs -------------------------
(***************************************************************************)
(* Lemmas about WorkerQueue: types, and the items that wait after a step.  *)
(***************************************************************************)
EXTENDS WorkerQueue, FiniteSetTheorems, TLAPS

\* The elements of sequences that steps of the queue make.
LEMMA Appended ==
    ASSUME NEW I, NEW q \in Seq(I), NEW items \in Seq(I)
    PROVE  q \o items \in Seq(I) /\ ToSet(q \o items) = ToSet(q) \cup ToSet(items)
<1> DEFINE r == q \o items
<1>1. /\ r \in Seq(I) /\ Len(r) = Len(q) + Len(items)
      /\ \A i \in DOMAIN q : r[i] = q[i]
      /\ \A i \in DOMAIN items : r[i + Len(q)] = items[i]
  OBVIOUS
<1>2. ToSet(q) \subseteq ToSet(r) /\ ToSet(items) \subseteq ToSet(r)
  <2>1. \A i \in DOMAIN q : i \in DOMAIN r
    BY <1>1
  <2>2. \A i \in DOMAIN items : i + Len(q) \in DOMAIN r
    BY <1>1
  <2> QED BY <1>1, <2>1, <2>2 DEF ToSet
<1>3. ToSet(r) \subseteq ToSet(q) \cup ToSet(items)
  <2> SUFFICES ASSUME NEW i \in DOMAIN r PROVE r[i] \in ToSet(q) \cup ToSet(items)
    BY DEF ToSet
  <2>1. CASE i \in DOMAIN q
    BY <1>1, <2>1 DEF ToSet
  <2>2. CASE i \notin DOMAIN q
    <3>1. i - Len(q) \in DOMAIN items /\ i = (i - Len(q)) + Len(q)
      BY <1>1, <2>2
    <3> QED BY <1>1, <3>1 DEF ToSet
  <2> QED BY <2>1, <2>2
<1> QED BY <1>1, <1>2, <1>3

LEMMA AppendedOne ==
    ASSUME NEW I, NEW q \in Seq(I), NEW x \in I
    PROVE  Append(q, x) \in Seq(I) /\ ToSet(Append(q, x)) = ToSet(q) \cup {x}
<1>1. Append(q, x) = q \o <<x>> /\ <<x>> \in Seq(I)
  OBVIOUS
<1>2. ToSet(<<x>>) = {x}
  BY DEF ToSet
<1>3. \A items \in Seq(I) : q \o items \in Seq(I) /\ ToSet(q \o items) = ToSet(q) \cup ToSet(items)
  BY Appended
<1>4. q \o <<x>> \in Seq(I) /\ ToSet(q \o <<x>>) = ToSet(q) \cup {x}
  BY <1>1, <1>2, <1>3
<1> QED BY <1>1, <1>4, Zenon

LEMMA TailKeeps ==
    ASSUME NEW I, NEW q \in Seq(I), q # <<>>
    PROVE  /\ Tail(q) \in Seq(I) /\ Head(q) \in I /\ Head(q) \in ToSet(q)
           /\ ToSet(q) = ToSet(Tail(q)) \cup {Head(q)}
<1>1. /\ Tail(q) \in Seq(I) /\ Head(q) \in I /\ Head(q) = q[1] /\ 1 \in DOMAIN q
      /\ Len(Tail(q)) = Len(q) - 1
      /\ \A i \in DOMAIN Tail(q) : Tail(q)[i] = q[i + 1]
  OBVIOUS
<1>2. Head(q) \in ToSet(q)
  BY <1>1 DEF ToSet
<1>3. ToSet(Tail(q)) \subseteq ToSet(q)
  <2> SUFFICES ASSUME NEW i \in DOMAIN Tail(q) PROVE Tail(q)[i] \in ToSet(q)
    BY DEF ToSet
  <2>1. i + 1 \in DOMAIN q
    BY <1>1
  <2> QED BY <1>1, <2>1 DEF ToSet
<1>4. ToSet(q) \subseteq ToSet(Tail(q)) \cup {Head(q)}
  <2> SUFFICES ASSUME NEW i \in DOMAIN q, i # 1 PROVE q[i] \in ToSet(Tail(q))
    BY <1>1 DEF ToSet
  <2>1. i - 1 \in DOMAIN Tail(q) /\ i = (i - 1) + 1
    BY <1>1
  <2> QED BY <1>1, <2>1 DEF ToSet
<1> QED BY <1>1, <1>2, <1>3, <1>4

LEMMA RemovedKeeps ==
    ASSUME NEW I, NEW q \in Seq(I), NEW n \in DOMAIN q
    PROVE  /\ RemoveAt(q, n) \in Seq(I) /\ q[n] \in I
           /\ ToSet(q) \subseteq ToSet(RemoveAt(q, n)) \cup {q[n]}
<1> DEFINE r == RemoveAt(q, n)
           front == SubSeq(q, 1, n - 1)
           back == SubSeq(q, n + 1, Len(q))
<1>1. /\ front \in Seq(I) /\ back \in Seq(I) /\ q[n] \in I
      /\ Len(front) = n - 1 /\ Len(back) = Len(q) - n
      /\ \A i \in 1 .. n - 1 : front[i] = q[i]
      /\ \A i \in 1 .. Len(q) - n : back[i] = q[i + n]
  OBVIOUS
<1>2. r = front \o back
  BY DEF RemoveAt
<1>3. r \in Seq(I) /\ ToSet(r) = ToSet(front) \cup ToSet(back)
  <2> HIDE DEF front, back
  <2> QED BY <1>1, <1>2, Appended
<1>4. ASSUME NEW i \in DOMAIN q, i # n PROVE q[i] \in ToSet(front) \cup ToSet(back)
  <2>1. CASE i < n
    <3>1. i \in DOMAIN front /\ front[i] = q[i]
      BY <1>1, <2>1
    <3> QED BY <3>1 DEF ToSet
  <2>2. CASE i > n
    <3>1. i - n \in DOMAIN back /\ back[i - n] = q[i]
      BY <1>1, <2>2
    <3> QED BY <3>1 DEF ToSet
  <2> QED BY <2>1, <2>2, <1>4
<1> HIDE DEF front, back
<1> QED BY <1>1, <1>3, <1>4 DEF ToSet

\* A finite set as a sequence.
LEMMA SequenceOfSet ==
    ASSUME NEW S, IsFiniteSet(S)
    PROVE  SetToSeq(S) \in Seq(S) /\ ToSet(SetToSeq(S)) = S
<1> DEFINE n == Cardinality(S)
           f == SetToSeq(S)
<1>1. n \in Nat /\ ExistsBijection(1 .. n, S)
  BY FS_CardinalityType
<1>2. PICK g \in [1 .. n -> S] : IsInjective(g)
  BY <1>1 DEF ExistsBijection, Bijection, Injection
<1>3. f \in [1 .. n -> S] /\ IsInjective(f)
  BY <1>2 DEF SetToSeq
<1>4. f \in Injection(1 .. n, S)
  BY <1>3 DEF Injection
<1>5. Cardinality(1 .. n) = n
  BY <1>1, FS_Interval
<1> HIDE DEF f, n
<1>6. f \in Surjection(1 .. n, S)
  BY <1>4, <1>5, FS_Injection DEF n
<1>7. \A x \in S : \E i \in 1 .. n : f[i] = x
  BY <1>6 DEF Surjection
<1>8. f \in Seq(S) /\ DOMAIN f = 1 .. n
  BY <1>1, <1>3
<1> QED BY <1>3, <1>7, <1>8 DEF ToSet, f

-----------------------------------------------------------------------------
(* The steps.                                                              *)

LEMMA EnqueueWaits ==
    ASSUME NEW I, queue \in Seq(I), retries \in Seq(I), NEW items \in Seq(I), Enqueue(items)
    PROVE  /\ queue' \in Seq(I) /\ retries' \in Seq(I)
           /\ Waiting' = Waiting \cup ToSet(items)
<1>1. PICK q \in Seq(I) : q = queue
  OBVIOUS
<1>2. queue' = q \o items /\ retries' = retries
  BY <1>1 DEF Enqueue
<1>3. queue' \in Seq(I) /\ ToSet(queue') = ToSet(queue) \cup ToSet(items)
  BY <1>1, <1>2, Appended
<1> QED BY <1>2, <1>3 DEF Waiting

LEMMA TakesItem ==
    ASSUME NEW I, queue \in Seq(I), NEW kind, Takes(kind)
    PROVE  Head(queue) \in I /\ Head(queue) \in Waiting /\ Head(queue).kind = kind
<1>1. PICK q \in Seq(I) : q = queue
  OBVIOUS
<1>2. q # <<>> /\ Head(q).kind = kind
  BY <1>1 DEF Takes
<1> QED BY <1>1, <1>2, TailKeeps DEF Waiting

LEMMA SyncedWaits ==
    ASSUME NEW I, queue \in Seq(I), retries \in Seq(I), NEW items \in Seq(I), queue # <<>>,
           Synced(items)
    PROVE  /\ queue' \in Seq(I) /\ retries' \in Seq(I)
           /\ Waiting \subseteq Waiting' \cup {Head(queue)}
           /\ ToSet(items) \subseteq Waiting'
           /\ Waiting' \subseteq Waiting \cup ToSet(items)
<1>1. PICK q \in Seq(I) : q = queue
  OBVIOUS
<1>2. queue' = Tail(q) \o items /\ retries' = retries
  BY <1>1 DEF Synced
<1>3. Tail(q) \in Seq(I) /\ ToSet(q) = ToSet(Tail(q)) \cup {Head(q)}
  BY <1>1, TailKeeps
<1>4. queue' \in Seq(I) /\ ToSet(queue') = ToSet(Tail(q)) \cup ToSet(items)
  BY <1>2, <1>3, Appended
<1> QED BY <1>1, <1>2, <1>3, <1>4 DEF Waiting

LEMMA FailedWaits ==
    ASSUME NEW I, queue \in Seq(I), retries \in Seq(I), NEW items \in Seq(I), queue # <<>>,
           Failed(items)
    PROVE  /\ queue' \in Seq(I) /\ retries' \in Seq(I)
           /\ Waiting' = Waiting \cup ToSet(items)
<1>1. PICK q \in Seq(I), r \in Seq(I) : q = queue /\ r = retries
  OBVIOUS
<1>2. queue' = Tail(q) \o items /\ retries' = Append(r, Head(q))
  BY <1>1 DEF Failed
<1>3. Tail(q) \in Seq(I) /\ Head(q) \in I /\ ToSet(q) = ToSet(Tail(q)) \cup {Head(q)}
  BY <1>1, TailKeeps
<1>4. queue' \in Seq(I) /\ ToSet(queue') = ToSet(Tail(q)) \cup ToSet(items)
  BY <1>2, <1>3, Appended
<1>5. retries' \in Seq(I) /\ ToSet(retries') = ToSet(r) \cup {Head(q)}
  BY <1>2, <1>3, AppendedOne
<1> QED BY <1>1, <1>3, <1>4, <1>5 DEF Waiting

LEMMA RetryWaits ==
    ASSUME NEW I, queue \in Seq(I), retries \in Seq(I), NEW n, Retry(n)
    PROVE  /\ queue' \in Seq(I) /\ retries' \in Seq(I)
           /\ Waiting \subseteq Waiting'
<1>1. PICK q \in Seq(I), r \in Seq(I) : q = queue /\ r = retries
  OBVIOUS
<1>2. n \in DOMAIN r /\ queue' = Append(q, r[n]) /\ retries' = RemoveAt(r, n)
  BY <1>1 DEF Retry
<1>3. retries' \in Seq(I) /\ r[n] \in I /\ ToSet(r) \subseteq ToSet(retries') \cup {r[n]}
  BY <1>2, RemovedKeeps
<1>4. queue' \in Seq(I) /\ ToSet(queue') = ToSet(q) \cup {r[n]}
  BY <1>2, <1>3, AppendedOne
<1> QED BY <1>1, <1>3, <1>4 DEF Waiting
=============================================================================
